------------------------ MODULE AgentSessionsProofs -------------------------
(***************************************************************************)
(* What the agent promises of its sessions (AgentSessions), for any        *)
(* devices, sessions and scenarios: its types, that DisconnectAll closes   *)
(* what was listed (ListedAreClosed), one device at a time with the        *)
(* exceptions of OneDevice, and that the service is told whether the PC is *)
(* in use (BusyAtRest).  Then: what the liveness of the module rests on    *)
(* (nobody waits for a Close that is not under way; an open session has    *)
(* something that ends it), and under which condition the properties hold  *)
(* that the code does not keep (RefusedOnlyIfInUse, DisconnectEndsAll).    *)
(*                                                                         *)
(* Everything rests on one fact: a session is made once, by the handler    *)
(* that was started for it (MadeOnce), so that one which is closed stays   *)
(* so.  For OneDevice the check of the list has to stay true until the     *)
(* session is stored: with one request at a time nobody else stores, and   *)
(* what the handler has found can only leave the list.                     *)
(***************************************************************************)
EXTENDS AgentSessions, TLAPS

\* The handler is still to make the session.
Before == {"idle", "check", "replace", "replacing", "build", "refused", "unpaired"}

MadeOnce == \A s \in Sids : handler[s] \in Before => life[s] = "none"

ListFollows ==
    /\ user = "idle" => current = NoSid
    /\ user # "idle" => \A s \in stored : s \in doomed \/ s = current \/ Closed(s)
    /\ user = "done" => doomed = {} /\ current = NoSid

\* One request is handled at a time, and the list is empty, or holds the session that
\* is being replaced, from the check until the new session is stored.
Checked ==
    AllowMultiClient \/ overlapped \/
        /\ \A s, t \in Sids : handler[s] \in Unstored /\ handler[t] \in Unstored => s = t
        /\ Zombies # {} \/
             /\ \A s, t \in table : s = t
             /\ \A s \in Sids :
                   /\ handler[s] \in {"replace", "replacing"} => table \subseteq {earlier[s]}
                   /\ handler[s] \in {"build", "offer", "abort", "aborting", "store"} => table = {}

AgentInv == TypeOK /\ MadeOnce /\ ListFollows /\ Checked

-----------------------------------------------------------------------------
\* What a call of Close changes.
LEMMA CloseCases ==
    ASSUME AgentInv, NEW s \in Sids, Close(s)
    PROVE  /\ life' \in [Sids -> Lives] /\ source' \in [Sids -> Sources] /\ peer' \in [Sids -> Peers]
           /\ \A t \in Sids : life'[t] = life[t] \/ (life[t] = "open" /\ life'[t] = "forget")
<1>1. life \in [Sids -> Lives] /\ source \in [Sids -> Sources] /\ peer \in [Sids -> Peers]
  BY DEF AgentInv, TypeOK
<1>2. CASE life[s] = "open"
  <2>1. /\ life' = [life EXCEPT ![s] = "forget"]
        /\ source' = [source EXCEPT ![s] = IF @ = "running" THEN "closed" ELSE @]
        /\ peer' = [peer EXCEPT ![s] = "gone"]
    BY <1>2 DEF Close
  <2>2. life' \in [Sids -> Lives]
    BY <1>1, <2>1 DEF Lives
  <2>3. source' \in [Sids -> Sources]
    BY <1>1, <2>1 DEF Sources
  <2>4. peer' \in [Sids -> Peers]
    BY <1>1, <2>1 DEF Peers
  <2> QED BY <1>1, <1>2, <2>1, <2>2, <2>3, <2>4
<1>3. CASE life[s] # "open"
  BY <1>1, <1>3 DEF Close, closeVars
<1> QED BY <1>2, <1>3

\* A step that at most advances sessions which are made, and leaves the list, the
\* requests and DisconnectAll alone, keeps what is not a type.
LEMMA AdvanceKeeps ==
    ASSUME AgentInv, UNCHANGED <<table, handler, earlier, overlapped, scenario>>,
           UNCHANGED <<user, doomed, current, stored>>,
           \A t \in Sids : life[t] = life'[t] \/ (life[t] \notin {"none", "closed"} /\ life'[t] # "none")
    PROVE  MadeOnce' /\ ListFollows' /\ Checked'
<1>1. MadeOnce'
  BY DEF AgentInv, MadeOnce, Before
<1>2. stored \subseteq Sids /\ table \subseteq Sids
  BY DEF AgentInv, TypeOK
<1>3. \A t \in Sids : Closed(t) => Closed(t)'
  BY DEF Closed
<1>4. ListFollows'
  BY <1>2, <1>3 DEF AgentInv, ListFollows
<1>5. Zombies # {} => Zombies' # {}
  BY <1>2, <1>3 DEF Zombies
<1>6. Checked'
  BY <1>5 DEF AgentInv, Checked, AllowMultiClient
<1> QED BY <1>1, <1>4, <1>6
\* The end of a session.
LEMMA FinishKeeps == ASSUME AgentInv, NEW s \in Sids, Finish(s), UNCHANGED scenario PROVE AgentInv'
<1>1. TypeOK
  BY DEF AgentInv
<1>2. UNCHANGED <<paired, handler, earlier, overlapped, source, peer, watch, link, reader, ending,
                  user, doomed, current, stored, present>>
  BY DEF Finish, ForgetSession, CountEnd, TellEnd, requestVars, linkVars, userVars
<1>3. /\ life[s] \in {"forget", "count", "tell"}
      /\ \E to \in {"count", "tell", "closed"} : life' = [life EXCEPT ![s] = to]
  BY DEF Finish, ForgetSession, CountEnd, TellEnd, Leaves
<1>4. life' \in [Sids -> Lives]
  BY <1>1, <1>3 DEF TypeOK, Lives
<1>5. \A t \in Sids : life'[t] = life[t] \/ (t = s /\ life'[t] \in {"count", "tell", "closed"})
  BY <1>1, <1>3 DEF TypeOK
<1>6. /\ counted' \in [Senders -> BOOLEAN] /\ busy' \in BOOLEAN /\ crossed' \in BOOLEAN
      /\ table' \subseteq table
  <2>1. <<s, "end">> \in Senders
    BY DEF Senders
  <2>2. CASE ForgetSession(s)
    BY <1>1, <2>2 DEF ForgetSession, statusVars, TypeOK
  <2>3. CASE CountEnd(s)
    <3>1. /\ counted' = [counted EXCEPT ![<<s, "end">>] = table # {}]
          /\ crossed' = (crossed \/ Counting # {}) /\ busy' = busy /\ table' = table
      BY <2>3 DEF CountEnd, Count
    <3> QED BY <1>1, <3>1 DEF TypeOK
  <2>4. CASE TellEnd(s)
    <3>1. /\ busy' = IF link THEN counted[<<s, "end">>] ELSE busy
          /\ counted' = [counted EXCEPT ![<<s, "end">>] = FALSE]
          /\ crossed' = crossed /\ table' = table
      BY <2>4 DEF TellEnd, Send
    <3> QED BY <1>1, <2>1, <3>1 DEF TypeOK
  <2> QED BY <2>2, <2>3, <2>4 DEF Finish
<1>7. TypeOK'
  BY <1>1, <1>2, <1>4, <1>6 DEF TypeOK
<1>8. MadeOnce'
  BY <1>2, <1>3, <1>5 DEF AgentInv, MadeOnce
<1>9. ListFollows'
  BY <1>1, <1>2, <1>3, <1>5 DEF AgentInv, ListFollows, Closed, TypeOK
<1>10. Checked'
  <2>1. Zombies # {} => Zombies' # {}
    <3> SUFFICES ASSUME NEW z \in table, Closed(z) PROVE z \in table' /\ Closed(z)'
      BY <1>6 DEF Zombies
    <3>1. z \in Sids /\ z # s
      BY <1>1, <1>3 DEF TypeOK, Closed
    <3>2. z \in table'
      BY <3>1 DEF Finish, ForgetSession, CountEnd, TellEnd
    <3> QED BY <1>5, <3>1, <3>2 DEF Closed
  <2> QED BY <1>2, <1>6, <2>1 DEF AgentInv, Checked, AllowMultiClient
<1> QED BY <1>7, <1>8, <1>9, <1>10 DEF AgentInv

\* What happens to a session while it is open.
LEMMA GoroutinesKeep == ASSUME AgentInv, NEW s \in Sids, Goroutines(s), UNCHANGED scenario PROVE AgentInv'
<1>1. TypeOK
  BY DEF AgentInv
<1>2. UNCHANGED <<paired, table, handler, earlier, overlapped, link, reader, ending,
                  user, doomed, current, stored, present, counted, busy, crossed>>
  BY DEF Goroutines, OpenSource, SourceOpens, SourceFails, NoCapture, CaptureStops, PeerConnects,
         PeerInterrupted, PeerFails, WatchFires, CloseAndReturn, Only, requestVars, linkVars,
         userVars, statusVars
<1>3. /\ life' \in [Sids -> Lives] /\ source' \in [Sids -> Sources] /\ peer' \in [Sids -> Peers]
      /\ watch' \in [Sids -> {"off", "armed", "over"}]
      /\ \A t \in Sids : life'[t] = life[t] \/ (life[t] = "open" /\ life'[t] = "forget")
  <2>1. CASE UNCHANGED life
    BY <1>1, <2>1, CloseCases DEF Goroutines, OpenSource, SourceOpens, SourceFails, NoCapture,
       CaptureStops, PeerConnects, PeerInterrupted, PeerFails, WatchFires, CloseAndReturn, Only,
       closeVars, TypeOK, Sources, Peers
  <2>2. CASE ~UNCHANGED life
    <3>1. Close(s)
      BY <2>2 DEF Goroutines, OpenSource, SourceOpens, SourceFails, NoCapture, CaptureStops,
         PeerConnects, PeerInterrupted, PeerFails, WatchFires, CloseAndReturn, Only, closeVars
    <3>2. watch' = watch \/ watch' = [watch EXCEPT ![s] = "over"]
      BY <2>2 DEF Goroutines, OpenSource, SourceOpens, SourceFails, NoCapture, CaptureStops,
         PeerConnects, PeerInterrupted, PeerFails, WatchFires, CloseAndReturn, Only, closeVars
    <3> QED BY <1>1, <3>1, <3>2, CloseCases DEF TypeOK
  <2> QED BY <2>1, <2>2
<1>4. TypeOK'
  BY <1>1, <1>2, <1>3 DEF TypeOK
<1> QED BY <1>2, <1>3, <1>4, AdvanceKeeps DEF AgentInv

-----------------------------------------------------------------------------
\* handleConnectRequest.

\* A handler moves by itself, and one that has stored its session does not store again.
LEMMA HandlerMoves ==
    ASSUME AgentInv, NEW s \in Sids, Handle(s)
    PROVE  /\ handler' \in [Sids -> {"idle"} \cup Handling \cup Outcomes]
           /\ \A t \in Sids \ {s} : handler'[t] = handler[t]
           /\ handler'[s] \in Unstored => handler[s] \in Unstored
           /\ UNCHANGED <<paired, overlapped, link, reader, ending, user, doomed, current, stored, present>>
<1>1. handler \in [Sids -> {"idle"} \cup Handling \cup Outcomes]
  BY DEF AgentInv, TypeOK
<1>2. \E from \in Handling, to \in Handling \cup Outcomes :
        Goes(s, from, to) /\ (to \in Unstored => from \in Unstored)
  BY DEF Handle, RefuseUnpaired, Admit, FindOwn, RefuseSecond, Replace, Replaced, BuildFails, Build,
         Offer, OfferFails, Aborted, Store, CountStart, TellStart, Goes, Handling, Outcomes, Unstored
<1>3. UNCHANGED <<paired, overlapped, link, reader, ending, user, doomed, current, stored, present>>
  BY DEF Handle, RefuseUnpaired, Admit, FindOwn, RefuseSecond, Replace, Replaced, BuildFails, Build,
         Offer, OfferFails, Aborted, Store, CountStart, TellStart, linkVars, userVars
<1> QED BY <1>1, <1>2, <1>3 DEF Goes

LEMMA HandleKeepsTypes == ASSUME AgentInv, NEW s \in Sids, Handle(s), UNCHANGED scenario PROVE TypeOK'
<1>1. TypeOK
  BY DEF AgentInv
<1>2. table' \subseteq Sids /\ earlier' \in [Sids -> Sids \cup {NoSid}]
  BY <1>1 DEF Handle, RefuseUnpaired, Admit, FindOwn, RefuseSecond, Replace, Replaced, BuildFails,
     Build, Offer, OfferFails, Aborted, Store, CountStart, TellStart, TypeOK
<1>3. watch' \in [Sids -> {"off", "armed", "over"}]
  BY <1>1 DEF Handle, RefuseUnpaired, Admit, FindOwn, RefuseSecond, Replace, Replaced, BuildFails,
     Build, Offer, OfferFails, Aborted, Store, CountStart, TellStart, sessionVars, TypeOK
<1>4. life' \in [Sids -> Lives] /\ source' \in [Sids -> Sources] /\ peer' \in [Sids -> Peers]
  <2>1. CASE UNCHANGED closeVars
    BY <1>1, <2>1 DEF closeVars, TypeOK
  <2>2. CASE Build(s)
    BY <1>1, <2>2 DEF Build, TypeOK, Lives, Sources, Peers
  <2>3. CASE Replace(s) /\ earlier[s] \in table
    BY <1>1, <2>3, CloseCases DEF Replace, TypeOK
  <2>4. CASE OfferFails(s)
    BY <2>4, CloseCases DEF OfferFails
  <2> QED
    BY <2>1, <2>2, <2>3, <2>4 DEF Handle, RefuseUnpaired, Admit, FindOwn, RefuseSecond, Replace,
       Replaced, BuildFails, Offer, Aborted, Store, CountStart, TellStart, sessionVars, closeVars
<1>5. /\ counted' \in [Senders -> BOOLEAN] /\ busy' \in BOOLEAN /\ crossed' \in BOOLEAN
  <2>1. <<s, "start">> \in Senders
    BY DEF Senders
  <2>2. CASE UNCHANGED statusVars
    BY <1>1, <2>2 DEF statusVars, TypeOK
  <2>3. CASE CountStart(s)
    <3>1. /\ counted' = [counted EXCEPT ![<<s, "start">>] = table # {}]
          /\ crossed' = (crossed \/ Counting # {}) /\ busy' = busy
      BY <2>3 DEF CountStart, Count
    <3> QED BY <1>1, <3>1 DEF TypeOK
  <2>4. CASE TellStart(s)
    <3>1. /\ busy' = IF link THEN counted[<<s, "start">>] ELSE busy
          /\ counted' = [counted EXCEPT ![<<s, "start">>] = FALSE]
          /\ crossed' = crossed
      BY <2>4 DEF TellStart, Send
    <3> QED BY <1>1, <2>1, <3>1 DEF TypeOK
  <2> QED
    BY <2>2, <2>3, <2>4 DEF Handle, RefuseUnpaired, Admit, FindOwn, RefuseSecond, Replace,
       Replaced, BuildFails, Build, Offer, OfferFails, Aborted, Store
<1> QED BY <1>1, <1>2, <1>3, <1>4, <1>5, HandlerMoves DEF TypeOK

\* Sessions come open only when they are made, and what is closed stays so.
LEMMA HandleKeepsLives ==
    ASSUME AgentInv, NEW s \in Sids, Handle(s)
    PROVE  /\ MadeOnce'
           /\ \A t \in Sids : Closed(t) => Closed(t)'
<1>1. TypeOK /\ MadeOnce
  BY DEF AgentInv
<1>2. CASE UNCHANGED life
  <2>1. handler'[s] \in Before => handler[s] \in Before
    BY <1>1, <1>2 DEF Handle, RefuseUnpaired, Admit, FindOwn, RefuseSecond, Replace,
       Replaced, BuildFails, Build, Offer, OfferFails, Aborted, Store, CountStart, TellStart, Goes,
       Before, TypeOK
  <2> QED BY <1>1, <1>2, <2>1, HandlerMoves DEF MadeOnce, Closed
<1>3. CASE Build(s)
  BY <1>1, <1>3 DEF Build, Goes, MadeOnce, Before, Closed, TypeOK
<1>4. CASE Replace(s) /\ earlier[s] \in table
  <2>1. /\ handler[s] = "replace" /\ handler' = [handler EXCEPT ![s] = "replacing"]
        /\ Close(earlier[s]) /\ earlier[s] \in Sids
    BY <1>1, <1>4 DEF Replace, Goes, TypeOK
  <2> QED BY <1>1, <2>1, CloseCases DEF MadeOnce, Before, Closed, TypeOK
<1>5. CASE OfferFails(s)
  <2>1. handler[s] = "offer" /\ handler' = [handler EXCEPT ![s] = "aborting"] /\ Close(s)
    BY <1>5 DEF OfferFails, Goes
  <2> QED BY <1>1, <2>1, CloseCases DEF MadeOnce, Before, Closed, TypeOK
<1> QED
  BY <1>2, <1>3, <1>4, <1>5 DEF Handle, RefuseUnpaired, Admit, FindOwn, RefuseSecond, Replace,
     Replaced, BuildFails, Offer, Aborted, Store, CountStart, TellStart, sessionVars, closeVars

LEMMA HandleKeepsChecked ==
    ASSUME AgentInv, NEW s \in Sids, Handle(s), UNCHANGED scenario
    PROVE  Checked'
<1> SUFFICES ASSUME ~AllowMultiClient, ~overlapped
             PROVE  Checked'
  BY HandlerMoves DEF Checked, AllowMultiClient
<1>1. /\ TypeOK
      /\ \A t, u \in Sids : handler[t] \in Unstored /\ handler[u] \in Unstored => t = u
  BY DEF AgentInv, Checked
<1>2. \A t, u \in Sids : handler'[t] \in Unstored /\ handler'[u] \in Unstored => t = u
  BY <1>1, HandlerMoves
<1>3. SUFFICES ASSUME Zombies' = {}
               PROVE  /\ \A t, u \in table' : t = u
                      /\ \A r \in Sids :
                           /\ handler'[r] \in {"replace", "replacing"} => table' \subseteq {earlier'[r]}
                           /\ handler'[r] \in {"build", "offer", "abort", "aborting", "store"} => table' = {}
  BY <1>2 DEF Checked
<1>4. table \subseteq table' /\ (Store(s) \/ table' = table)
  BY DEF Handle, RefuseUnpaired, Admit, FindOwn, RefuseSecond, Replace, Replaced, BuildFails, Build,
     Offer, OfferFails, Aborted, Store, CountStart, TellStart
<1>5. Zombies = {}
  BY <1>1, <1>3, <1>4, HandleKeepsLives DEF Zombies, TypeOK
<1>6. /\ \A t, u \in table : t = u
      /\ \A r \in Sids :
           /\ handler[r] \in {"replace", "replacing"} => table \subseteq {earlier[r]}
           /\ handler[r] \in {"build", "offer", "abort", "aborting", "store"} => table = {}
  BY <1>5 DEF AgentInv, Checked
<1>7. CASE Store(s)
  <2>1. table' = {s} /\ handler[s] = "store" /\ handler'[s] = "count" /\ handler[s] \in Unstored
    BY <1>1, <1>6, <1>7 DEF Store, Goes, TypeOK, Unstored
  <2>2. \A r \in Sids : handler'[r] \notin Unstored
    BY <1>1, <2>1, HandlerMoves DEF Unstored
  <2> QED BY <2>1, <2>2 DEF Unstored
<1>8. CASE ~Store(s)
  <2>1. table' = table
    BY <1>4, <1>8
  <2>2. \A r \in Sids \ {s} : earlier'[r] = earlier[r] /\ handler'[r] = handler[r]
    BY <1>1, HandlerMoves DEF Handle, RefuseUnpaired, Admit, FindOwn, RefuseSecond, Replace, Replaced,
       BuildFails, Build, Offer, OfferFails, Aborted, Store, CountStart, TellStart, TypeOK
  <2>3. handler'[s] \in {"replace", "replacing"} => table \subseteq {earlier'[s]}
    BY <1>1, <1>6, <1>8 DEF Handle, RefuseUnpaired, Admit, FindOwn, RefuseSecond, Replace, Replaced,
       BuildFails, Build, Offer, OfferFails, Aborted, CountStart, TellStart, Goes, TypeOK
  <2>4. handler'[s] \in {"build", "offer", "abort", "aborting", "store"} => table = {}
    <3>1. CASE Replaced(s)
      <4>1. table \subseteq {earlier[s]} /\ Closed(earlier[s])
        BY <1>6, <3>1 DEF Replaced, Goes
      <4> QED BY <1>5, <4>1 DEF Zombies
    <3>2. CASE Replace(s)
      BY <1>1, <1>6, <3>2 DEF Replace, Goes, TypeOK
    <3>3. CASE Admit(s)
      BY <3>3 DEF Admit
    <3> QED
      BY <1>1, <1>6, <1>8, <3>1, <3>2, <3>3 DEF Handle, RefuseUnpaired, FindOwn, RefuseSecond,
         BuildFails, Build, Offer, OfferFails, Aborted, CountStart, TellStart, Goes, TypeOK
  <2> QED BY <1>6, <2>1, <2>2, <2>3, <2>4
<1> QED BY <1>7, <1>8

LEMMA HandleKeeps == ASSUME AgentInv, NEW s \in Sids, Handle(s), UNCHANGED scenario PROVE AgentInv'
<1>1. ListFollows'
  <2>1. stored \subseteq Sids
    BY DEF AgentInv, TypeOK
  <2> QED BY <2>1, HandlerMoves, HandleKeepsLives DEF AgentInv, ListFollows
<1> QED BY <1>1, HandleKeepsTypes, HandleKeepsLives, HandleKeepsChecked DEF AgentInv

-----------------------------------------------------------------------------
\* The reader of the link.

LEMMA RequestKeeps == ASSUME AgentInv, NEW s \in Sids, Request(s), UNCHANGED scenario PROVE AgentInv'
<1>1. /\ handler[s] = "idle" /\ handler' = [handler EXCEPT ![s] = "check"]
      /\ overlapped' = (overlapped \/ \E t \in Sids : handler[t] \in Unstored)
      /\ UNCHANGED <<paired, table, earlier, life, source, peer, watch, link, reader, ending,
                     user, doomed, current, stored, present, counted, busy, crossed>>
  BY DEF Request, Goes, sessionVars, closeVars, linkVars, userVars, statusVars
<1>2. TypeOK /\ MadeOnce /\ ListFollows
  BY DEF AgentInv
<1>3. TypeOK'
  BY <1>1, <1>2 DEF TypeOK, Handling
<1>4. MadeOnce' /\ ListFollows'
  BY <1>1, <1>2 DEF TypeOK, MadeOnce, Before, ListFollows, Closed
<1>5. Checked'
  <2>1. CASE \E t \in Sids : handler[t] \in Unstored
    BY <1>1, <2>1 DEF Checked
  <2>2. CASE \A t \in Sids : handler[t] \notin Unstored
    BY <1>1, <1>2, <2>2 DEF AgentInv, Checked, TypeOK, Unstored, Zombies, Closed, AllowMultiClient
  <2> QED BY <2>1, <2>2
<1> QED BY <1>3, <1>4, <1>5 DEF AgentInv

LEMMA IncomingKeeps == ASSUME AgentInv, NEW s \in Sids, Answer(s) \/ PeerEnds(s), UNCHANGED scenario
                       PROVE  AgentInv'
<1>1. TypeOK
  BY DEF AgentInv
<1>2. UNCHANGED <<paired, table, handler, earlier, overlapped, watch, link,
                  user, doomed, current, stored, present, counted, busy, crossed>>
  BY DEF Answer, PeerEnds, Only, requestVars, linkVars, userVars, statusVars
<1>3. /\ life' \in [Sids -> Lives] /\ source' \in [Sids -> Sources] /\ peer' \in [Sids -> Peers]
      /\ \A t \in Sids : life'[t] = life[t] \/ (life[t] = "open" /\ life'[t] = "forget")
  <2>1. CASE Answer(s)
    BY <1>1, <2>1 DEF Answer, Only, TypeOK, Peers
  <2>2. CASE PeerEnds(s)
    BY <2>2, CloseCases DEF PeerEnds
  <2> QED BY <2>1, <2>2
<1>4. (ending' = ending /\ reader' = reader) \/ (ending' = s /\ reader' = "ending")
  BY DEF Answer, PeerEnds, Only, linkVars
<1>5. TypeOK'
  BY <1>1, <1>2, <1>3, <1>4, AgentAssumption DEF TypeOK
<1> QED BY <1>2, <1>3, <1>5, AdvanceKeeps DEF AgentInv

\* Steps of the reader and of the link leave the sessions alone.
LEMMA ReaderKeeps ==
    ASSUME AgentInv, UNCHANGED scenario,
           Reader \/ LinkDown \/ \E c \in Clients : ForgetDevice(c)
    PROVE  AgentInv'
<1>1. TypeOK
  BY DEF AgentInv
<1>2. UNCHANGED <<table, handler, earlier, overlapped, life, source, peer, watch,
                  user, doomed, current, stored, present>>
  BY DEF Reader, ReaderEnded, RegisterCount, RegisterSend, Reconnect, LinkDown, ForgetDevice,
         requestVars, sessionVars, closeVars, userVars
<1>3. /\ paired' \subseteq Clients /\ link' \in BOOLEAN
      /\ reader' \in {"free", "ending", "register", "send"}
      /\ ending' \in Sids \cup {NoSid} /\ (ending' # NoSid <=> reader' = "ending")
  BY <1>1 DEF Reader, ReaderEnded, RegisterCount, RegisterSend, Reconnect, LinkDown, ForgetDevice,
     linkVars, TypeOK
<1>4. /\ counted' \in [Senders -> BOOLEAN] /\ busy' \in BOOLEAN /\ crossed' \in BOOLEAN
  <2>1. Registering \in Senders
    BY DEF Senders
  <2>2. CASE RegisterCount
    <3>1. /\ counted' = [counted EXCEPT ![Registering] = table # {}]
          /\ crossed' = (crossed \/ Counting # {}) /\ busy' = busy
      BY <2>2 DEF RegisterCount, Count
    <3> QED BY <1>1, <3>1 DEF TypeOK
  <2>3. CASE RegisterSend
    <3>1. /\ busy' = IF link THEN counted[Registering] ELSE busy
          /\ counted' = [counted EXCEPT ![Registering] = FALSE]
          /\ crossed' = crossed
      BY <2>3 DEF RegisterSend, Send
    <3> QED BY <1>1, <2>1, <3>1 DEF TypeOK
  <2> QED
    BY <1>1, <2>2, <2>3 DEF Reader, ReaderEnded, Reconnect, LinkDown, ForgetDevice, statusVars, TypeOK
<1>5. TypeOK'
  BY <1>1, <1>2, <1>3, <1>4 DEF TypeOK
<1> QED BY <1>2, <1>5, AdvanceKeeps DEF AgentInv

-----------------------------------------------------------------------------
\* DisconnectAll.

LEMMA DisconnectKeeps ==
    ASSUME AgentInv, UNCHANGED scenario, DisconnectAll \/ Disconnecting
    PROVE  AgentInv'
<1>1. TypeOK /\ ListFollows
  BY DEF AgentInv
<1>2. UNCHANGED <<paired, table, handler, earlier, overlapped, watch, link, reader, ending,
                  counted, busy, crossed>>
  BY DEF DisconnectAll, Disconnecting, DisconnectOne, DisconnectNext, DisconnectReturns, requestVars,
         sessionVars, linkVars, statusVars
<1>3. /\ life' \in [Sids -> Lives] /\ source' \in [Sids -> Sources] /\ peer' \in [Sids -> Peers]
      /\ \A t \in Sids : life'[t] = life[t] \/ (life[t] = "open" /\ life'[t] = "forget")
  <2>1. CASE \E s \in Sids : DisconnectOne(s)
    BY <2>1, CloseCases DEF DisconnectOne
  <2> QED
    BY <1>1, <2>1 DEF DisconnectAll, Disconnecting, DisconnectNext, DisconnectReturns, sessionVars,
       closeVars, TypeOK
<1>4. TypeOK'
  <2>1. /\ user' \in {"idle", "ending", "done"} /\ doomed' \subseteq Sids
        /\ stored' \subseteq Sids /\ present' \subseteq Sids
        /\ current' \in Sids \cup {NoSid} /\ (current' # NoSid => user' = "ending")
    BY <1>1 DEF DisconnectAll, Disconnecting, DisconnectOne, DisconnectNext, DisconnectReturns,
       TypeOK, ListFollows
  <2> QED BY <1>1, <1>2, <1>3, <2>1 DEF TypeOK
<1>5. \A t \in Sids : Closed(t) <=> Closed(t)'
  BY <1>3 DEF Closed
<1>6. ListFollows'
  <2>1. stored \subseteq Sids /\ (user # "idle" => stored' = stored)
    BY <1>1 DEF DisconnectAll, Disconnecting, DisconnectOne, DisconnectNext, DisconnectReturns, TypeOK
  <2>2. CASE DisconnectAll
    BY <1>1, <2>2 DEF DisconnectAll, ListFollows
  <2>3. CASE \E s \in Sids : DisconnectOne(s)
    BY <1>1, <1>5, <2>1, <2>3, AgentAssumption DEF DisconnectOne, ListFollows
  <2>4. CASE DisconnectNext
    <3>1. user = "ending" /\ user' = user /\ doomed' = doomed /\ current' = NoSid
      BY <1>1, <2>4 DEF DisconnectNext, TypeOK
    <3>2. current \in Sids /\ life[current] = "closed"
      BY <1>1, <2>4 DEF DisconnectNext, TypeOK, Closed
    <3> QED BY <1>1, <1>3, <2>1, <3>1, <3>2 DEF ListFollows, Closed
  <2>5. CASE DisconnectReturns
    BY <1>1, <1>5, <2>1, <2>5 DEF DisconnectReturns, ListFollows
  <2> QED BY <2>2, <2>3, <2>4, <2>5 DEF Disconnecting
<1>7. MadeOnce'
  BY <1>2, <1>3 DEF AgentInv, MadeOnce
<1>8. Checked'
  <2>1. Zombies # {} => Zombies' # {}
    BY <1>1, <1>2, <1>5 DEF Zombies, TypeOK
  <2> QED BY <1>2, <2>1 DEF AgentInv, Checked, AllowMultiClient
<1> QED BY <1>4, <1>6, <1>7, <1>8 DEF AgentInv

-----------------------------------------------------------------------------
LEMMA AgentInit == Init => AgentInv
<1> SUFFICES ASSUME Init PROVE AgentInv
  OBVIOUS
<1>1. TypeOK
  <2>1. /\ handler \in [Sids -> {"idle"} \cup Handling \cup Outcomes]
        /\ earlier \in [Sids -> Sids \cup {NoSid}] /\ counted \in [Senders -> BOOLEAN]
    BY DEF Init
  <2>2. /\ life \in [Sids -> Lives] /\ source \in [Sids -> Sources] /\ peer \in [Sids -> Peers]
        /\ watch \in [Sids -> {"off", "armed", "over"}]
    BY DEF Init, Lives, Sources, Peers
  <2> QED BY <2>1, <2>2 DEF Init, TypeOK
<1>2. MadeOnce /\ ListFollows /\ Checked
  BY DEF Init, MadeOnce, ListFollows, Checked, Unstored, Zombies
<1> QED BY <1>1, <1>2 DEF AgentInv

LEMMA AgentStep == AgentInv /\ [Next]_vars => AgentInv'
<1> SUFFICES ASSUME AgentInv, [Next]_vars PROVE AgentInv'
  OBVIOUS
<1>1. CASE UNCHANGED vars
  <2>1. UNCHANGED <<paired, table, handler, earlier, overlapped, life, source, peer, watch, link,
                    reader, ending, user, doomed, current, stored, present, counted, busy, crossed,
                    scenario>>
    BY <1>1 DEF vars, requestVars, sessionVars, closeVars, linkVars, userVars, statusVars
  <2>2. TypeOK'
    BY <2>1 DEF AgentInv, TypeOK
  <2> QED BY <2>1, <2>2, AdvanceKeeps DEF AgentInv
<1>2. CASE Next
  <2>1. CASE \E s \in Sids : Handle(s) \/ Finish(s) \/ Goroutines(s) \/ Incoming(s)
    BY <1>2, <2>1, HandleKeeps, FinishKeeps, GoroutinesKeep, RequestKeeps, IncomingKeeps
       DEF Next, Incoming
  <2>2. CASE Reader \/ LinkDown \/ \E c \in Clients : ForgetDevice(c)
    BY <1>2, <2>2, ReaderKeeps DEF Next
  <2>3. CASE DisconnectAll \/ Disconnecting
    BY <1>2, <2>3, DisconnectKeeps DEF Next
  <2> QED BY <1>2, <2>1, <2>2, <2>3 DEF Next, Steps
<1> QED BY <1>1, <1>2

\* The inductive invariant of the agent's sessions.
THEOREM AgentInvariant == Spec => []AgentInv
  BY AgentInit, AgentStep, PTL DEF Spec

\* Every variable has its type, for any devices, sessions and scenarios.
THEOREM AgentTyped == Spec => []TypeOK
<1>1. AgentInv => TypeOK
  BY DEF AgentInv
<1> QED BY <1>1, AgentInvariant, PTL

\* What was listed when DisconnectAll began is closed to the end when it returns
\* (agent.go:624-641), whoever else closes, connects or is being served meanwhile.
THEOREM ListedGetClosed == Spec => []ListedAreClosed
<1>1. AgentInv => ListedAreClosed
  BY AgentAssumption DEF AgentInv, ListFollows, ListedAreClosed, TypeOK
<1> QED BY <1>1, AgentInvariant, PTL

\* One device at a time (agent.go:472-533), with the exceptions of the property: requests
\* that are handled at once, and a closed session that stays listed.
THEOREM OneDeviceAtATime == Spec => []OneDevice
<1>1. AgentInv => OneDevice
  BY DEF AgentInv, Checked, OneDevice, Open
<1> QED BY <1>1, AgentInvariant, PTL

-----------------------------------------------------------------------------
(* What the service is told (BusyAtRest).  Between a change of the list    *)
(* and the status that reports it, the one who made the change is still to *)
(* count; until one status is counted while another is on its way, one     *)
(* sender at most has counted and not sent.                                *)

\* Nobody is still to count.
Settled ==
    /\ \A s \in Sids : handler[s] # "count" /\ life[s] \notin {"forget", "count"}
    /\ reader # "register"

BusyFollows ==
    crossed \/
        /\ \A u, v \in Counting : u = v
        /\ Settled => /\ \A u \in Counting : counted[u] = (table # {})
                      /\ Counting = {} /\ link => busy = (table # {})

StatusInv == AgentInv /\ BusyFollows

\* A step that counts and sends nothing.
LEMMA QuietKeepsStatus ==
    ASSUME StatusInv, UNCHANGED <<counted, busy, crossed>>,
           \A s \in Sids : /\ handler'[s] = "tell" <=> handler[s] = "tell"
                           /\ life'[s] = "tell" <=> life[s] = "tell",
           reader' = "send" <=> reader = "send",
           Settled' => Settled /\ table' = table /\ (link' => link)
    PROVE  BusyFollows'
<1>1. Counting' = Counting
  BY DEF Counting
<1> QED BY <1>1 DEF StatusInv, BusyFollows

\* A status that is counted is the newest, unless another is on its way.
LEMMA CountKeepsStatus ==
    ASSUME StatusInv, NEW u \in Senders, Count(u), UNCHANGED table,
           \A v : v \in Counting' <=> v \in Counting \/ v = u
    PROVE  BusyFollows'
<1>1. CASE Counting # {}
  BY <1>1 DEF Count, BusyFollows
<1>2. CASE Counting = {}
  <2>1. \A v : v \in Counting' <=> v = u
    BY <1>2
  <2>2. counted' = [counted EXCEPT ![u] = table # {}] /\ counted \in [Senders -> BOOLEAN]
    BY DEF Count, StatusInv, AgentInv, TypeOK
  <2>3. counted'[u] = (table # {})
    BY <2>2
  <2> QED BY <2>1, <2>3 DEF BusyFollows
<1> QED BY <1>1, <1>2

\* A status that is sent was the only one on its way.
LEMMA SendKeepsStatus ==
    ASSUME StatusInv, NEW u \in Counting, Send(u), UNCHANGED <<table, link>>,
           \A v : v \in Counting' <=> v \in Counting /\ v # u,
           Settled' => Settled
    PROVE  BusyFollows'
<1>1. CASE crossed
  BY <1>1 DEF Send, BusyFollows
<1>2. CASE ~crossed
  <2>1. Counting' = {}
    BY <1>2 DEF StatusInv, BusyFollows
  <2>2. Settled' /\ link' => busy' = (table' # {})
    <3> SUFFICES ASSUME Settled', link' PROVE busy' = (table' # {})
      OBVIOUS
    <3>1. busy' = counted[u]
      BY DEF Send
    <3> QED BY <1>2, <3>1 DEF StatusInv, BusyFollows
  <2> QED BY <2>1, <2>2 DEF BusyFollows
<1> QED BY <1>1, <1>2

-----------------------------------------------------------------------------
LEMMA HandleKeepsStatus ==
    ASSUME StatusInv, NEW s \in Sids, Handle(s) PROVE BusyFollows'
<1>1. AgentInv /\ TypeOK
  BY DEF StatusInv, AgentInv
<1>2. CASE CountStart(s)
  <2>1. /\ handler[s] = "count" /\ handler' = [handler EXCEPT ![s] = "tell"]
        /\ UNCHANGED <<table, life, reader>> /\ Count(<<s, "start">>)
    BY <1>2 DEF CountStart, Goes, sessionVars, closeVars, linkVars
  <2>2. \A v : v \in Counting' <=> v \in Counting \/ v = <<s, "start">>
    BY <1>1, <2>1 DEF Counting, TypeOK, Registering
  <2>3. <<s, "start">> \in Senders
    BY DEF Senders
  <2> QED BY <2>1, <2>2, <2>3, CountKeepsStatus
<1>3. CASE TellStart(s)
  <2>1. /\ handler[s] = "tell" /\ handler' = [handler EXCEPT ![s] = "served"]
        /\ UNCHANGED <<table, life, reader, link>> /\ Send(<<s, "start">>)
    BY <1>3 DEF TellStart, Goes, sessionVars, closeVars, linkVars
  <2>2. <<s, "start">> \in Counting
    BY <2>1 DEF Counting
  <2>3. \A v : v \in Counting' <=> v \in Counting /\ v # <<s, "start">>
    BY <1>1, <2>1 DEF Counting, TypeOK, Registering
  <2>4. Settled' => Settled
    BY <1>1, <2>1 DEF Settled, TypeOK
  <2> QED BY <2>1, <2>2, <2>3, <2>4, SendKeepsStatus
<1>4. CASE ~CountStart(s) /\ ~TellStart(s)
  <2>1. UNCHANGED <<counted, busy, crossed, reader, link>>
    BY <1>4 DEF Handle, RefuseUnpaired, Admit, FindOwn, RefuseSecond, Replace, Replaced, BuildFails,
       Build, Offer, OfferFails, Aborted, Store, statusVars, linkVars
  <2>2. /\ handler[s] \notin {"count", "tell"} /\ handler'[s] # "tell"
        /\ handler'[s] = "count" <=> Store(s)
    BY <1>1, <1>4 DEF Handle, RefuseUnpaired, Admit, FindOwn, RefuseSecond, Replace, Replaced,
       BuildFails, Build, Offer, OfferFails, Aborted, Store, Goes, TypeOK
  <2>3. Store(s) \/ table' = table
    BY <1>4 DEF Handle, RefuseUnpaired, Admit, FindOwn, RefuseSecond, Replace, Replaced, BuildFails,
       Build, Offer, OfferFails, Aborted
  <2>4. \A t \in Sids : life'[t] = life[t] \/ (life[t] = "none" /\ life'[t] = "open")
                         \/ (life[t] = "open" /\ life'[t] = "forget")
    <3>1. CASE UNCHANGED life
      BY <3>1
    <3>2. CASE Build(s)
      BY <1>1, <3>2 DEF Build, Goes, AgentInv, MadeOnce, Before, TypeOK
    <3>3. CASE Replace(s) /\ earlier[s] \in table
      BY <1>1, <3>3, CloseCases DEF Replace, TypeOK
    <3>4. CASE OfferFails(s)
      BY <1>1, <3>4, CloseCases DEF OfferFails
    <3> QED BY <1>4, <3>1, <3>2, <3>3, <3>4 DEF Handle, RefuseUnpaired, Admit, FindOwn, RefuseSecond,
               Replace, Replaced, BuildFails, Offer, Aborted, Store, sessionVars, closeVars
  <2>5. Settled' => Settled /\ table' = table
    BY <1>1, <2>1, <2>2, <2>3, <2>4, HandlerMoves DEF Settled
  <2> QED BY <1>1, <2>1, <2>2, <2>4, <2>5, HandlerMoves, QuietKeepsStatus
<1> QED BY <1>2, <1>3, <1>4

LEMMA FinishKeepsStatus ==
    ASSUME StatusInv, NEW s \in Sids, Finish(s) PROVE BusyFollows'
<1>1. AgentInv /\ TypeOK
  BY DEF StatusInv, AgentInv
<1>2. CASE ForgetSession(s)
  <2>1. /\ life[s] = "forget" /\ life' = [life EXCEPT ![s] = "count"]
        /\ UNCHANGED <<handler, reader, link, counted, busy, crossed>>
    BY <1>2 DEF ForgetSession, Leaves, requestVars, linkVars, statusVars
  <2> QED BY <1>1, <2>1, QuietKeepsStatus DEF Settled, TypeOK
<1>3. CASE CountEnd(s)
  <2>1. /\ life[s] = "count" /\ life' = [life EXCEPT ![s] = "tell"]
        /\ UNCHANGED <<table, handler, reader>> /\ Count(<<s, "end">>)
    BY <1>3 DEF CountEnd, Leaves, requestVars, linkVars
  <2>2. \A v : v \in Counting' <=> v \in Counting \/ v = <<s, "end">>
    BY <1>1, <2>1 DEF Counting, TypeOK, Registering
  <2>3. <<s, "end">> \in Senders
    BY DEF Senders
  <2> QED BY <2>1, <2>2, <2>3, CountKeepsStatus
<1>4. CASE TellEnd(s)
  <2>1. /\ life[s] = "tell" /\ life' = [life EXCEPT ![s] = "closed"]
        /\ UNCHANGED <<table, handler, reader, link>> /\ Send(<<s, "end">>)
    BY <1>4 DEF TellEnd, Leaves, requestVars, linkVars
  <2>2. <<s, "end">> \in Counting
    BY <2>1 DEF Counting
  <2>3. \A v : v \in Counting' <=> v \in Counting /\ v # <<s, "end">>
    BY <1>1, <2>1 DEF Counting, TypeOK, Registering
  <2>4. Settled' => Settled
    BY <1>1, <2>1 DEF Settled, TypeOK
  <2> QED BY <2>1, <2>2, <2>3, <2>4, SendKeepsStatus
<1> QED BY <1>2, <1>3, <1>4 DEF Finish

LEMMA GoroutinesKeepStatus ==
    ASSUME StatusInv, NEW s \in Sids, Goroutines(s) \/ Request(s) \/ Answer(s) \/ PeerEnds(s)
    PROVE  BusyFollows'
<1>1. AgentInv /\ TypeOK
  BY DEF StatusInv, AgentInv
<1>2. /\ UNCHANGED <<table, link, counted, busy, crossed>>
      /\ reader' = reader \/ (reader' = "ending" /\ reader = "free")
  BY DEF Goroutines, OpenSource, SourceOpens, SourceFails, NoCapture, CaptureStops, PeerConnects,
     PeerInterrupted, PeerFails, WatchFires, CloseAndReturn, Request, Answer, PeerEnds, Only,
     linkVars, statusVars
<1>3. handler' = handler \/ (handler[s] = "idle" /\ handler' = [handler EXCEPT ![s] = "check"])
  BY DEF Goroutines, OpenSource, SourceOpens, SourceFails, NoCapture, CaptureStops, PeerConnects,
     PeerInterrupted, PeerFails, WatchFires, CloseAndReturn, Request, Answer, PeerEnds, Only, Goes,
     requestVars
<1>4. \A t \in Sids : life'[t] = life[t] \/ (life[t] = "open" /\ life'[t] = "forget")
  <2>1. UNCHANGED life \/ Close(s)
    BY DEF Goroutines, OpenSource, SourceOpens, SourceFails, NoCapture, CaptureStops, PeerConnects,
       PeerInterrupted, PeerFails, WatchFires, CloseAndReturn, Request, Answer, PeerEnds, Only,
       sessionVars, closeVars
  <2> QED BY <1>1, <2>1, CloseCases
<1>5. \A t \in Sids : /\ handler'[t] = "tell" <=> handler[t] = "tell"
                      /\ handler'[t] = "count" <=> handler[t] = "count"
  BY <1>1, <1>3 DEF TypeOK
<1>6. Settled' => Settled
  BY <1>2, <1>4, <1>5 DEF Settled
<1> QED BY <1>2, <1>4, <1>5, <1>6, QuietKeepsStatus

LEMMA ReaderKeepsStatus ==
    ASSUME StatusInv, Reader \/ LinkDown \/ \E c \in Clients : ForgetDevice(c)
    PROVE  BusyFollows'
<1>1. UNCHANGED <<table, handler, life>>
  BY DEF Reader, ReaderEnded, RegisterCount, RegisterSend, Reconnect, LinkDown, ForgetDevice,
         requestVars, sessionVars, closeVars
<1>2. CASE RegisterCount
  <2>1. reader = "register" /\ reader' = "send" /\ Count(Registering)
    BY <1>2 DEF RegisterCount
  <2>2. \A v : v \in Counting' <=> v \in Counting \/ v = Registering
    BY <1>1, <2>1 DEF Counting
  <2>3. Registering \in Senders
    BY DEF Senders
  <2> QED BY <1>1, <2>1, <2>2, <2>3, CountKeepsStatus
<1>3. CASE RegisterSend
  <2>1. reader = "send" /\ reader' = "free" /\ UNCHANGED link /\ Send(Registering)
    BY <1>3 DEF RegisterSend
  <2>2. Registering \in Counting
    BY <2>1 DEF Counting
  <2>3. \A v : v \in Counting' <=> v \in Counting /\ v # Registering
    BY <1>1, <2>1, AgentAssumption DEF Counting, Registering
  <2>4. Settled' => Settled
    BY <1>1, <2>1 DEF Settled
  <2> QED BY <1>1, <2>1, <2>2, <2>3, <2>4, SendKeepsStatus
<1>4. CASE Reconnect
  <2>1. reader = "free" /\ reader' = "register" /\ UNCHANGED <<counted, crossed>>
    BY <1>4 DEF Reconnect
  <2>2. Counting' = Counting /\ ~Settled'
    BY <1>1, <2>1 DEF Counting, Settled
  <2> QED BY <2>1, <2>2 DEF StatusInv, BusyFollows
<1>5. CASE ReaderEnded \/ LinkDown \/ \E c \in Clients : ForgetDevice(c)
  <2>1. /\ UNCHANGED <<counted, busy, crossed>> /\ (link' => link)
        /\ reader' = reader \/ (reader = "ending" /\ reader' = "free")
           \/ (reader = "free" /\ reader' = "register")
    BY <1>5 DEF ReaderEnded, LinkDown, ForgetDevice, statusVars
  <2> QED BY <1>1, <2>1, QuietKeepsStatus DEF Settled
<1> QED BY <1>2, <1>3, <1>4, <1>5 DEF Reader

LEMMA DisconnectKeepsStatus ==
    ASSUME StatusInv, DisconnectAll \/ Disconnecting
    PROVE  BusyFollows'
<1>1. AgentInv
  BY DEF StatusInv
<1>2. UNCHANGED <<table, handler, reader, link, counted, busy, crossed>>
  BY DEF DisconnectAll, Disconnecting, DisconnectOne, DisconnectNext, DisconnectReturns, requestVars,
         linkVars, statusVars
<1>3. \A t \in Sids : life'[t] = life[t] \/ (life[t] = "open" /\ life'[t] = "forget")
  <2>1. UNCHANGED life \/ \E s \in Sids : Close(s)
    BY DEF DisconnectAll, Disconnecting, DisconnectOne, DisconnectNext, DisconnectReturns,
       sessionVars, closeVars
  <2> QED BY <1>1, <2>1, CloseCases
<1> QED BY <1>2, <1>3, QuietKeepsStatus DEF Settled

LEMMA StatusStep == StatusInv /\ [Next]_vars => StatusInv'
<1> SUFFICES ASSUME StatusInv, [Next]_vars PROVE BusyFollows'
  BY AgentStep DEF StatusInv
<1>1. CASE UNCHANGED vars
  <2>1. UNCHANGED <<table, handler, life, reader, link, counted, busy, crossed>>
    BY <1>1 DEF vars, requestVars, sessionVars, closeVars, linkVars, statusVars
  <2> QED BY <2>1, QuietKeepsStatus DEF Settled
<1>2. CASE Next
  <2>1. CASE \E s \in Sids : Handle(s) \/ Finish(s) \/ Goroutines(s) \/ Incoming(s)
    BY <2>1, HandleKeepsStatus, FinishKeepsStatus, GoroutinesKeepStatus DEF Incoming
  <2>2. CASE Reader \/ LinkDown \/ \E c \in Clients : ForgetDevice(c)
    BY <2>2, ReaderKeepsStatus
  <2>3. CASE DisconnectAll \/ Disconnecting
    BY <2>3, DisconnectKeepsStatus
  <2> QED BY <1>2, <2>1, <2>2, <2>3 DEF Next, Steps
<1> QED BY <1>1, <1>2

\* At rest the service has been told whether the PC is in use (agent.go:284-292), for any
\* devices and sessions, however often the connection was lost, unless one status was
\* counted while another was on its way.
THEOREM BusyIsTold == Spec => []BusyAtRest
<1>1. Init => StatusInv
  <2> SUFFICES ASSUME Init PROVE BusyFollows
    BY AgentInit DEF StatusInv
  <2> QED BY DEF Init, BusyFollows, Settled, Counting
<1>2. StatusInv => BusyAtRest
  <2> SUFFICES ASSUME StatusInv, AtRest, ~crossed PROVE busy <=> table # {}
    BY DEF BusyAtRest
  <2>1. Settled /\ Counting = {} /\ link
    BY DEF AtRest, Settled, Counting, Outcomes
  <2>2. busy = (table # {}) /\ busy \in BOOLEAN
    BY <2>1 DEF StatusInv, AgentInv, TypeOK, BusyFollows
  <2> QED BY <2>2
<1> QED BY <1>1, <1>2, StatusStep, PTL DEF Spec

-----------------------------------------------------------------------------
(* What the other results rest on: how a session gets on, and what puts it *)
(* on the list.                                                            *)

\* Each session gets on one step at a time and never goes back.
LEMMA LivesMove ==
    ASSUME AgentInv, [Next]_vars, NEW t \in Sids
    PROVE  \/ life'[t] = life[t]
           \/ life[t] = "none" /\ life'[t] = "open" /\ Build(t)
           \/ life[t] = "open" /\ life'[t] = "forget"
           \/ life[t] = "forget" /\ life'[t] = "count" /\ t \notin table'
           \/ life[t] = "count" /\ life'[t] = "tell"
           \/ life[t] = "tell" /\ life'[t] = "closed"
<1>1. TypeOK /\ MadeOnce
  BY DEF AgentInv
<1>2. CASE UNCHANGED life
  BY <1>2
<1>3. ASSUME NEW s \in Sids, Close(s) PROVE life'[t] = life[t] \/ (life[t] = "open" /\ life'[t] = "forget")
  BY <1>3, CloseCases
<1>4. ASSUME NEW s \in Sids, Handle(s), ~UNCHANGED life
      PROVE  Build(s) \/ (earlier[s] \in table /\ Close(earlier[s])) \/ Close(s)
  BY <1>4 DEF Handle, RefuseUnpaired, Admit, FindOwn, RefuseSecond, Replace, Replaced, BuildFails,
     Offer, OfferFails, Aborted, Store, CountStart, TellStart, sessionVars, closeVars
<1>5. ASSUME NEW s \in Sids, Build(s)
      PROVE  life'[t] = life[t] \/ (life[t] = "none" /\ life'[t] = "open" /\ Build(t))
  BY <1>1, <1>5 DEF Build, Goes, MadeOnce, Before, TypeOK
<1>6. ASSUME NEW s \in Sids, Finish(s)
      PROVE  \/ life'[t] = life[t]
             \/ life[t] = "forget" /\ life'[t] = "count" /\ t \notin table'
             \/ life[t] = "count" /\ life'[t] = "tell"
             \/ life[t] = "tell" /\ life'[t] = "closed"
  BY <1>1, <1>6 DEF Finish, ForgetSession, CountEnd, TellEnd, Leaves, TypeOK
<1>7. ASSUME NEW s \in Sids, Goroutines(s) \/ Incoming(s), ~UNCHANGED life PROVE Close(s)
  BY <1>7 DEF Goroutines, OpenSource, SourceOpens, SourceFails, NoCapture, CaptureStops, PeerConnects,
     PeerInterrupted, PeerFails, WatchFires, CloseAndReturn, Incoming, Request, Answer, PeerEnds, Only,
     sessionVars, closeVars
<1>8. CASE Reader \/ LinkDown \/ \E c \in Clients : ForgetDevice(c)
  BY <1>8 DEF Reader, ReaderEnded, RegisterCount, RegisterSend, Reconnect, LinkDown, ForgetDevice,
         sessionVars, closeVars
<1>9. ASSUME DisconnectAll \/ Disconnecting, ~UNCHANGED life PROVE \E s \in Sids : Close(s)
  BY <1>9 DEF DisconnectAll, Disconnecting, DisconnectOne, DisconnectNext, DisconnectReturns,
     sessionVars, closeVars
<1>10. CASE UNCHANGED vars
  BY <1>10 DEF vars, sessionVars, closeVars
<1>11. table \subseteq Sids
  BY <1>1 DEF TypeOK
<1> QED BY <1>2, <1>3, <1>4, <1>5, <1>6, <1>7, <1>8, <1>9, <1>10, <1>11 DEF Next, Steps

\* A session is listed by its own handler.
LEMMA ListMoves ==
    ASSUME AgentInv, [Next]_vars, NEW t \in table', t \notin table
    PROVE  t \in Sids /\ Store(t) /\ life'[t] = life[t]
<1>1. TypeOK
  BY DEF AgentInv
<1>2. Next /\ ~UNCHANGED table
  BY DEF vars
<1>3. \E s \in Sids : Handle(s)
  <2>1. CASE \E s \in Sids : Goroutines(s) \/ Incoming(s)
    BY <1>2, <2>1 DEF Goroutines, OpenSource, SourceOpens, SourceFails, NoCapture, CaptureStops, PeerConnects,
       PeerInterrupted, PeerFails, WatchFires, CloseAndReturn, Incoming, Request, Answer, PeerEnds, Only
  <2>2. CASE \E s \in Sids : Finish(s)
    BY <2>2 DEF Finish, ForgetSession, CountEnd, TellEnd
  <2>3. CASE Reader \/ LinkDown \/ \E c \in Clients : ForgetDevice(c)
    BY <1>2, <2>3 DEF Reader, ReaderEnded, RegisterCount, RegisterSend, Reconnect, LinkDown, ForgetDevice
  <2>4. CASE DisconnectAll \/ Disconnecting
    BY <1>2, <2>4 DEF DisconnectAll, Disconnecting, DisconnectOne, DisconnectNext, DisconnectReturns
  <2> QED BY <1>2, <2>1, <2>2, <2>3, <2>4 DEF Next, Steps
<1>4. PICK s \in Sids : Handle(s)
  BY <1>3
<1>5. Store(s)
  BY <1>2, <1>4 DEF Handle, RefuseUnpaired, Admit, FindOwn, RefuseSecond, Replace, Replaced, BuildFails,
     Build, Offer, OfferFails, Aborted, CountStart, TellStart
<1>6. t = s /\ UNCHANGED life
  BY <1>5 DEF Store, sessionVars, closeVars
<1> QED BY <1>5, <1>6

-----------------------------------------------------------------------------
(* Who waits for a Close (closeOnce) waits for one that is under way: the  *)
(* safety half of RequestsAreAnswered and DisconnectIsOver.  The steps of  *)
(* a Close wait for nothing, so nobody waits in a circle.                  *)

Closing(s) == s \in Sids /\ life[s] \in {"forget", "count", "tell", "closed"}

WaitedIsClosing ==
    /\ \A s \in Sids : handler[s] = "replacing" => Closing(earlier[s])
    /\ \A s \in Sids : handler[s] = "aborting" => Closing(s)
    /\ ending # NoSid => Closing(ending)
    /\ current # NoSid => Closing(current)

\* The handler has made its session.
Made == {"offer", "abort", "aborting", "store", "count", "tell", "served"}

WaitInv ==
    /\ \A s \in Sids : handler[s] \in Made => life[s] # "none"
    /\ \A s \in table \cup doomed : life[s] # "none"
    /\ WaitedIsClosing

\* A session that is made is never unmade, and a Close goes on.
LEMMA ClosingGoesOn ==
    ASSUME AgentInv, [Next]_vars, NEW s \in Sids
    PROVE  /\ life[s] # "none" => life'[s] # "none"
           /\ Closing(s) => Closing(s)'
  BY LivesMove DEF Closing

\* A Close of a session that is made is under way when it is called.
LEMMA CloseBegins ==
    ASSUME AgentInv, NEW s \in Sids, life[s] # "none", Close(s)
    PROVE  Closing(s)'
<1>1. life \in [Sids -> Lives]
  BY DEF AgentInv, TypeOK
<1>2. life'[s] \in {"forget", "count", "tell", "closed"}
  BY <1>1 DEF Close, closeVars, Lives
<1> QED BY <1>2 DEF Closing

\* How a handler comes to wait.
LEMMA HandlerWaits ==
    ASSUME AgentInv, NEW s \in Sids, Handle(s)
    PROVE  /\ handler'[s] \in Made => handler[s] \in Made \/ Build(s)
           /\ handler'[s] = "replacing" => /\ earlier'[s] = earlier[s]
                                           /\ earlier[s] \in table /\ Close(earlier[s])
           /\ handler'[s] = "aborting" => handler[s] = "offer" /\ Close(s)
           /\ \A t \in Sids \ {s} : handler'[t] = handler[t] /\ earlier'[t] = earlier[t]
           /\ UNCHANGED <<ending, current, doomed>>
<1>1. TypeOK
  BY DEF AgentInv
<1>2. /\ handler'[s] \in Made => handler[s] \in Made \/ Build(s)
      /\ handler'[s] = "replacing" => /\ earlier'[s] = earlier[s]
                                      /\ earlier[s] \in table /\ Close(earlier[s])
      /\ handler'[s] = "aborting" => handler[s] = "offer" /\ Close(s)
  BY <1>1 DEF Handle, RefuseUnpaired, Admit, FindOwn, RefuseSecond, Replace, Replaced, BuildFails,
     Build, Offer, OfferFails, Aborted, Store, CountStart, TellStart, Goes, Made, TypeOK
<1>3. \A t \in Sids \ {s} : earlier'[t] = earlier[t]
  BY <1>1 DEF Handle, RefuseUnpaired, Admit, FindOwn, RefuseSecond, Replace, Replaced, BuildFails,
     Build, Offer, OfferFails, Aborted, Store, CountStart, TellStart, TypeOK
<1> QED BY <1>2, <1>3, HandlerMoves

\* Every other step leaves the handlers that are under way alone.
LEMMA OthersWait ==
    ASSUME AgentInv, [Next]_vars, ~(\E s \in Sids : Handle(s))
    PROVE  /\ earlier' = earlier
           /\ \A s \in Sids : handler'[s] = handler[s] \/ handler'[s] = "check"
           /\ ending' # NoSid => ending' = ending \/ (ending' \in table /\ Close(ending'))
           /\ current' # NoSid => current' = current \/ (current' \in doomed /\ Close(current'))
           /\ doomed' \subseteq doomed \cup table
<1>1. TypeOK
  BY DEF AgentInv
<1>2. CASE \E s \in Sids : Finish(s)
  BY <1>2 DEF Finish, ForgetSession, CountEnd, TellEnd, requestVars, linkVars, userVars
<1>3. CASE \E s \in Sids : Goroutines(s)
  BY <1>3 DEF Goroutines, OpenSource, SourceOpens, SourceFails, NoCapture, CaptureStops, PeerConnects,
     PeerInterrupted, PeerFails, WatchFires, CloseAndReturn, Only, requestVars, linkVars, userVars
<1>4. CASE \E s \in Sids : Incoming(s)
  <2>1. PICK s \in Sids : Incoming(s)
    BY <1>4
  <2>2. CASE Request(s)
    BY <1>1, <2>2 DEF Request, Goes, linkVars, userVars, TypeOK
  <2>3. CASE Answer(s) \/ PeerEnds(s)
    BY <2>3 DEF Answer, PeerEnds, Only, requestVars, linkVars, userVars
  <2> QED BY <2>1, <2>2, <2>3 DEF Incoming
<1>5. CASE Reader \/ LinkDown \/ \E c \in Clients : ForgetDevice(c)
  BY <1>5 DEF Reader, ReaderEnded, RegisterCount, RegisterSend, Reconnect, LinkDown, ForgetDevice,
     requestVars, userVars
<1>6. CASE DisconnectAll \/ Disconnecting
  BY <1>6 DEF DisconnectAll, Disconnecting, DisconnectOne, DisconnectNext, DisconnectReturns,
     requestVars, linkVars
<1>7. CASE UNCHANGED vars
  BY <1>7 DEF vars, requestVars, linkVars, userVars
<1> QED BY <1>2, <1>3, <1>4, <1>5, <1>6, <1>7 DEF Next, Steps

LEMMA WaitStep == AgentInv /\ WaitInv /\ [Next]_vars => WaitInv'
<1> SUFFICES ASSUME AgentInv, WaitInv, [Next]_vars PROVE WaitInv'
  OBVIOUS
<1>1. /\ table \subseteq Sids /\ doomed \subseteq Sids /\ earlier \in [Sids -> Sids \cup {NoSid}]
      /\ ending \in Sids \cup {NoSid} /\ current \in Sids \cup {NoSid}
  BY DEF AgentInv, TypeOK
<1>2. \A s : Closing(s) => Closing(s)'
  BY ClosingGoesOn DEF Closing
<1>3. CASE \E s \in Sids : Handle(s)
  <2>1. PICK s \in Sids : Handle(s)
    BY <1>3
  <2>2. \A t \in Sids : handler'[t] \in Made => life'[t] # "none"
    <3> SUFFICES ASSUME NEW t \in Sids, handler'[t] \in Made PROVE life'[t] # "none"
      OBVIOUS
    <3>1. CASE Build(t)
      BY <3>1 DEF Build, AgentInv, TypeOK
    <3>2. CASE handler[t] \in Made
      BY <3>2, ClosingGoesOn DEF WaitInv
    <3> QED BY <2>1, <3>1, <3>2, HandlerWaits
  <2>3. \A t \in table' \cup doomed' : life'[t] # "none"
    <3> SUFFICES ASSUME NEW t \in table' \cup doomed' PROVE life'[t] # "none"
      OBVIOUS
    <3>1. CASE t \in table \cup doomed
      BY <1>1, <3>1, ClosingGoesOn DEF WaitInv
    <3>2. CASE t \notin table \cup doomed
      <4>1. t \in Sids /\ Store(t) /\ life'[t] = life[t]
        BY <2>1, <3>2, HandlerWaits, ListMoves
      <4>2. handler[t] \in Made
        BY <4>1 DEF Store, Goes, Made
      <4> QED BY <4>1, <4>2 DEF WaitInv
    <3> QED BY <3>1, <3>2
  <2>4. \A t \in Sids : handler'[t] = "replacing" => Closing(earlier[t])'
    <3>1. ASSUME handler'[s] = "replacing" PROVE Closing(earlier[s])'
      <4>1. earlier'[s] = earlier[s] /\ earlier[s] \in table /\ Close(earlier[s])
        BY <2>1, <3>1, HandlerWaits
      <4>2. earlier[s] \in Sids /\ life[earlier[s]] # "none"
        BY <1>1, <4>1 DEF WaitInv
      <4>3. life'[earlier[s]] \in {"forget", "count", "tell", "closed"}
        BY <4>1, <4>2, CloseBegins DEF Closing
      <4> QED BY <4>1, <4>2, <4>3 DEF Closing
    <3>2. \A t \in Sids \ {s} : handler'[t] = "replacing" => Closing(earlier[t])'
      <4>1. \A t \in Sids \ {s} : handler'[t] = handler[t] /\ earlier'[t] = earlier[t]
        BY <2>1, HandlerWaits
      <4>2. \A t \in Sids : handler[t] = "replacing" => Closing(earlier[t])
        BY DEF WaitInv, WaitedIsClosing
      <4> QED BY <1>2, <4>1, <4>2 DEF Closing
    <3> QED BY <3>1, <3>2
  <2>5. \A t \in Sids : handler'[t] = "aborting" => Closing(t)'
    <3>1. ASSUME handler'[s] = "aborting" PROVE Closing(s)'
      <4>1. life[s] # "none" /\ Close(s)
        BY <2>1, <3>1, HandlerWaits DEF WaitInv, Made
      <4> QED BY <4>1, CloseBegins
    <3>2. \A t \in Sids \ {s} : handler'[t] = "aborting" => Closing(t)'
      BY <1>2, <2>1, HandlerWaits DEF WaitInv, WaitedIsClosing
    <3> QED BY <3>1, <3>2
  <2>6. (ending' # NoSid => Closing(ending)') /\ (current' # NoSid => Closing(current)')
    <3>1. UNCHANGED <<ending, current>>
      BY <2>1, HandlerWaits
    <3> QED BY <1>2, <3>1 DEF WaitInv, WaitedIsClosing, Closing
  <2> QED BY <2>2, <2>3, <2>4, <2>5, <2>6 DEF WaitInv, WaitedIsClosing
<1>4. CASE ~(\E s \in Sids : Handle(s))
  <2>1. /\ earlier' = earlier
        /\ \A s \in Sids : handler'[s] = handler[s] \/ handler'[s] = "check"
        /\ ending' # NoSid => ending' = ending \/ (ending' \in table /\ Close(ending'))
        /\ current' # NoSid => current' = current \/ (current' \in doomed /\ Close(current'))
        /\ doomed' \subseteq doomed \cup table
    BY <1>4, OthersWait
  <2>2. table' \subseteq table
    BY <1>4, ListMoves DEF Handle
  <2>3. \A t \in Sids : handler'[t] \in Made => life'[t] # "none"
    BY <2>1, ClosingGoesOn DEF WaitInv, Made
  <2>4. \A t \in table' \cup doomed' : life'[t] # "none"
    BY <1>1, <2>1, <2>2, ClosingGoesOn DEF WaitInv
  <2>5. /\ \A t \in Sids : handler'[t] = "replacing" => Closing(earlier[t])'
        /\ \A t \in Sids : handler'[t] = "aborting" => Closing(t)'
    BY <1>2, <2>1 DEF WaitInv, WaitedIsClosing, Closing
  <2>6. \A t \in table \cup doomed : Close(t) => Closing(t)'
    BY <1>1, CloseBegins DEF WaitInv
  <2>7. ending' # NoSid => Closing(ending)'
    <3>1. CASE ending' = ending
      BY <1>2, <3>1 DEF WaitInv, WaitedIsClosing, Closing
    <3>2. CASE ending' \in table /\ Close(ending')
      BY <2>6, <3>2 DEF Closing
    <3> QED BY <2>1, <3>1, <3>2
  <2>8. current' # NoSid => Closing(current)'
    <3>1. CASE current' = current
      BY <1>2, <3>1 DEF WaitInv, WaitedIsClosing, Closing
    <3>2. CASE current' \in doomed /\ Close(current')
      BY <2>6, <3>2 DEF Closing
    <3> QED BY <2>1, <3>1, <3>2
  <2> QED BY <2>3, <2>4, <2>5, <2>7, <2>8 DEF WaitInv, WaitedIsClosing
<1> QED BY <1>3, <1>4

\* A handler, the reader or DisconnectAll that waits for closeOnce waits for a Close that is
\* under way (session.go:1389-1441, agent.go:472-540, 624-641), for any devices, sessions and
\* order of the goroutines: nobody waits for a session that nobody closes.
THEOREM NobodyWaitsInVain == Spec => []WaitedIsClosing
<1>1. Init => WaitInv
  BY DEF Init, WaitInv, WaitedIsClosing, Made
<1>2. WaitInv => WaitedIsClosing
  BY DEF WaitInv
<1> QED BY <1>1, <1>2, WaitStep, AgentInvariant, PTL DEF Spec

-----------------------------------------------------------------------------
(* What RefusedOnlyIfInUse lacks.  It fails when a session is over before  *)
(* its handler lists it; that is all it takes.                             *)

\* No session gets past forgetSession before it is listed.
StoredInTime == [][\A s \in Sids : Store(s) => life[s] \in {"open", "forget"}]_vars

ListedAreAlive == \A s \in table : life[s] \in {"open", "forget"}

LEMMA AliveStep ==
    /\ AgentInv /\ ListedAreAlive /\ [Next]_vars
    /\ [\A s \in Sids : Store(s) => life[s] \in {"open", "forget"}]_vars
    => ListedAreAlive'
<1> SUFFICES ASSUME AgentInv, ListedAreAlive, [Next]_vars,
                    [\A s \in Sids : Store(s) => life[s] \in {"open", "forget"}]_vars,
                    NEW t \in table'
             PROVE  life'[t] \in {"open", "forget"}
  BY DEF ListedAreAlive
<1>1. CASE t \in table
  <2>1. t \in Sids /\ life[t] \in {"open", "forget"}
    BY <1>1 DEF ListedAreAlive, AgentInv, TypeOK
  <2> QED BY <2>1, LivesMove
<1>2. CASE t \notin table
  <2>1. t \in Sids /\ Store(t) /\ life'[t] = life[t]
    BY <1>2, ListMoves
  <2>2. ~UNCHANGED vars
    BY <1>2 DEF vars
  <2> QED BY <2>1, <2>2
<1> QED BY <1>1, <1>2

\* If no session is over before it is listed (agent.go:505-509, 531-533), every session in
\* a.sessions can still leave it, and no closed one stays there for good.
THEOREM ListedStayAlive == Spec /\ StoredInTime => []ListedAreAlive
<1>1. Init => ListedAreAlive
  BY DEF Init, ListedAreAlive
<1> QED BY <1>1, AliveStep, AgentInvariant, PTL DEF Spec, StoredInTime

\* If no session is over before it is listed, a device is told that the PC is in use only
\* while it is (agent.go:471-486): RefusedOnlyIfInUse, with the condition it needs.
THEOREM RefusalsAreTrue == Spec /\ StoredInTime => RefusedOnlyIfInUse
<1>1. ASSUME AgentInv, ListedAreAlive, [Next]_vars
      PROVE  [\A s \in Sids : handler'[s] = "refused" /\ handler[s] # "refused" =>
                \E e \in table : Asker(e) # Asker(s) /\ ~Closed(e)]_vars
  <2> SUFFICES ASSUME NEW s \in Sids, handler'[s] = "refused", handler[s] # "refused"
               PROVE  \E e \in table : Asker(e) # Asker(s) /\ ~Closed(e)
    OBVIOUS
  <2>1. TypeOK
    BY <1>1 DEF AgentInv
  <2>2. \E r \in Sids : Handle(r)
    BY <1>1, OthersWait
  <2>3. Handle(s)
    BY <1>1, <2>2, HandlerMoves
  <2>4. PICK e \in Sids : RefuseSecond(s, e)
    BY <2>1, <2>3 DEF Handle, RefuseUnpaired, Admit, FindOwn, Replace, Replaced, BuildFails, Build,
       Offer, OfferFails, Aborted, Store, CountStart, TellStart, Goes, TypeOK
  <2>5. e \in table /\ Asker(e) # Asker(s)
    BY <2>4 DEF RefuseSecond
  <2>6. ~Closed(e)
    BY <1>1, <2>5 DEF ListedAreAlive, Closed
  <2> QED BY <2>5, <2>6
<1> QED BY <1>1, AgentInvariant, ListedStayAlive, PTL DEF Spec, RefusedOnlyIfInUse

\* Under the same condition one device at a time means just that, unless requests are
\* handled at once (agent.go:471-486, 531-533).
THEOREM OneDeviceStrictly ==
    Spec /\ StoredInTime =>
        [](AllowMultiClient \/ overlapped \/ \A s, t \in Open \cap table : s = t)
<1>1. OneDevice /\ ListedAreAlive => AllowMultiClient \/ overlapped \/ \A s, t \in Open \cap table : s = t
  BY DEF OneDevice, ListedAreAlive, Zombies, Closed
<1> QED BY <1>1, OneDeviceAtATime, ListedStayAlive, PTL

-----------------------------------------------------------------------------
(* What DisconnectEndsAll lacks.  It fails when a session is not listed    *)
(* yet, or its capture is still being opened, as DisconnectAll begins;     *)
(* that is all it takes.                                                   *)

CalmDisconnect ==
    [][DisconnectAll => \A s \in Sids : life[s] = "open" => s \in table /\ source[s] # "opening"]_vars

\* A capture runs only in an open session, and is lost only by one that is not.
CapturesFollow ==
    \A s \in Sids : /\ source[s] = "running" => life[s] = "open"
                    /\ source[s] = "leaked" => life[s] \notin {"none", "open"}
                    /\ life[s] = "none" => source[s] = "none"

PresentAreListed ==
    user # "idle" => /\ present \subseteq stored
                     /\ \A s \in present : life[s] # "none" /\ source[s] \notin {"opening", "leaked"}

\* What a capture goes through.
LEMMA CaptureMoves ==
    ASSUME AgentInv, CapturesFollow, [Next]_vars, NEW t \in Sids
    PROVE  \/ source'[t] = source[t] /\ (life'[t] # life[t] => source[t] # "running")
           \/ Build(t) /\ source'[t] = "opening" /\ life'[t] = "open"
           \/ source[t] = "opening" /\ source'[t] = "running" /\ life[t] = "open" /\ life'[t] = "open"
           \/ source[t] = "opening" /\ source'[t] = "leaked" /\ life[t] # "open" /\ life'[t] = life[t]
           \/ source[t] = "opening" /\ source'[t] = "failed"
           \/ source[t] = "running" /\ source'[t] = "closed"
<1>1. TypeOK /\ table \subseteq Sids
  BY DEF AgentInv, TypeOK
<1>2. CASE UNCHANGED <<life, source>>
  BY <1>2
<1>3. ASSUME NEW s \in Sids, Close(s)
      PROVE  \/ source'[t] = source[t] /\ (life'[t] # life[t] => source[t] # "running")
             \/ source[t] = "running" /\ source'[t] = "closed"
  BY <1>1, <1>3 DEF Close, closeVars, TypeOK
<1>4. ASSUME NEW s \in Sids, Handle(s), ~UNCHANGED <<life, source>>
      PROVE  Build(s) \/ (earlier[s] \in table /\ Close(earlier[s])) \/ Close(s)
  BY <1>4 DEF Handle, RefuseUnpaired, Admit, FindOwn, RefuseSecond, Replace, Replaced, BuildFails,
     Offer, OfferFails, Aborted, Store, CountStart, TellStart, sessionVars, closeVars
<1>5. ASSUME NEW s \in Sids, Build(s)
      PROVE  \/ source'[t] = source[t] /\ life'[t] = life[t]
             \/ Build(t) /\ source'[t] = "opening" /\ life'[t] = "open"
  BY <1>1, <1>5 DEF Build, TypeOK
<1>6. ASSUME NEW s \in Sids, Finish(s)
      PROVE  source'[t] = source[t] /\ (life'[t] = life[t] \/ life[t] \in {"forget", "count", "tell"})
  BY <1>1, <1>6 DEF Finish, ForgetSession, CountEnd, TellEnd, Leaves, TypeOK
<1>7. ASSUME NEW s \in Sids, SourceOpens(s) \/ SourceFails(s)
      PROVE  \/ source'[t] = source[t] /\ life'[t] = life[t]
             \/ source[t] = "opening" /\ source'[t] = "running" /\ life[t] = "open" /\ life'[t] = "open"
             \/ source[t] = "opening" /\ source'[t] = "leaked" /\ life[t] # "open" /\ life'[t] = life[t]
             \/ source[t] = "opening" /\ source'[t] = "failed"
  BY <1>1, <1>7 DEF SourceOpens, SourceFails, Only, TypeOK
<1>8. ASSUME NEW s \in Sids, Goroutines(s) \/ Incoming(s), ~UNCHANGED <<life, source>>
      PROVE  SourceOpens(s) \/ SourceFails(s) \/ Close(s)
  BY <1>8 DEF Goroutines, OpenSource, NoCapture, CaptureStops, PeerConnects,
     PeerInterrupted, PeerFails, WatchFires, CloseAndReturn, Incoming, Request, Answer, PeerEnds, Only,
     sessionVars, closeVars
<1>9. CASE Reader \/ LinkDown \/ \E c \in Clients : ForgetDevice(c)
  BY <1>9 DEF Reader, ReaderEnded, RegisterCount, RegisterSend, Reconnect, LinkDown, ForgetDevice,
         sessionVars, closeVars
<1>10. ASSUME DisconnectAll \/ Disconnecting, ~UNCHANGED <<life, source>> PROVE \E s \in Sids : Close(s)
  BY <1>10 DEF DisconnectAll, Disconnecting, DisconnectOne, DisconnectNext, DisconnectReturns,
     sessionVars, closeVars
<1>11. CASE UNCHANGED vars
  BY <1>11 DEF vars, sessionVars, closeVars
<1>12. CASE \E s \in Sids : Handle(s)
  BY <1>1, <1>2, <1>3, <1>4, <1>5, <1>12
<1>13. CASE \E s \in Sids : Goroutines(s) \/ Incoming(s)
  BY <1>2, <1>3, <1>7, <1>8, <1>13
<1>14. CASE \E s \in Sids : Finish(s)
  <2>1. life[t] \in {"forget", "count", "tell"} => source[t] # "running"
    BY DEF CapturesFollow
  <2> QED BY <1>6, <1>14, <2>1
<1> QED BY <1>2, <1>3, <1>9, <1>10, <1>11, <1>12, <1>13, <1>14 DEF Next, Steps

LEMMA CapturesStep == AgentInv /\ CapturesFollow /\ [Next]_vars => CapturesFollow'
<1> SUFFICES ASSUME AgentInv, CapturesFollow, [Next]_vars, NEW t \in Sids
             PROVE  /\ source'[t] = "running" => life'[t] = "open"
                    /\ source'[t] = "leaked" => life'[t] \notin {"none", "open"}
                    /\ life'[t] = "none" => source'[t] = "none"
  BY DEF CapturesFollow
<1>1. /\ source[t] = "running" => life[t] = "open"
      /\ source[t] = "leaked" => life[t] \notin {"none", "open"}
      /\ life[t] = "none" => source[t] = "none"
  BY DEF CapturesFollow
<1>2. CASE source'[t] = source[t] /\ (life'[t] # life[t] => source[t] # "running")
  BY <1>1, <1>2, LivesMove
<1>3. CASE life'[t] = life[t] \/ source'[t] # source[t]
  BY <1>1, <1>3, LivesMove, CaptureMoves
<1> QED BY <1>1, <1>2, <1>3, CaptureMoves

\* A calm DisconnectAll finds every open session on the list.
LEMMA PresentStep ==
    /\ AgentInv /\ CapturesFollow /\ PresentAreListed /\ [Next]_vars
    /\ [DisconnectAll => \A s \in Sids : life[s] = "open" => s \in table /\ source[s] # "opening"]_vars
    => PresentAreListed'
<1> SUFFICES ASSUME AgentInv, CapturesFollow, PresentAreListed, [Next]_vars,
                    [DisconnectAll => \A s \in Sids : life[s] = "open" => s \in table /\ source[s] # "opening"]_vars
             PROVE  PresentAreListed'
  OBVIOUS
<1>1. present \subseteq Sids
  BY DEF AgentInv, TypeOK
<1>2. CASE DisconnectAll
  <2>1. /\ user' # user /\ stored' = table /\ present' = {s \in Sids : life[s] = "open"}
        /\ UNCHANGED <<life, source>>
    BY <1>2 DEF DisconnectAll, sessionVars, closeVars
  <2>2. \A s \in Sids : life[s] = "open" => s \in table /\ source[s] # "opening"
    BY <1>2, <2>1 DEF vars, userVars
  <2>3. \A s \in Sids : life[s] = "open" => source[s] # "leaked"
    BY DEF CapturesFollow
  <2> QED BY <2>1, <2>2, <2>3 DEF PresentAreListed
<1>3. CASE ~DisconnectAll
  <2>1. UNCHANGED <<present, stored>> /\ (user' # "idle" => user # "idle")
    <3>1. CASE \E s \in Sids : Handle(s)
      BY <3>1, HandlerMoves
    <3>2. CASE \E s \in Sids : Finish(s)
      BY <3>2 DEF Finish, ForgetSession, CountEnd, TellEnd, userVars
    <3>3. CASE \E s \in Sids : Goroutines(s) \/ Incoming(s)
      BY <3>3 DEF Goroutines, OpenSource, SourceOpens, SourceFails, NoCapture, CaptureStops, PeerConnects,
         PeerInterrupted, PeerFails, WatchFires, CloseAndReturn, Incoming, Request, Answer, PeerEnds, Only,
         userVars
    <3>4. CASE Reader \/ LinkDown \/ \E c \in Clients : ForgetDevice(c)
      BY <3>4 DEF Reader, ReaderEnded, RegisterCount, RegisterSend, Reconnect, LinkDown, ForgetDevice, userVars
    <3>5. CASE Disconnecting
      BY <3>5 DEF AgentInv, ListFollows, Disconnecting, DisconnectOne, DisconnectNext, DisconnectReturns
    <3>6. CASE UNCHANGED vars
      BY <3>6 DEF vars, userVars
    <3> QED BY <1>3, <3>1, <3>2, <3>3, <3>4, <3>5, <3>6 DEF Next, Steps
  <2>2. ASSUME NEW s \in present, life[s] # "none", source[s] \notin {"opening", "leaked"}
        PROVE  life'[s] # "none" /\ source'[s] \notin {"opening", "leaked"}
    <3>1. s \in Sids /\ ~Build(s)
      BY <1>1, <2>2 DEF Build, Goes, AgentInv, MadeOnce, Before
    <3> QED BY <2>2, <3>1, LivesMove, CaptureMoves
  <2> QED BY <2>1, <2>2 DEF PresentAreListed
<1> QED BY <1>2, <1>3

\* If every open session is listed with its capture opened as DisconnectAll begins
\* (agent.go:624-641), it does end everything: DisconnectEndsAll, with the condition it needs.
THEOREM CalmDisconnectEndsAll == Spec /\ CalmDisconnect => []DisconnectEndsAll
<1>1. Init => CapturesFollow /\ PresentAreListed
  BY DEF Init, CapturesFollow, PresentAreListed
<1>2. AgentInv /\ CapturesFollow /\ PresentAreListed /\ ListedAreClosed => DisconnectEndsAll
  <2> SUFFICES ASSUME AgentInv, CapturesFollow, PresentAreListed, ListedAreClosed, user = "done",
                      NEW s \in present
               PROVE  life[s] # "open" /\ source[s] \notin {"running", "leaked"}
    BY DEF DisconnectEndsAll
  <2>1. s \in Sids /\ s \in stored /\ source[s] # "leaked"
    BY DEF AgentInv, TypeOK, PresentAreListed
  <2>2. life[s] = "closed"
    BY <2>1 DEF ListedAreClosed, Closed
  <2> QED BY <2>1, <2>2 DEF CapturesFollow
<1> QED BY <1>1, <1>2, CapturesStep, PresentStep, AgentInvariant, ListedGetClosed, PTL DEF Spec, CalmDisconnect

-----------------------------------------------------------------------------
(* What UnconnectedEnd rests on, and no timing decides: a session is never *)
(* left open with nothing that ends it.                                    *)

\* Its handler has still to send the offer, its connect timer is running, or its peer
\* connection has come up, and pion tells how that ends.
OpenAreWatched ==
    \A s \in Sids : life[s] = "open" =>
        handler[s] = "offer" \/ watch[s] = "armed" \/ peer[s] \in {"connected", "interrupted"}

LEMMA WatchedStep == AgentInv /\ OpenAreWatched /\ [Next]_vars => OpenAreWatched'
<1> SUFFICES ASSUME AgentInv, OpenAreWatched, [Next]_vars, NEW t \in Sids, life'[t] = "open"
             PROVE  \/ handler'[t] = "offer" \/ watch'[t] = "armed"
                    \/ peer'[t] \in {"connected", "interrupted"}
  BY DEF OpenAreWatched
<1>1. TypeOK
  BY DEF AgentInv
<1>2. CASE Build(t)
  BY <1>1, <1>2 DEF Build, Goes, TypeOK
<1>3. life[t] = "open" \/ Build(t)
  BY LivesMove
<1>4. life[t] = "open" => handler[t] = "offer" \/ watch[t] = "armed" \/ peer[t] \in {"connected", "interrupted"}
  BY DEF OpenAreWatched
<1>5. CASE UNCHANGED <<handler[t], watch[t], peer[t]>>
  BY <1>2, <1>3, <1>4, <1>5
<1>6. ASSUME NEW s \in Sids, Close(s) PROVE peer'[t] = peer[t]
  BY <1>1, <1>6 DEF Close, closeVars, TypeOK
<1>7. ASSUME NEW s \in Sids, Handle(s), ~Build(t)
      PROVE  \/ Offer(t)
             \/ UNCHANGED <<handler[t], watch[t], peer[t]>>
             \/ handler[t] # "offer" /\ UNCHANGED <<watch[t], peer[t]>>
  <2>1. table \subseteq Sids
    BY <1>1 DEF TypeOK
  <2>2. CASE Offer(s)
    BY <1>1, <2>2 DEF Offer, Goes, TypeOK
  <2>3. CASE Build(s)
    BY <1>1, <1>7, <2>3 DEF Build, Goes, TypeOK
  <2>4. CASE OfferFails(s)
    <3>1. Close(s) /\ UNCHANGED watch
      BY <2>4 DEF OfferFails
    <3>2. peer'[t] = peer[t]
      BY <1>6, <3>1
    <3>3. s # t
      BY <1>1, <3>1 DEF Close, closeVars, TypeOK
    <3> QED BY <1>1, <2>4, <3>1, <3>2, <3>3 DEF OfferFails, Goes, TypeOK
  <2>5. CASE ~Offer(s) /\ ~Build(s) /\ ~OfferFails(s)
    <3>1. UNCHANGED watch /\ (UNCHANGED peer \/ \E e \in table : Close(e))
      BY <1>7, <2>5 DEF Handle, RefuseUnpaired, Admit, FindOwn, RefuseSecond, Replace, Replaced,
         BuildFails, Aborted, Store, CountStart, TellStart, sessionVars, closeVars
    <3>2. UNCHANGED <<watch[t], peer[t]>>
      BY <1>6, <2>1, <3>1
    <3>3. handler[s] # "offer"
      BY <1>7, <2>5 DEF Handle, RefuseUnpaired, Admit, FindOwn, RefuseSecond, Replace, Replaced,
         BuildFails, Aborted, Store, CountStart, TellStart, Goes
    <3>4. s # t => handler'[t] = handler[t]
      BY <1>7, HandlerMoves
    <3> QED BY <3>2, <3>3, <3>4
  <2> QED BY <2>2, <2>3, <2>4, <2>5
<1>8. CASE Offer(t)
  BY <1>1, <1>8 DEF Offer, TypeOK
<1>9. CASE \E s \in Sids : Handle(s)
  BY <1>2, <1>3, <1>4, <1>5, <1>7, <1>8, <1>9
<1>10. CASE \E s \in Sids : Finish(s)
  BY <1>5, <1>10 DEF Finish, ForgetSession, CountEnd, TellEnd, requestVars
<1>11. ASSUME NEW s \in Sids, Goroutines(s), ~(\E e \in Sids : Handle(e))
       PROVE  \/ UNCHANGED <<handler[t], watch[t], peer[t]>>
              \/ UNCHANGED <<handler[t], watch[t]>> /\ peer'[t] \in {"connected", "interrupted"}
              \/ peer[t] = "connected" /\ peer'[t] = "connected"
  <2>1. UNCHANGED handler
    BY <1>11 DEF Goroutines, OpenSource, SourceOpens, SourceFails, NoCapture, CaptureStops, PeerConnects,
       PeerInterrupted, PeerFails, WatchFires, CloseAndReturn, Only, requestVars
  <2>2. CASE SourceOpens(s) \/ SourceFails(s)
    BY <2>1, <2>2 DEF SourceOpens, SourceFails, Only
  <2>3. CASE NoCapture(s) \/ CaptureStops(s) \/ PeerFails(s)
    BY <1>6, <2>1, <2>3 DEF NoCapture, CaptureStops, PeerFails, CloseAndReturn
  <2>4. CASE PeerConnects(s) \/ PeerInterrupted(s)
    BY <1>1, <2>1, <2>4 DEF PeerConnects, PeerInterrupted, Only, TypeOK
  <2>5. CASE WatchFires(s)
    <3>1. CASE s = t
      <4>1. peer[t] = "connected" /\ UNCHANGED peer
        BY <1>1, <2>5, <3>1 DEF WatchFires, Close, closeVars, TypeOK
      <4> QED BY <4>1
    <3>2. CASE s # t
      <4>1. watch'[t] = watch[t] /\ (UNCHANGED peer \/ Close(s))
        BY <1>1, <2>5, <3>2 DEF WatchFires, closeVars, TypeOK
      <4> QED BY <1>6, <2>1, <4>1
    <3> QED BY <3>1, <3>2
  <2> QED BY <1>11, <2>2, <2>3, <2>4, <2>5 DEF Goroutines, OpenSource
<1>12. ASSUME NEW s \in Sids, Incoming(s)
       PROVE  \/ UNCHANGED <<watch[t], peer[t]>> /\ (handler'[t] = handler[t] \/ handler[t] = "idle")
              \/ UNCHANGED <<watch[t], handler[t]>> /\ peer[t] = "new"
  <2>1. CASE Request(s)
    BY <1>1, <2>1 DEF Request, Goes, sessionVars, closeVars, TypeOK
  <2>2. CASE Answer(s)
    BY <1>1, <2>2 DEF Answer, Only, requestVars, TypeOK
  <2>3. CASE PeerEnds(s)
    BY <1>6, <2>3 DEF PeerEnds, requestVars
  <2> QED BY <1>12, <2>1, <2>2, <2>3 DEF Incoming
<1>13. CASE Reader \/ LinkDown \/ \E c \in Clients : ForgetDevice(c)
  BY <1>5, <1>13 DEF Reader, ReaderEnded, RegisterCount, RegisterSend, Reconnect, LinkDown, ForgetDevice,
         requestVars, sessionVars, closeVars
<1>14. CASE DisconnectAll \/ Disconnecting
  <2>1. UNCHANGED <<handler, watch>> /\ (UNCHANGED peer \/ \E s \in doomed : Close(s))
    BY <1>14 DEF DisconnectAll, Disconnecting, DisconnectOne, DisconnectNext, DisconnectReturns,
       requestVars, sessionVars, closeVars
  <2>2. doomed \subseteq Sids
    BY <1>1 DEF TypeOK
  <2> QED BY <1>5, <1>6, <2>1, <2>2
<1>15. CASE UNCHANGED vars
  BY <1>5, <1>15 DEF vars, requestVars, sessionVars, closeVars
<1>16. CASE \E s \in Sids : Goroutines(s)
  BY <1>2, <1>3, <1>4, <1>9, <1>11, <1>16
<1>17. CASE \E s \in Sids : Incoming(s)
  BY <1>2, <1>3, <1>4, <1>12, <1>17
<1> QED BY <1>9, <1>10, <1>13, <1>14, <1>15, <1>16, <1>17 DEF Next, Steps

\* An open session is always on its way to an end or up (session.go: watchConnect,
\* onStateChange): the safety half of UnconnectedEnd.
THEOREM OpenStayWatched == Spec => []OpenAreWatched
<1>1. Init => OpenAreWatched
  BY DEF Init, OpenAreWatched
<1> QED BY <1>1, WatchedStep, AgentInvariant, PTL DEF Spec
=============================================================================
