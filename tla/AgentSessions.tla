--------------------------- MODULE AgentSessions ---------------------------
(***************************************************************************)
(* How the agent (internal/agentcore/agent.go) starts, lists and ends      *)
(* sessions, and the life of one session (internal/session/session.go)     *)
(* from New to the end of Close.                                           *)
(*                                                                         *)
(* Many goroutines meet here.  The reader of the link to the service runs  *)
(* one handler after another and starts a goroutine for each connection    *)
(* request (handler[s] is where that goroutine is).  Every session opens   *)
(* its screen capture in a goroutine (source[s]), watches the time in      *)
(* another (watch[s]), and is told of its peer connection in callbacks     *)
(* (peer[s]).  A user may disconnect everything (user).  All of them may   *)
(* call Close, which runs once: the first caller does the work, the others *)
(* wait until it is done (life[s] is how far the work is).                 *)
(***************************************************************************)
CONSTANTS Clients,           \* devices
          Sids,              \* sessions the service introduces
          Scenarios,         \* bounds: whose requests come, what else may happen
          NoSid

ASSUME AgentAssumption ==
    /\ \A b \in Scenarios : b.sids \subseteq Sids /\ b.asker \in [Sids -> Clients]
    /\ NoSid \notin Sids

VARIABLES
    paired,    \* cfg.PairedClients
    table,     \* the keys of a.sessions
    handler,   \* handleConnectRequest, one goroutine per request
    earlier,   \* the session currentSession returned to it
    life,      \* each session: not made, open, the steps of Close, closed
    source,    \* its screen capture (openSource)
    peer,      \* its peer connection
    watch,     \* its connect timer (watchConnect)
    link,      \* the connection to the service works
    reader,    \* the goroutine that reads it
    ending,    \* the session the reader is closing
    user,      \* DisconnectAll
    doomed,    \* the sessions it has still to close
    current,   \* the one it is closing
    counted,   \* sessionCount() > 0, read and not yet sent
    busy,      \* the last Busy the service was sent
    stored, present, \* history: sessions listed, made when DisconnectAll began
    crossed,   \* history: a status was counted before another was sent
    overlapped, \* history: two requests were handled at the same time
    scenario   \* the bound this behaviour keeps to; it never changes

requestVars == <<handler, earlier, overlapped>>
closeVars == <<life, source, peer>>
sessionVars == <<closeVars, watch>>
linkVars == <<link, reader, ending>>
userVars == <<user, doomed, current, stored, present>>
statusVars == <<counted, busy, crossed>>
vars == <<paired, table, requestVars, sessionVars, linkVars, userVars, statusVars, scenario>>

-----------------------------------------------------------------------------
\* The device session s was introduced for (req.ClientID).
Asker(s) == scenario.asker[s]

\* cfg.AllowMultiClient
AllowMultiClient == "multi" \in scenario.may

Outcomes == {"served", "refused", "unpaired", "failed"}
Handling == {"check", "replace", "replacing", "build", "offer", "abort",
             "aborting", "store", "count", "tell"}
Lives == {"none", "open", "forget", "count", "tell", "closed"}
Sources == {"none", "opening", "running", "failed", "closed", "leaked"}
Peers == {"none", "new", "answered", "connected", "interrupted", "gone"}

\* Whoever sends a status: a handler, the end of a session, the reader.
Registering == <<NoSid, "register">>
Senders == (Sids \X {"start", "end"}) \cup {Registering}
Counting == {<<s, "start">> : s \in {t \in Sids : handler[t] = "tell"}}
            \cup {<<s, "end">> : s \in {t \in Sids : life[t] = "tell"}}
            \cup {u \in {Registering} : reader = "send"}

TypeOK ==
    /\ paired \subseteq Clients
    /\ table \subseteq Sids
    /\ handler \in [Sids -> {"idle"} \cup Handling \cup Outcomes]
    /\ earlier \in [Sids -> Sids \cup {NoSid}]
    /\ life \in [Sids -> Lives]
    /\ source \in [Sids -> Sources]
    /\ peer \in [Sids -> Peers]
    /\ watch \in [Sids -> {"off", "armed", "over"}]
    /\ link \in BOOLEAN
    /\ reader \in {"free", "ending", "register", "send"}
    /\ ending \in Sids \cup {NoSid} /\ (ending # NoSid <=> reader = "ending")
    /\ user \in {"idle", "ending", "done"}
    /\ current \in Sids \cup {NoSid} /\ (current # NoSid => user = "ending")
    /\ doomed \subseteq Sids /\ stored \subseteq Sids /\ present \subseteq Sids
    /\ counted \in [Senders -> BOOLEAN]
    /\ busy \in BOOLEAN /\ crossed \in BOOLEAN /\ overlapped \in BOOLEAN
    /\ scenario \in Scenarios

Init ==
    /\ paired = Clients
    /\ table = {}
    /\ handler = [s \in Sids |-> "idle"]
    /\ earlier = [s \in Sids |-> NoSid]
    /\ life = [s \in Sids |-> "none"]
    /\ source = [s \in Sids |-> "none"]
    /\ peer = [s \in Sids |-> "none"]
    /\ watch = [s \in Sids |-> "off"]
    /\ link = TRUE /\ reader = "register" /\ ending = NoSid
    /\ user = "idle" /\ doomed = {} /\ current = NoSid /\ stored = {} /\ present = {}
    /\ counted = [u \in Senders |-> FALSE]
    /\ busy = FALSE /\ crossed = FALSE /\ overlapped = FALSE
    /\ scenario \in Scenarios

-----------------------------------------------------------------------------
(* Close: closed flag, cancel, release the input, close what s.source      *)
(* holds, close the peer connection, and then OnClosed (forgetSession,     *)
(* updateStatus).  closeOnce lets one caller in.                           *)

Close(s) ==
    IF life[s] = "open"
    THEN /\ life' = [life EXCEPT ![s] = "forget"]
         /\ source' = [source EXCEPT ![s] = IF @ = "running" THEN "closed" ELSE @]
         /\ peer' = [peer EXCEPT ![s] = "gone"]
    ELSE UNCHANGED closeVars

\* closeOnce.Do returns to its callers when the first of them has finished.
Closed(s) == life[s] = "closed"

\* A caller that does nothing else afterwards: a callback or a pump.
CloseAndReturn(s) ==
    /\ life[s] = "open"
    /\ Close(s)
    /\ UNCHANGED <<paired, table, requestVars, watch, linkVars, userVars, statusVars>>

\* sessionCount, read under a.mu before the message is built and sent.
Count(u) ==
    /\ counted' = [counted EXCEPT ![u] = table # {}]
    /\ crossed' = (crossed \/ Counting # {})
    /\ UNCHANGED busy

\* a.rv.Send: lost when there is no connection.
Send(u) ==
    /\ busy' = IF link THEN counted[u] ELSE busy
    /\ counted' = [counted EXCEPT ![u] = FALSE]
    /\ UNCHANGED crossed

Leaves(s, from, to) == life[s] = from /\ life' = [life EXCEPT ![s] = to]

ForgetSession(s) ==
    /\ Leaves(s, "forget", "count")
    /\ table' = table \ {s}
    /\ UNCHANGED <<paired, requestVars, source, peer, watch, linkVars, userVars, statusVars>>

CountEnd(s) ==
    /\ Leaves(s, "count", "tell")
    /\ Count(<<s, "end">>)
    /\ UNCHANGED <<paired, table, requestVars, source, peer, watch, linkVars, userVars>>

\* Mutant: OnClosed does not send the status.
TellEnd_Silent(s) ==
    /\ Leaves(s, "tell", "closed")
    /\ counted' = [counted EXCEPT ![<<s, "end">>] = FALSE]
    /\ UNCHANGED <<busy, crossed>>
    /\ UNCHANGED <<paired, table, requestVars, source, peer, watch, linkVars, userVars>>

TellEnd(s) ==
    /\ Leaves(s, "tell", "closed")
    /\ Send(<<s, "end">>)
    /\ UNCHANGED <<paired, table, requestVars, source, peer, watch, linkVars, userVars>>

-----------------------------------------------------------------------------
(* handleConnectRequest and session.New.                                   *)

Goes(s, from, to) == handler[s] = from /\ handler' = [handler EXCEPT ![s] = to]
Unstored == {"check", "replace", "replacing", "build", "offer", "abort", "aborting", "store"}

\* go a.handleConnectRequest(req)
Request(s) ==
    /\ s \in scenario.sids
    /\ link /\ reader = "free"
    /\ Goes(s, "idle", "check")
    /\ overlapped' = (overlapped \/ \E t \in Sids : handler[t] \in Unstored)
    /\ UNCHANGED <<paired, table, earlier, sessionVars, linkVars, userVars, statusVars>>

RefuseUnpaired(s) ==
    /\ Asker(s) \notin paired
    /\ Goes(s, "check", "unpaired")
    /\ UNCHANGED <<paired, table, earlier, overlapped, sessionVars, linkVars, userVars, statusVars>>

\* Mutant: nobody looks for a session there is already.
Admit_Always(s) ==
    /\ Asker(s) \in paired
    /\ Goes(s, "check", "build")
    /\ UNCHANGED <<paired, table, earlier, overlapped, sessionVars, linkVars, userVars, statusVars>>

\* currentSession returns some entry of the map, if there is one.
Admit(s) ==
    /\ Asker(s) \in paired
    /\ AllowMultiClient \/ table = {}
    /\ Goes(s, "check", "build")
    /\ UNCHANGED <<paired, table, earlier, overlapped, sessionVars, linkVars, userVars, statusVars>>

FindOwn(s, e) ==
    /\ Asker(s) \in paired /\ ~AllowMultiClient
    /\ e \in table /\ Asker(e) = Asker(s)
    /\ Goes(s, "check", "replace")
    /\ earlier' = [earlier EXCEPT ![s] = e]
    /\ UNCHANGED <<paired, table, overlapped, sessionVars, linkVars, userVars, statusVars>>

RefuseSecond(s, e) ==
    /\ Asker(s) \in paired /\ ~AllowMultiClient
    /\ e \in table /\ Asker(e) # Asker(s)
    /\ Goes(s, "check", "refused")
    /\ UNCHANGED <<paired, table, earlier, overlapped, sessionVars, linkVars, userVars, statusVars>>

\* endSession(existing): looked up again, and closed if it is still listed.
Replace(s) ==
    /\ handler[s] = "replace"
    /\ IF earlier[s] \in table
       THEN Close(earlier[s]) /\ Goes(s, "replace", "replacing")
       ELSE UNCHANGED closeVars /\ Goes(s, "replace", "build")
    /\ UNCHANGED <<paired, table, earlier, overlapped, watch, linkVars, userVars, statusVars>>

\* Mutant: endSession waits until the session is no longer listed.
Replaced_Unlisted(s) ==
    /\ Goes(s, "replacing", "build")
    /\ earlier[s] \notin table
    /\ UNCHANGED <<paired, table, earlier, overlapped, sessionVars, linkVars, userVars, statusVars>>

Replaced(s) ==
    /\ Goes(s, "replacing", "build")
    /\ Closed(earlier[s])
    /\ UNCHANGED <<paired, table, earlier, overlapped, sessionVars, linkVars, userVars, statusVars>>

\* New: no common codec, or no peer connection.
BuildFails(s) ==
    /\ Goes(s, "build", "failed")
    /\ UNCHANGED <<paired, table, earlier, overlapped, sessionVars, linkVars, userVars, statusVars>>

Build(s) ==
    /\ Goes(s, "build", "offer")
    /\ life' = [life EXCEPT ![s] = "open"]
    /\ source' = [source EXCEPT ![s] = "opening"]
    /\ peer' = [peer EXCEPT ![s] = "new"]
    /\ UNCHANGED <<paired, table, earlier, overlapped, watch, linkVars, userVars, statusVars>>

\* createOffer sends the offer last, and may pass a Close on the way.
Offer(s) ==
    /\ link
    /\ Goes(s, "offer", "store")
    /\ watch' = [watch EXCEPT ![s] = "armed"]
    /\ UNCHANGED <<paired, table, earlier, overlapped, life, source, peer, linkVars, userVars, statusVars>>

OfferFails(s) ==
    /\ ~link \/ life[s] # "open"
    /\ Goes(s, "offer", "aborting")
    /\ Close(s)
    /\ UNCHANGED <<paired, table, earlier, overlapped, watch, linkVars, userVars, statusVars>>

Aborted(s) ==
    /\ Closed(s)
    /\ Goes(s, "aborting", "failed")
    /\ UNCHANGED <<paired, table, earlier, overlapped, sessionVars, linkVars, userVars, statusVars>>

Store(s) ==
    /\ Goes(s, "store", "count")
    /\ table' = table \cup {s}
    /\ UNCHANGED <<paired, earlier, overlapped, sessionVars, linkVars, userVars, statusVars>>

CountStart(s) ==
    /\ Goes(s, "count", "tell")
    /\ Count(<<s, "start">>)
    /\ UNCHANGED <<paired, table, earlier, overlapped, sessionVars, linkVars, userVars>>

TellStart(s) ==
    /\ Goes(s, "tell", "served")
    /\ Send(<<s, "start">>)
    /\ UNCHANGED <<paired, table, earlier, overlapped, sessionVars, linkVars, userVars>>

Handle(s) ==
    \/ RefuseUnpaired(s) \/ Admit(s)
    \/ \E e \in Sids : FindOwn(s, e) \/ RefuseSecond(s, e)
    \/ Replace(s) \/ Replaced(s) \/ BuildFails(s) \/ Build(s)
    \/ Offer(s) \/ OfferFails(s) \/ Aborted(s)
    \/ Store(s) \/ CountStart(s) \/ TellStart(s)

Finish(s) == ForgetSession(s) \/ CountEnd(s) \/ TellEnd(s)

-----------------------------------------------------------------------------
(* The goroutines and callbacks of one session.                            *)

Only(changed) == UNCHANGED <<paired, table, requestVars, life, linkVars, userVars,
                             statusVars, changed>>

\* s.source = source.  Close looked at s.source before, or will after.
SourceOpens(s) ==
    /\ source[s] = "opening"
    /\ source' = [source EXCEPT ![s] = IF life[s] = "open" THEN "running" ELSE "leaked"]
    /\ Only(<<peer, watch>>)

SourceFails(s) ==
    /\ "capture" \in scenario.may
    /\ source[s] = "opening"
    /\ source' = [source EXCEPT ![s] = "failed"]
    /\ Only(<<peer, watch>>)

\* openSource has no capture: s.Close("screen capture failed").
NoCapture(s) == source[s] = "failed" /\ CloseAndReturn(s)

\* pumpVideo: the channel of frames was closed.
CaptureStops(s) ==
    /\ "capture" \in scenario.may
    /\ source[s] = "running"
    /\ CloseAndReturn(s)

PeerConnects(s) ==
    /\ peer[s] \in {"answered", "interrupted"}
    /\ peer' = [peer EXCEPT ![s] = "connected"]
    /\ Only(<<source, watch>>)

PeerInterrupted(s) ==
    /\ "interrupt" \in scenario.may
    /\ peer[s] = "connected"
    /\ peer' = [peer EXCEPT ![s] = "interrupted"]
    /\ Only(<<source, watch>>)

PeerFails(s) == peer[s] \in {"answered", "interrupted"} /\ CloseAndReturn(s)

\* Mutant: an answer is taken for a connection.
WatchFires_Answered(s) ==
    /\ "timeout" \in scenario.may
    /\ watch[s] = "armed" /\ life[s] = "open"
    /\ watch' = [watch EXCEPT ![s] = "over"]
    /\ IF peer[s] # "new" THEN UNCHANGED closeVars ELSE Close(s)
    /\ UNCHANGED <<paired, table, requestVars, linkVars, userVars, statusVars>>

\* watchConnect, when connectTimeout has passed before the context is done.
WatchFires(s) ==
    /\ "timeout" \in scenario.may
    /\ watch[s] = "armed" /\ life[s] = "open"
    /\ watch' = [watch EXCEPT ![s] = "over"]
    /\ IF peer[s] = "connected" THEN UNCHANGED closeVars ELSE Close(s)
    /\ UNCHANGED <<paired, table, requestVars, linkVars, userVars, statusVars>>

-----------------------------------------------------------------------------
(* What the reader is sent, and what it does itself.                       *)

\* handleSignal drops what is for a session that is not listed.
Answer(s) ==
    /\ "answer" \in scenario.may
    /\ link /\ reader = "free" /\ s \in table
    /\ life[s] = "open" /\ peer[s] = "new"
    /\ peer' = [peer EXCEPT ![s] = "answered"]
    /\ Only(<<source, watch>>)

\* A bye, a signal that fails verification, or the service's session.end.
PeerEnds(s) ==
    /\ "bye" \in scenario.may
    /\ link /\ reader = "free" /\ s \in table
    /\ Close(s)
    /\ reader' = "ending" /\ ending' = s
    /\ UNCHANGED <<paired, table, requestVars, watch, link, userVars, statusVars>>

\* Mutant: the reader goes on reading while the session is being closed.
ReaderEnded_Early ==
    /\ reader = "ending" /\ reader' = "free"
    /\ UNCHANGED <<paired, table, requestVars, sessionVars, link, ending, userVars, statusVars>>

ReaderEnded ==
    /\ reader = "ending" /\ Closed(ending)
    /\ reader' = "free" /\ ending' = NoSid
    /\ UNCHANGED <<paired, table, requestVars, sessionVars, link, userVars, statusVars>>

\* MsgForgetDevice: the device is removed, and the PC registers anew.
ForgetDevice(c) ==
    /\ "forget" \in scenario.may
    /\ link /\ reader = "free" /\ c \in paired
    /\ paired' = paired \ {c}
    /\ reader' = "register"
    /\ UNCHANGED <<table, requestVars, sessionVars, link, ending, userVars, statusVars>>

RegisterCount ==
    /\ reader = "register"
    /\ reader' = "send"
    /\ Count(Registering)
    /\ UNCHANGED <<paired, table, requestVars, sessionVars, link, ending, userVars>>

RegisterSend ==
    /\ reader = "send"
    /\ reader' = "free"
    /\ Send(Registering)
    /\ UNCHANGED <<paired, table, requestVars, sessionVars, link, ending, userVars>>

LinkDown ==
    /\ "drop" \in scenario.may
    /\ link /\ link' = FALSE
    /\ UNCHANGED <<paired, table, requestVars, sessionVars, reader, ending, userVars, statusVars>>

\* Run dials again; the service knows nothing of the connection before.
Reconnect ==
    /\ ~link /\ reader = "free"
    /\ link' = TRUE /\ reader' = "register" /\ busy' = FALSE
    /\ UNCHANGED <<paired, table, requestVars, sessionVars, ending, userVars, counted, crossed>>

-----------------------------------------------------------------------------
(* DisconnectAll: the list is copied, then closed one by one.              *)

DisconnectAll ==
    /\ "disconnect" \in scenario.may
    /\ user = "idle" /\ user' = "ending"
    /\ doomed' = table /\ stored' = table
    /\ present' = {s \in Sids : life[s] = "open"}
    /\ UNCHANGED <<paired, table, requestVars, sessionVars, linkVars, current, statusVars>>

DisconnectOne(s) ==
    /\ user = "ending" /\ current = NoSid /\ s \in doomed
    /\ Close(s)
    /\ doomed' = doomed \ {s} /\ current' = s
    /\ UNCHANGED <<paired, table, requestVars, watch, linkVars, user, stored, present, statusVars>>

\* Mutant: Close returns at once when somebody else is closing (a flag, not a Once).
DisconnectNext_NoWait ==
    /\ current # NoSid
    /\ current' = NoSid
    /\ UNCHANGED <<paired, table, requestVars, sessionVars, linkVars, user, doomed,
                   stored, present, statusVars>>

DisconnectNext ==
    /\ current # NoSid /\ Closed(current)
    /\ current' = NoSid
    /\ UNCHANGED <<paired, table, requestVars, sessionVars, linkVars, user, doomed,
                   stored, present, statusVars>>

\* Mutant: DisconnectAll waits until no session is listed.
DisconnectReturns_Empty ==
    /\ user = "ending" /\ current = NoSid /\ doomed = {} /\ table = {}
    /\ user' = "done"
    /\ UNCHANGED <<paired, table, requestVars, sessionVars, linkVars, doomed, current,
                   stored, present, statusVars>>

DisconnectReturns ==
    /\ user = "ending" /\ current = NoSid /\ doomed = {}
    /\ user' = "done"
    /\ UNCHANGED <<paired, table, requestVars, sessionVars, linkVars, doomed, current,
                   stored, present, statusVars>>

-----------------------------------------------------------------------------
Disconnecting == \/ DisconnectNext \/ DisconnectReturns
                 \/ \E s \in Sids : DisconnectOne(s)

Reader == ReaderEnded \/ RegisterCount \/ RegisterSend \/ Reconnect

Incoming(s) == Request(s) \/ Answer(s) \/ PeerEnds(s)

OpenSource(s) == SourceOpens(s) \/ SourceFails(s) \/ NoCapture(s)

Goroutines(s) == \/ OpenSource(s) \/ CaptureStops(s)
                 \/ PeerConnects(s) \/ PeerInterrupted(s) \/ PeerFails(s) \/ WatchFires(s)

Steps ==
    \/ \E s \in Sids : Handle(s) \/ Finish(s) \/ Goroutines(s) \/ Incoming(s)
    \/ Reader \/ LinkDown \/ DisconnectAll \/ Disconnecting
    \/ \E c \in Clients : ForgetDevice(c)

Next == Steps /\ UNCHANGED scenario

\* A connection that was interrupted recovers or fails: pion's ICE decides.
PeerSettles(s) == peer[s] = "interrupted" /\ (PeerConnects(s) \/ PeerFails(s))

\* Every goroutine that can run does; what a client or a user does may not come.
Fairness ==
    /\ \A s \in Sids :
          /\ WF_vars(Handle(s) /\ UNCHANGED scenario)
          /\ WF_vars(Finish(s) /\ UNCHANGED scenario)
          /\ WF_vars(OpenSource(s) /\ UNCHANGED scenario)
          /\ WF_vars(WatchFires(s) /\ UNCHANGED scenario)
          /\ WF_vars(PeerSettles(s) /\ UNCHANGED scenario)
    /\ WF_vars(Reader /\ UNCHANGED scenario)
    /\ WF_vars(Disconnecting /\ UNCHANGED scenario)

Spec == Init /\ [][Next]_vars
FairSpec == Spec /\ Fairness

-----------------------------------------------------------------------------
(* What the agent promises.                                                *)

Open == {s \in Sids : life[s] = "open"}

\* A session that is listed although it is closed stays listed for good: it was
\* closed before handleConnectRequest stored it.
Zombies == {s \in table : Closed(s)}

\* Only one device at a time: two sessions are open and listed only if two
\* requests were handled at once (agent.go:472 checks, 533 stores) or a closed
\* session is in the way of the check.
OneDevice ==
    AllowMultiClient \/ overlapped \/ Zombies # {} \/ \A s, t \in Open \cap table : s = t

\* At rest the service has been told whether this PC is in use, unless one
\* status was counted while another was on its way (agent.go:284-292).
AtRest ==
    /\ link /\ reader = "free"
    /\ \A s \in Sids : /\ handler[s] \in {"idle"} \cup Outcomes
                      /\ life[s] \in {"none", "open", "closed"}
BusyAtRest == AtRest /\ ~crossed => (busy <=> table # {})

\* When DisconnectAll returns, every session that was listed when it began has
\* been closed to the end, whoever began to close it.
ListedAreClosed == user = "done" => \A s \in stored : Closed(s)

\* When DisconnectAll returns, every session there was when it began is over
\* and its screen capture with it.
DisconnectEndsAll ==
    user = "done" => \A s \in present : life[s] # "open" /\ source[s] \notin {"running", "leaked"}

\* A device is told that the PC is in use by another device only when a session
\* of another device is listed that is not yet over.
RefusedOnlyIfInUse ==
    [][\A s \in Sids :
        handler'[s] = "refused" /\ handler[s] # "refused" =>
            \E e \in table : Asker(e) # Asker(s) /\ ~Closed(e)]_vars

\* Every connection request is answered one way or another: a handler is never
\* stuck behind the session it replaces.
RequestsAreAnswered ==
    \A s \in Sids : handler[s] \in Handling ~> handler[s] \in Outcomes

\* A session whose peer connection does not come up ends by itself.
UnconnectedEnd ==
    \A s \in Sids : life[s] = "open" /\ "timeout" \in scenario.may
                        ~> peer[s] = "connected" \/ Closed(s)

\* DisconnectAll returns.
DisconnectIsOver == user = "ending" ~> user = "done"
=============================================================================
