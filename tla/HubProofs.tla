----------------------------- MODULE HubProofs -----------------------------
(* Proofs about the hub, for any devices, connections and sessions.        *)
EXTENDS Hub, TLAPS, FiniteSetTheorems

(***************************************************************************)
(* SessionOwned is not inductive: a session must not lose its owner to an  *)
(* Announce that drops it from a list (so an announced session has left    *)
(* the table), to a goroutine that skips its sweep (so only connections of *)
(* PCs pass through a broadcast) or to an id that is drawn again.          *)
(***************************************************************************)
SidPoints == {"relay", "announce", "bind", "offer", "reply"}

\* What the local variables of a goroutine mean at each of its control points.
LocalsMean(c) ==
    /\ at[c] \in SidPoints => loc[c].sid \in Sids /\ parties[loc[c].sid] # NoParties
    /\ at[c] \in {"introduce", "bind", "offer", "reply"} => c \in ClientConns
    /\ at[c] \in {"introduce", "bind", "offer"} => loc[c].peer \in AgentConns
    /\ at[c] = "introduce" => loc[c].dev \in Agents
    /\ at[c] = "relay" => Dev[c] \in {parties[loc[c].sid].client, parties[loc[c].sid].agent}
    /\ at[c] = "announce" => loc[c].sid \notin sessions /\ loc[c].then \in {"serve", "sweep"}
    /\ at[c] \in {"compute", "present", "take"} => c \in AgentConns /\ loc[c].dev = Dev[c]
    /\ at[c] \in {"compute", "present"} => loc[c].then \in {"serve", "gone", "take"}
    /\ at[c] \in {"arm", "forget"} => c \in ClientConns /\ loc[c].dev \in Agents
    /\ at[c] = "new" /\ c \in ClientConns => held[c] = {}

PointsMean == \A c \in Conns : LocalsMean(c)

\* The tables name connections under the device they belong to.
TablesOwn ==
    /\ \A a \in Agents : agents[a] # NoConn => Dev[agents[a]] = a
    /\ \A k \in Clients : \A x \in clients[k] : Dev[x] = k

\* An id is unused, or names a client and a PC; the table holds used ids.
SessionsNamed ==
    /\ \A s \in Sids : parties[s] = NoParties \/ parties[s] \in [client : Clients, agent : Agents]
    /\ \A s \in sessions : parties[s] # NoParties

\* Every window was opened by a PC.
WindowsHeld == \A d \in Codes : phase[d] # "unused" => holder[d] \in Agents

\* The inductive invariant.
HubInv ==
    /\ TypeOK
    /\ PointsMean
    /\ TablesOwn
    /\ SessionsNamed
    /\ WindowsHeld
    /\ SessionOwned
    /\ Routing

-----------------------------------------------------------------------------
(* Lemmas about the operators the actions are built from.                  *)

\* The locals a handler starts from, and the edits of them it makes, are locals.
LEMMA LocalsTyped ==
    /\ NoLocals \in Locals
    /\ \A l \in Locals :
         /\ l.then \in Points /\ l.todo \in SUBSET Sids
         /\ \A s \in Sids : [l EXCEPT !.sid = s] \in Locals
         /\ \A d \in Devices : [l EXCEPT !.dev = d] \in Locals
         /\ \A S \in SUBSET Sids : [l EXCEPT !.todo = S] \in Locals
         /\ \A x \in Conns, d \in Devices : [l EXCEPT !.peer = x, !.dev = d] \in Locals
         /\ \A s \in Sids, d \in Devices : [l EXCEPT !.sid = s, !.dev = d] \in Locals
         /\ \A d \in Devices, p \in Points : [l EXCEPT !.dev = d, !.then = p] \in Locals
         /\ \A i \in Presences, K \in SUBSET Clients : [l EXCEPT !.info = i, !.to = K] \in Locals
         /\ \A s \in Sids, d \in Devices, p \in Points :
              [l EXCEPT !.sid = s, !.dev = d, !.then = p] \in Locals
  <1>1. NoLocals \in Locals
    BY DEF NoLocals, Locals, Points, Presences
  <1>2. ASSUME NEW l \in Locals
        PROVE  /\ l.then \in Points /\ l.todo \in SUBSET Sids
               /\ \A s \in Sids : [l EXCEPT !.sid = s] \in Locals
               /\ \A d \in Devices : [l EXCEPT !.dev = d] \in Locals
               /\ \A S \in SUBSET Sids : [l EXCEPT !.todo = S] \in Locals
    BY DEF Locals
  <1>3. ASSUME NEW l \in Locals, NEW d \in Devices
        PROVE  /\ \A x \in Conns : [l EXCEPT !.peer = x, !.dev = d] \in Locals
               /\ \A s \in Sids : [l EXCEPT !.sid = s, !.dev = d] \in Locals
               /\ \A p \in Points : [l EXCEPT !.dev = d, !.then = p] \in Locals
    BY DEF Locals
  <1>4. ASSUME NEW l \in Locals, NEW i \in Presences, NEW K \in SUBSET Clients
        PROVE  [l EXCEPT !.info = i, !.to = K] \in Locals
    BY DEF Locals
  <1>5. ASSUME NEW l \in Locals, NEW s \in Sids, NEW d \in Devices, NEW p \in Points
        PROVE  [l EXCEPT !.sid = s, !.dev = d, !.then = p] \in Locals
    BY DEF Locals
  <1> QED
    BY <1>1, <1>2, <1>3, <1>4, <1>5

\* A goroutine sent to a control point with proper locals is typed, and no
\* other goroutine moves.
LEMMA GoToTyped ==
    ASSUME ConnsTyped, NEW c \in Conns, NEW p \in Points, NEW l \in Locals, GoTo(c, p, l)
    PROVE  /\ at' \in [Conns -> Points] /\ loc' \in [Conns -> Locals]
           /\ at'[c] = p /\ loc'[c] = l
           /\ \A x \in Conns \ {c} : at'[x] = at[x] /\ loc'[x] = loc[x]
  BY DEF ConnsTyped, GoTo

\* The frames that are not signals.
Notices == ({"offer", "reply", "end"} \X Sids)
           \cup ({"submit", "verdict", "awake", "stayAwake", "forget"} \X Devices)

\* Notices are frames of the kinds the handlers send, and none of them is a signal.
LEMMA NoticesTyped ==
    /\ Notices \subseteq Frames
    /\ \A s \in Sids, d \in Devices : <<"signal", s, d>> \in Frames
    /\ \A f \in Notices, s \in Sids, d \in Devices : f # <<"signal", s, d>>
    /\ \A s \in Sids : <<"offer", s>> \in Notices /\ <<"reply", s>> \in Notices /\ <<"end", s>> \in Notices
    /\ \A d \in Devices : /\ <<"submit", d>> \in Notices /\ <<"verdict", d>> \in Notices
                          /\ <<"awake", d>> \in Notices /\ <<"stayAwake", d>> \in Notices
                          /\ <<"forget", d>> \in Notices
  BY DEF Frames, Notices

\* What is sent to a PC or to a client goes to connections of that device.
LEMMA SendsTyped ==
    ASSUME TablesTyped, TablesOwn, NEW F, NEW f \in F
    PROVE  /\ \A a \in Agents : /\ ToAgent(a, f) \in SUBSET (Conns \X F)
                                /\ \A g \in ToAgent(a, f) : Dev[g[1]] = a /\ g[2] = f
           /\ \A k \in Clients : /\ ToClient(k, f) \in SUBSET (Conns \X F)
                                 /\ \A g \in ToClient(k, f) : Dev[g[1]] = k /\ g[2] = f
  BY DEF TablesTyped, TablesOwn, ToAgent, ToClient

\* Queuing frames leaves frames in the queues, and each new one was sent.
LEMMA EnqueueTyped ==
    ASSUME SentTyped, NEW sent \in SUBSET (Conns \X Frames)
    PROVE  /\ Enqueue(sent) \in [Conns -> SUBSET Frames]
           /\ \A x \in Conns : \A f \in Enqueue(sent)[x] : f \in told[x] \/ <<x, f>> \in sent
  <1>1. ASSUME NEW x \in Conns
        PROVE  {f[2] : f \in {g \in sent : g[1] = x}} \in SUBSET Frames
    OBVIOUS
  <1>2. ASSUME NEW x \in Conns, NEW f \in {h[2] : h \in {g \in sent : g[1] = x}}
        PROVE  <<x, f>> \in sent
    OBVIOUS
  <1> QED
    BY <1>1, <1>2 DEF SentTyped, Enqueue

\* Routing survives a step that sends no signal and rewrites no session.
LEMMA RoutingKept ==
    ASSUME Routing,
           \A x \in Conns, s \in Sids, from \in Devices :
               <<"signal", s, from>> \in told'[x] => <<"signal", s, from>> \in told[x],
           \A s \in Sids : parties[s] # NoParties => parties'[s] = parties[s]
    PROVE  Routing'
  <1>1. ASSUME NEW x \in Conns, NEW s \in Sids, NEW from \in Devices,
               <<"signal", s, from>> \in told[x]
        PROVE  parties[s] # NoParties
    BY <1>1, HubAssumption DEF Routing, NoParties
  <1> QED
    BY <1>1 DEF Routing

\* A step that queues notices keeps the queues typed and routed.
LEMMA NoticesKept ==
    ASSUME SentTyped, Routing, NEW sent \in SUBSET (Conns \X Notices),
           told' = Enqueue(sent), UNCHANGED <<shown, parties>>
    PROVE  SentTyped' /\ Routing'
  <1>1. sent \in SUBSET (Conns \X Frames)
    BY NoticesTyped
  <1>2. ASSUME NEW x \in Conns, NEW s \in Sids, NEW d \in Devices,
               <<"signal", s, d>> \in told'[x]
        PROVE  <<"signal", s, d>> \in told[x]
    BY <1>1, <1>2, EnqueueTyped, NoticesTyped
  <1> QED
    BY <1>1, <1>2, EnqueueTyped, RoutingKept DEF SentTyped

\* Sessions keep their owners when none is added and the connections that
\* answer for those that stay go on doing so.
LEMMA OwnersKept ==
    ASSUME SessionOwned, sessions' \subseteq sessions, UNCHANGED parties,
           \A s \in sessions', x \in Conns :
               Dev[x] = parties[s].client /\ AnswersFor(x, s) => AnswersFor(x, s)'
    PROVE  SessionOwned'
  BY DEF SessionOwned

\* So they do when a handler moves on without touching the lists.
Sweeping(p, l) == p \in {"sweep", "gone"} \/ (p = "announce" /\ l.then = "sweep")

\* A handler that neither sweeps nor adds a session keeps every owner.
LEMMA HandlersKeepOwners ==
    ASSUME TypeOK, SessionOwned, NEW c \in Conns, NEW p \in Points, NEW l \in Locals,
           GoTo(c, p, l), ~Sweeping(at[c], loc[c]), ~Sweeping(p, l),
           sessions' \subseteq sessions, UNCHANGED <<held, parties>>
    PROVE  SessionOwned'
  <1>1. ASSUME NEW s \in sessions', NEW x \in Conns, AnswersFor(x, s)
        PROVE  AnswersFor(x, s)'
    BY <1>1, GoToTyped DEF TypeOK, AnswersFor, Sweeping
  <1> QED
    BY <1>1, OwnersKept

\* What the other goroutines carry keeps its meaning when one moves on.
LEMMA OthersKeepMeaning ==
    ASSUME TypeOK, PointsMean, NEW c \in Conns, NEW p \in Points, NEW l \in Locals,
           GoTo(c, p, l), sessions' \subseteq sessions, UNCHANGED <<held, parties>>,
           NEW x \in Conns \ {c}
    PROVE  LocalsMean(x)'
  <1>1. at'[x] = at[x] /\ loc'[x] = loc[x]
    BY GoToTyped DEF TypeOK
  <1> QED
    BY <1>1 DEF PointsMean, LocalsMean

-----------------------------------------------------------------------------
(* Each action keeps the invariant.                                        *)

\* detach takes the connection out of the tables, and drops no session with it.
LEMMA DetachKeeps ==
    ASSUME HubInv, NEW c \in Conns, Detach(c), UNCHANGED scenario
    PROVE  HubInv'
  <1> USE HubAssumption DEF Detach, HubInv
  <1>1. ConnsTyped'
    BY DEF TypeOK, ConnsTyped, TablesTyped, Points
  <1>2. SentTyped' /\ Routing'
    BY RoutingKept DEF TypeOK, SentTyped
  <1>3. TablesTyped'
    BY DEF TypeOK, TablesTyped, ConnsTyped, Devices
  <1>4. RegistryTyped' /\ WindowsTyped' /\ WindowsHeld'
    BY DEF TypeOK, RegistryTyped, WindowsTyped, WindowsHeld, regVars, wakeVars, pairVars,
        Pairs!Phases
  <1>5. PointsMean'
    BY <1>1, <1>3 DEF TypeOK, ConnsTyped, TablesTyped, RegistryTyped, LocalsMean, PointsMean,
        SidPoints, AgentConns, ClientConns, NoParties
  <1>6. TablesOwn' /\ SessionsNamed'
    BY <1>1, <1>3 DEF TypeOK, TablesTyped, ConnsTyped, TablesOwn, SessionsNamed, NoParties
  <1>7. SessionOwned'
    BY <1>1, <1>3 DEF TypeOK, ConnsTyped, TablesTyped, AnswersFor, SessionOwned
  <1> QED
    BY <1>1, <1>2, <1>3, <1>4, <1>5, <1>6, <1>7 DEF TypeOK

\* detach reads the sessions it will end: all those the connection answered for.
LEMMA SnapshotKeeps ==
    ASSUME HubInv, NEW c \in Conns, Snapshot(c), UNCHANGED scenario
    PROVE  HubInv'
  <1> USE HubAssumption DEF Snapshot, HubInv
  <1>a. held[c] \in SUBSET Sids
    BY DEF TypeOK, ConnsTyped, TablesTyped, RegistryTyped, WindowsTyped, PointsMean, LocalsMean,
        SidPoints, Devices, ClientConns, AgentConns
  <1>b. [NoLocals EXCEPT !.todo = held[c]] \in Locals /\ "sweep" \in Points
    BY <1>a, LocalsTyped DEF Points
  <1>c. GoTo(c, "sweep", [NoLocals EXCEPT !.todo = held[c]])
    BY DEF Finish
  <1>1. ConnsTyped'
    BY <1>a, <1>b, <1>c, GoToTyped DEF TypeOK, ConnsTyped, connVars
  <1>2. SentTyped' /\ Routing'
    BY RoutingKept DEF TypeOK, SentTyped, hubVars
  <1>3. TablesTyped'
    BY DEF TypeOK, TablesTyped, ConnsTyped, hubVars, Devices
  <1>4. RegistryTyped' /\ WindowsTyped' /\ WindowsHeld'
    BY DEF TypeOK, RegistryTyped, WindowsTyped, WindowsHeld, regVars, wakeVars, pairVars,
        Pairs!Phases
  <1>5. PointsMean'
    BY <1>1, <1>3 DEF TypeOK, ConnsTyped, TablesTyped, RegistryTyped, LocalsMean, PointsMean,
        SidPoints, GoTo, NoLocals, AgentConns, ClientConns, hubVars, NoParties
  <1>6. TablesOwn' /\ SessionsNamed'
    BY <1>1, <1>3 DEF TypeOK, TablesTyped, ConnsTyped, TablesOwn, SessionsNamed, NoParties, hubVars
  <1>7. SessionOwned'
    BY <1>1, <1>3 DEF TypeOK, ConnsTyped, TablesTyped, AnswersFor, SessionOwned, GoTo, NoLocals,
        hubVars
  <1> QED
    BY <1>1, <1>2, <1>3, <1>4, <1>5, <1>6, <1>7 DEF TypeOK

\* detach ends one session: it no longer needs the owner it loses.
LEMMA SweepKeeps ==
    ASSUME HubInv, NEW c \in Conns, Sweep(c), UNCHANGED scenario
    PROVE  HubInv'
  <1> USE HubAssumption DEF Sweep, HubInv
  <1>a. PICK s \in loc[c].todo :
          \/ /\ MayEnd(s, Dev[c]) /\ EndSession(s, Dev[c])
             /\ GoTo(c, "announce", [[NoLocals EXCEPT !.todo = loc[c].todo \ {s}]
                                      EXCEPT !.sid = s, !.dev = Dev[c], !.then = "sweep"])
          \/ /\ ~MayEnd(s, Dev[c]) /\ UNCHANGED <<sessions, ender>>
             /\ GoTo(c, "sweep", [NoLocals EXCEPT !.todo = loc[c].todo \ {s}])
    OBVIOUS
  <1>b. /\ s \in Sids /\ loc[c].todo \in SUBSET Sids
        /\ Dev[c] \in Devices /\ {"announce", "sweep"} \subseteq Points
    BY LocalsTyped DEF TypeOK, ConnsTyped, Points, Devices
  <1>c. [NoLocals EXCEPT !.todo = loc[c].todo \ {s}] \in Locals
    BY <1>b, LocalsTyped
  <1>d. [[NoLocals EXCEPT !.todo = loc[c].todo \ {s}]
          EXCEPT !.sid = s, !.dev = Dev[c], !.then = "sweep"] \in Locals
    BY <1>b, <1>c, LocalsTyped
  <1>e. LET l == [NoLocals EXCEPT !.todo = loc[c].todo \ {s}]
            m == [l EXCEPT !.sid = s, !.dev = Dev[c], !.then = "sweep"]
        IN  l.todo = loc[c].todo \ {s} /\ m.todo = l.todo /\ m.sid = s /\ m.then = "sweep"
    BY DEF NoLocals
  <1>f. \/ /\ at'[c] = "announce" /\ loc'[c].sid = s /\ loc'[c].then = "sweep"
           /\ loc'[c].todo = loc[c].todo \ {s} /\ MayEnd(s, Dev[c]) /\ EndSession(s, Dev[c])
        \/ at'[c] = "sweep" /\ loc'[c].todo = loc[c].todo \ {s}
    <2> DEFINE l == [NoLocals EXCEPT !.todo = loc[c].todo \ {s}]
               m == [l EXCEPT !.sid = s, !.dev = Dev[c], !.then = "sweep"]
    <2>1. CASE GoTo(c, "announce", m) /\ MayEnd(s, Dev[c]) /\ EndSession(s, Dev[c])
      <3>1. at'[c] = "announce" /\ loc'[c] = m
        BY <2>1, <1>b, <1>d, GoToTyped DEF TypeOK
      <3> QED
        BY <2>1, <3>1, <1>e
    <2>2. CASE GoTo(c, "sweep", l)
      <3>1. at'[c] = "sweep" /\ loc'[c] = l
        BY <2>2, <1>b, <1>c, GoToTyped DEF TypeOK
      <3> QED
        BY <3>1, <1>e
    <2> QED
      BY <1>a, <2>1, <2>2
  <1>1. ConnsTyped'
    BY <1>a, <1>b, <1>c, <1>d, GoToTyped DEF TypeOK, ConnsTyped
  <1>2. SentTyped' /\ Routing'
    BY RoutingKept DEF TypeOK, SentTyped
  <1>3. TablesTyped'
    BY DEF TypeOK, TablesTyped, ConnsTyped, EndSession, MayEnd, Devices
  <1>4. RegistryTyped' /\ WindowsTyped' /\ WindowsHeld'
    BY DEF TypeOK, RegistryTyped, WindowsTyped, WindowsHeld, regVars, wakeVars, pairVars,
        Pairs!Phases
  <1>5. PointsMean'
    <2>1. ASSUME NEW x \in Conns, x # c
          PROVE  LocalsMean(x)'
      BY <2>1, <1>a, <1>b, <1>c, <1>d, GoToTyped DEF TypeOK, PointsMean, LocalsMean, EndSession
    <2>2. LocalsMean(c)'
      <3>1. CASE at'[c] = "sweep"
        BY <3>1 DEF LocalsMean, SidPoints
      <3>2. CASE /\ at'[c] = "announce" /\ loc'[c].sid = s /\ loc'[c].then = "sweep"
                 /\ MayEnd(s, Dev[c]) /\ EndSession(s, Dev[c])
        BY <3>2, <1>b DEF LocalsMean, SidPoints, MayEnd, EndSession, SessionsNamed
      <3> QED
        BY <1>f, <3>1, <3>2
    <2> QED
      BY <2>1, <2>2 DEF PointsMean
  <1>6. TablesOwn' /\ SessionsNamed'
    BY <1>1, <1>3 DEF TypeOK, TablesTyped, ConnsTyped, TablesOwn, SessionsNamed, NoParties,
        EndSession
  <1>7. SessionOwned'
    <2>1. sessions' \subseteq sessions /\ (MayEnd(s, Dev[c]) => s \notin sessions')
      BY <1>a DEF EndSession
    <2>2. ASSUME NEW r \in sessions', NEW x \in Conns,
                 Dev[x] = parties[r].client, AnswersFor(x, r)
          PROVE  AnswersFor(x, r)'
      <3>1. CASE x # c
        BY <2>2, <3>1, <1>a, <1>b, <1>c, <1>d, GoToTyped DEF TypeOK, AnswersFor
      <3>2. CASE x = c
        <4>1. r # s /\ r \in loc[c].todo
          BY <2>1, <2>2, <3>2 DEF AnswersFor, MayEnd
        <4>2. /\ loc'[c].todo = loc[c].todo \ {s}
              /\ at'[c] = "sweep" \/ (at'[c] = "announce" /\ loc'[c].then = "sweep")
          BY <1>f
        <4> QED
          BY <3>2, <4>1, <4>2 DEF AnswersFor
      <3> QED
        BY <3>1, <3>2
    <2> QED
      BY <2>1, <2>2, OwnersKept
  <1> QED
    BY <1>1, <1>2, <1>3, <1>4, <1>5, <1>6, <1>7 DEF TypeOK

\* detach is through: it has no session left to answer for.
LEMMA SweepDoneKeeps ==
    ASSUME HubInv, NEW c \in Conns, SweepDone(c), UNCHANGED scenario
    PROVE  HubInv'
  <1> USE HubAssumption DEF SweepDone, HubInv
  <1>b. [NoLocals EXCEPT !.dev = Dev[c], !.then = "gone"] \in Locals
    BY LocalsTyped DEF Points, Devices
  <1>c. \/ c \in AgentConns /\ GoTo(c, "compute", [NoLocals EXCEPT !.dev = Dev[c], !.then = "gone"])
        \/ c \notin AgentConns /\ GoTo(c, "gone", NoLocals)
    OBVIOUS
  <1>d. LET l == [NoLocals EXCEPT !.dev = Dev[c], !.then = "gone"]
        IN  l.dev = Dev[c] /\ l.then = "gone"
    BY DEF NoLocals
  <1>e. {"compute", "gone"} \subseteq Points
    BY DEF Points
  <1>1. ConnsTyped'
    BY <1>b, <1>c, LocalsTyped, GoToTyped DEF TypeOK, ConnsTyped, Points
  <1>2. SentTyped' /\ Routing'
    BY RoutingKept DEF TypeOK, SentTyped, hubVars
  <1>3. TablesTyped'
    BY DEF TypeOK, TablesTyped, ConnsTyped, hubVars, Devices, AgentConns
  <1>4. RegistryTyped' /\ WindowsTyped' /\ WindowsHeld'
    BY DEF TypeOK, RegistryTyped, WindowsTyped, WindowsHeld, regVars, wakeVars, pairVars,
        AgentConns, Pairs!Close, Pairs!Phases
  <1>5. PointsMean'
    <2>1. ASSUME NEW x \in Conns, x # c
          PROVE  LocalsMean(x)'
      BY <2>1, <1>b, <1>c, <1>e, LocalsTyped, OthersKeepMeaning DEF hubVars
    <2>2. LocalsMean(c)'
      <3>1. CASE at'[c] = "gone"
        BY <3>1 DEF LocalsMean, SidPoints
      <3>2. CASE /\ at'[c] = "compute" /\ c \in AgentConns
                 /\ loc'[c].dev = Dev[c] /\ loc'[c].then = "gone"
        BY <3>2 DEF LocalsMean, SidPoints
      <3> QED
        BY <3>1, <3>2, <1>b, <1>c, <1>d, <1>e, LocalsTyped, GoToTyped DEF TypeOK
    <2> QED
      BY <2>1, <2>2 DEF PointsMean
  <1>6. TablesOwn' /\ SessionsNamed'
    BY <1>1, <1>3 DEF TypeOK, TablesTyped, ConnsTyped, TablesOwn, SessionsNamed, NoParties,
        AgentConns, hubVars
  <1>7. SessionOwned'
    <2>1. ASSUME NEW r \in sessions', NEW x \in Conns, AnswersFor(x, r)
          PROVE  AnswersFor(x, r)'
      <3>1. x # c
        BY <2>1 DEF AnswersFor
      <3> QED
        BY <2>1, <3>1, <1>b, <1>c, <1>e, LocalsTyped, GoToTyped DEF TypeOK, AnswersFor
    <2> QED
      BY <2>1, OwnersKept DEF hubVars
  <1> QED
    BY <1>1, <1>2, <1>3, <1>4, <1>5, <1>6, <1>7 DEF TypeOK

\* endSession tells the parties: the session it drops from their lists has ended.
LEMMA AnnounceKeeps ==
    ASSUME HubInv, NEW c \in Conns, Announce(c), UNCHANGED scenario
    PROVE  HubInv'
  <1> USE HubAssumption DEF Announce, HubInv
  <1>a. loc[c] \in Locals /\ loc[c].sid \in Sids
    BY DEF TypeOK, ConnsTyped, TablesTyped, RegistryTyped, WindowsTyped, PointsMean, LocalsMean,
        SidPoints, Devices, ClientConns, AgentConns
  <1>b. [NoLocals EXCEPT !.todo = loc[c].todo] \in Locals /\ loc[c].then \in Points
    BY <1>a, LocalsTyped DEF Points
  <1>c. GoTo(c, loc[c].then, [NoLocals EXCEPT !.todo = loc[c].todo])
    BY DEF Finish
  <1>1. ConnsTyped'
    BY <1>a, <1>b, <1>c, GoToTyped DEF TypeOK, ConnsTyped, connVars
  <1>2. SentTyped' /\ Routing'
    <2> DEFINE f == <<"end", loc[c].sid>>
    <2>1. f \in Notices
      BY <1>a, NoticesTyped
    <2>2. {<<x, f>> : x \in EndTargets(loc[c].sid, loc[c].dev)} \in SUBSET (Conns \X Notices)
      BY <1>a, <2>1 DEF EndTargets
    <2> QED
      BY <2>2, NoticesKept DEF TypeOK, hubVars
  <1>3. TablesTyped'
    BY DEF TypeOK, TablesTyped, ConnsTyped, hubVars, Devices
  <1>4. RegistryTyped' /\ WindowsTyped' /\ WindowsHeld'
    BY DEF TypeOK, RegistryTyped, WindowsTyped, WindowsHeld, regVars, wakeVars, pairVars,
        Pairs!Phases
  <1>5. PointsMean'
    BY <1>1, <1>3 DEF TypeOK, ConnsTyped, TablesTyped, RegistryTyped, LocalsMean, PointsMean,
        SidPoints, GoTo, NoLocals, AgentConns, ClientConns, hubVars, NoParties
  <1>6. TablesOwn' /\ SessionsNamed'
    BY <1>1, <1>3 DEF TypeOK, TablesTyped, ConnsTyped, TablesOwn, SessionsNamed, NoParties, hubVars
  <1>7. SessionOwned'
    <2>1. ASSUME NEW s \in sessions, NEW x \in Conns, AnswersFor(x, s)
          PROVE  AnswersFor(x, s)'
      <3>1. s # loc[c].sid
        BY DEF PointsMean, LocalsMean
      <3>2. s \in held[x] => s \in held'[x]
        BY <3>1, <1>1 DEF TypeOK, ConnsTyped
      <3>3. CASE x # c
        BY <2>1, <3>2, <3>3, <1>a, <1>b, <1>c, GoToTyped DEF TypeOK, AnswersFor
      <3>4. CASE x = c
        <4>1. /\ at'[c] = loc[c].then /\ loc[c].then \in {"serve", "sweep"}
              /\ loc'[c].todo = loc[c].todo
          BY <1>a, <1>b, <1>c, GoToTyped DEF TypeOK, PointsMean, LocalsMean, NoLocals
        <4> QED
          BY <2>1, <3>2, <3>4, <4>1 DEF AnswersFor
      <3> QED
        BY <3>3, <3>4
    <2> QED
      BY <2>1, OwnersKept DEF hubVars
  <1> QED
    BY <1>1, <1>2, <1>3, <1>4, <1>5, <1>6, <1>7 DEF TypeOK

\* onConnect gives up when no session id can be drawn.
LEMMA NoSessionKeeps ==
    ASSUME HubInv, NEW c \in Conns, NoSession(c), UNCHANGED scenario
    PROVE  HubInv'
  <1> USE HubAssumption DEF NoSession, HubInv
  <1>a. c \in ClientConns
    BY DEF TypeOK, ConnsTyped, TablesTyped, RegistryTyped, WindowsTyped, PointsMean, LocalsMean,
        SidPoints, Devices, ClientConns, AgentConns
  <1>b. NoLocals \in Locals /\ "serve" \in Points
    BY <1>a, LocalsTyped DEF Points
  <1>c. GoTo(c, "serve", NoLocals)
    BY DEF Finish
  <1>1. ConnsTyped'
    BY <1>a, <1>b, <1>c, GoToTyped DEF TypeOK, ConnsTyped, connVars
  <1>2. SentTyped' /\ Routing'
    BY RoutingKept DEF TypeOK, SentTyped, hubVars
  <1>3. TablesTyped'
    BY DEF TypeOK, TablesTyped, ConnsTyped, hubVars, Devices
  <1>4. RegistryTyped' /\ WindowsTyped' /\ WindowsHeld'
    BY DEF TypeOK, RegistryTyped, WindowsTyped, WindowsHeld, regVars, wakeVars, pairVars,
        Pairs!Phases
  <1>5. PointsMean'
    BY <1>1, <1>3 DEF TypeOK, ConnsTyped, TablesTyped, RegistryTyped, LocalsMean, PointsMean,
        SidPoints, GoTo, Finish, NoLocals, AgentConns, ClientConns, hubVars, NoParties
  <1>6. TablesOwn' /\ SessionsNamed'
    BY <1>1, <1>3 DEF TypeOK, TablesTyped, ConnsTyped, TablesOwn, SessionsNamed, NoParties, hubVars
  <1>7. SessionOwned'
    BY <1>b, <1>c, HandlersKeepOwners DEF Sweeping, connVars, hubVars, Serving
  <1> QED
    BY <1>1, <1>2, <1>3, <1>4, <1>5, <1>6, <1>7 DEF TypeOK

\* onConnect puts the session on the list of the PC's connection.
LEMMA BindAgentKeeps ==
    ASSUME HubInv, NEW c \in Conns, BindAgent(c), UNCHANGED scenario
    PROVE  HubInv'
  <1> USE HubAssumption DEF BindAgent, HubInv
  <1>a. loc[c] \in Locals /\ loc[c].peer \in Conns /\ loc[c].sid \in Sids
    BY DEF TypeOK, ConnsTyped, TablesTyped, RegistryTyped, WindowsTyped, PointsMean, LocalsMean,
        SidPoints, Devices, ClientConns, AgentConns
  <1>b. loc[c] \in Locals /\ "offer" \in Points
    BY <1>a, LocalsTyped DEF Points
  <1>c. GoTo(c, "offer", loc[c])
    BY DEF Finish
  <1>1. ConnsTyped'
    BY <1>a, <1>b, <1>c, GoToTyped DEF TypeOK, ConnsTyped, connVars
  <1>2. SentTyped' /\ Routing'
    BY RoutingKept DEF TypeOK, SentTyped, hubVars
  <1>3. TablesTyped'
    BY DEF TypeOK, TablesTyped, ConnsTyped, hubVars, Devices
  <1>4. RegistryTyped' /\ WindowsTyped' /\ WindowsHeld'
    BY DEF TypeOK, RegistryTyped, WindowsTyped, WindowsHeld, regVars, wakeVars, pairVars,
        Pairs!Phases
  <1>5. PointsMean'
    BY <1>1, <1>3 DEF TypeOK, ConnsTyped, TablesTyped, RegistryTyped, LocalsMean, PointsMean,
        SidPoints, GoTo, AgentConns, ClientConns, hubVars, NoParties
  <1>6. TablesOwn' /\ SessionsNamed'
    BY <1>1, <1>3 DEF TypeOK, TablesTyped, ConnsTyped, TablesOwn, SessionsNamed, NoParties, hubVars
  <1>7. SessionOwned'
    BY <1>1, <1>3 DEF TypeOK, ConnsTyped, TablesTyped, AnswersFor, SessionOwned, GoTo, hubVars
  <1> QED
    BY <1>1, <1>2, <1>3, <1>4, <1>5, <1>6, <1>7 DEF TypeOK

\* onConnect offers the session to the PC: no signal is sent.
LEMMA OfferAgentKeeps ==
    ASSUME HubInv, NEW c \in Conns, OfferAgent(c), UNCHANGED scenario
    PROVE  HubInv'
  <1> USE HubAssumption DEF OfferAgent, HubInv
  <1>a. loc[c].peer \in Conns /\ loc[c].sid \in Sids
    BY DEF TypeOK, ConnsTyped, TablesTyped, RegistryTyped, WindowsTyped, PointsMean, LocalsMean,
        SidPoints, Devices, ClientConns, AgentConns
  <1>b. [NoLocals EXCEPT !.sid = loc[c].sid] \in Locals /\ "reply" \in Points
    BY <1>a, LocalsTyped DEF Points
  <1>c. GoTo(c, "reply", [NoLocals EXCEPT !.sid = loc[c].sid])
    BY DEF Finish
  <1>1. ConnsTyped'
    BY <1>a, <1>b, <1>c, GoToTyped DEF TypeOK, ConnsTyped, connVars
  <1>2. SentTyped' /\ Routing'
    <2> DEFINE f == <<"offer", loc[c].sid>>
    <2>1. f \in Notices
      BY <1>a, NoticesTyped
    <2>2. {<<loc[c].peer, f>>} \in SUBSET (Conns \X Notices)
      BY <1>a, <2>1
    <2> QED
      BY <2>2, NoticesKept DEF TypeOK, hubVars
  <1>3. TablesTyped'
    BY DEF TypeOK, TablesTyped, ConnsTyped, hubVars, Devices
  <1>4. RegistryTyped' /\ WindowsTyped' /\ WindowsHeld'
    BY DEF TypeOK, RegistryTyped, WindowsTyped, WindowsHeld, regVars, wakeVars, pairVars,
        Pairs!Phases
  <1>5. PointsMean'
    BY <1>1, <1>3 DEF TypeOK, ConnsTyped, TablesTyped, RegistryTyped, LocalsMean, PointsMean,
        SidPoints, GoTo, NoLocals, AgentConns, ClientConns, hubVars, NoParties
  <1>6. TablesOwn' /\ SessionsNamed'
    BY <1>1, <1>3 DEF TypeOK, TablesTyped, ConnsTyped, TablesOwn, SessionsNamed, NoParties, hubVars
  <1>7. SessionOwned'
    BY <1>b, <1>c, HandlersKeepOwners DEF Sweeping, connVars, hubVars, Serving
  <1> QED
    BY <1>1, <1>2, <1>3, <1>4, <1>5, <1>6, <1>7 DEF TypeOK

\* onConnect answers the client: no signal is sent.
LEMMA ReplyClientKeeps ==
    ASSUME HubInv, NEW c \in Conns, ReplyClient(c), UNCHANGED scenario
    PROVE  HubInv'
  <1> USE HubAssumption DEF ReplyClient, HubInv
  <1>a. loc[c].sid \in Sids
    BY DEF TypeOK, ConnsTyped, TablesTyped, RegistryTyped, WindowsTyped, PointsMean, LocalsMean,
        SidPoints, Devices, ClientConns, AgentConns
  <1>b. NoLocals \in Locals /\ "serve" \in Points
    BY <1>a, LocalsTyped DEF Points
  <1>c. GoTo(c, "serve", NoLocals)
    BY DEF Finish
  <1>1. ConnsTyped'
    BY <1>a, <1>b, <1>c, GoToTyped DEF TypeOK, ConnsTyped, connVars
  <1>2. SentTyped' /\ Routing'
    <2> DEFINE f == <<"reply", loc[c].sid>>
    <2>1. f \in Notices
      BY <1>a, NoticesTyped
    <2>2. {<<c, f>>} \in SUBSET (Conns \X Notices)
      BY <1>a, <2>1
    <2> QED
      BY <2>2, NoticesKept DEF TypeOK, hubVars
  <1>3. TablesTyped'
    BY DEF TypeOK, TablesTyped, ConnsTyped, hubVars, Devices
  <1>4. RegistryTyped' /\ WindowsTyped' /\ WindowsHeld'
    BY DEF TypeOK, RegistryTyped, WindowsTyped, WindowsHeld, regVars, wakeVars, pairVars,
        Pairs!Phases
  <1>5. PointsMean'
    BY <1>1, <1>3 DEF TypeOK, ConnsTyped, TablesTyped, RegistryTyped, LocalsMean, PointsMean,
        SidPoints, GoTo, Finish, NoLocals, AgentConns, ClientConns, hubVars, NoParties
  <1>6. TablesOwn' /\ SessionsNamed'
    BY <1>1, <1>3 DEF TypeOK, TablesTyped, ConnsTyped, TablesOwn, SessionsNamed, NoParties, hubVars
  <1>7. SessionOwned'
    BY <1>b, <1>c, HandlersKeepOwners DEF Sweeping, connVars, hubVars, Serving
  <1> QED
    BY <1>1, <1>2, <1>3, <1>4, <1>5, <1>6, <1>7 DEF TypeOK

\* onSignal forwards to the other party of the session, or ends it.
LEMMA RelayKeeps ==
    ASSUME HubInv, NEW c \in Conns, Relay(c), UNCHANGED scenario
    PROVE  HubInv'
  <1> USE HubAssumption DEF Relay, HubInv
  <1>a. loc[c].sid \in Sids /\ parties[loc[c].sid] \in [client : Clients, agent : Agents]
    BY DEF PointsMean, LocalsMean, SidPoints, SessionsNamed
  <1>b. [NoLocals EXCEPT !.sid = loc[c].sid] \in Locals
    BY <1>a, LocalsTyped
  <1>c. \/ GoTo(c, "serve", NoLocals) /\ UNCHANGED <<sessions, ender>>
        \/ /\ MayEnd(loc[c].sid, NoDev) /\ EndSession(loc[c].sid, NoDev)
           /\ GoTo(c, "announce", [NoLocals EXCEPT !.sid = loc[c].sid])
    BY DEF Finish
  <1>1. ConnsTyped'
    BY <1>b, <1>c, LocalsTyped, GoToTyped DEF TypeOK, ConnsTyped, Points
  <1>2. SentTyped' /\ Routing'
    <2> DEFINE s0 == loc[c].sid
               f == <<"signal", s0, Dev[c]>>
               sent == Recipients(Dev[c], s0, f)
               Proper(g) == /\ g[2] = f
                            /\ {Dev[c], Dev[g[1]]} = {parties[s0].client, parties[s0].agent}
    <2>1. Dev[c] \in Devices /\ Dev[c] \in {parties[s0].client, parties[s0].agent}
      BY DEF Devices, PointsMean, LocalsMean
    <2>2. f \in Frames
      BY <1>a, <2>1, NoticesTyped
    <2>3. parties[s0].client \in Clients /\ parties[s0].agent \in Agents
      BY <1>a
    <2>4. sent \in SUBSET (Conns \X Frames) /\ \A g \in sent : Proper(g)
      <3>1. CASE Dev[c] = parties[s0].client
        <4>1. sent = ToAgent(parties[s0].agent, f)
          BY <3>1 DEF Recipients
        <4> QED
          BY <2>2, <2>3, <3>1, <4>1, SendsTyped DEF TypeOK
      <3>2. CASE Dev[c] # parties[s0].client
        <4>1. sent = ToClient(parties[s0].client, f)
          BY <3>2 DEF Recipients
        <4> QED
          BY <2>1, <2>2, <2>3, <3>2, <4>1, SendsTyped DEF TypeOK
      <3> QED
        BY <3>1, <3>2
    <2>5. (told' = told \/ told' = Enqueue(sent)) /\ shown' = shown
      OBVIOUS
    <2>6. SentTyped'
      <3>1. Enqueue(sent) \in [Conns -> SUBSET Frames]
        BY <2>4, EnqueueTyped DEF TypeOK
      <3> HIDE DEF sent
      <3> QED
        BY <2>5, <3>1 DEF TypeOK, SentTyped
    <2>7. ASSUME NEW x \in Conns, NEW s \in Sids, NEW from \in Devices,
                 <<"signal", s, from>> \in told'[x], <<"signal", s, from>> \notin told[x]
          PROVE  {from, Dev[x]} = {parties[s].client, parties[s].agent}
      <3>1. <<x, <<"signal", s, from>>>> \in sent
        BY <2>4, <2>5, <2>7, EnqueueTyped DEF TypeOK
      <3>2. Proper(<<x, <<"signal", s, from>>>>)
        BY <3>1, <2>4
      <3> HIDE DEF sent
      <3> QED
        BY <3>2
    <2>8. Routing'
      <3>1. parties' = parties
        OBVIOUS
      <3>2. Routing
        OBVIOUS
      <3> QED
        BY <2>7, <3>1, <3>2 DEF Routing
    <2> QED
      BY <2>6, <2>8
  <1>3. TablesTyped'
    BY DEF TypeOK, TablesTyped, ConnsTyped, EndSession, MayEnd, Devices
  <1>4. RegistryTyped' /\ WindowsTyped' /\ WindowsHeld'
    BY DEF TypeOK, RegistryTyped, WindowsTyped, WindowsHeld, regVars, wakeVars, pairVars,
        Pairs!Phases
  <1>5. PointsMean'
    BY <1>1, <1>3 DEF TypeOK, ConnsTyped, TablesTyped, RegistryTyped, LocalsMean, PointsMean,
        SidPoints, GoTo, Finish, NoLocals, AgentConns, ClientConns, EndSession, MayEnd, NoParties
  <1>6. TablesOwn' /\ SessionsNamed'
    BY <1>1, <1>3 DEF TypeOK, TablesTyped, ConnsTyped, TablesOwn, SessionsNamed, NoParties,
        EndSession
  <1>7. SessionOwned'
    <2>1. [NoLocals EXCEPT !.sid = loc[c].sid].then = "serve"
      BY DEF NoLocals
    <2> QED
      BY <2>1, <1>b, <1>c, LocalsTyped, HandlersKeepOwners DEF Sweeping, EndSession, Points
  <1> QED
    BY <1>1, <1>2, <1>3, <1>4, <1>5, <1>6, <1>7 DEF TypeOK

\* broadcastPresence reads the state of the PC.
LEMMA ComputeKeeps ==
    ASSUME HubInv, NEW c \in Conns, Compute(c), UNCHANGED scenario
    PROVE  HubInv'
  <1> USE HubAssumption DEF Compute, HubInv
  <1>a. /\ loc[c] \in Locals /\ loc[c].dev = Dev[c] /\ c \in AgentConns
        /\ Dev[c] \in Agents /\ loc[c].then \in Points /\ "present" \in Points
    BY LocalsTyped DEF TypeOK, ConnsTyped, PointsMean, LocalsMean, Points, AgentConns
  <1>b. [loc[c] EXCEPT !.info = Presence(loc[c].dev), !.to = paired[loc[c].dev]] \in Locals
    <2>1. Presence(loc[c].dev) \in Presences
      BY DEF Presence, Presences
    <2> QED
      BY <1>a, <2>1, LocalsTyped DEF TypeOK, RegistryTyped
  <1>c. [NoLocals EXCEPT !.dev = loc[c].dev] \in Locals
    BY <1>a, LocalsTyped DEF Devices
  <1>d. \/ GoTo(c, "present", [loc[c] EXCEPT !.info = Presence(loc[c].dev), !.to = paired[loc[c].dev]])
        \/ loc[c].then = "take" /\ GoTo(c, "take", [NoLocals EXCEPT !.dev = loc[c].dev])
        \/ loc[c].then # "take" /\ GoTo(c, loc[c].then, NoLocals)
    BY DEF AfterPresence
  <1>e. LET l == [loc[c] EXCEPT !.info = Presence(loc[c].dev), !.to = paired[loc[c].dev]]
        IN  l.dev = loc[c].dev /\ l.then = loc[c].then
    BY <1>a DEF Locals
  <1>f. [NoLocals EXCEPT !.dev = loc[c].dev].dev = loc[c].dev
    BY DEF NoLocals
  <1>1. ConnsTyped'
    BY <1>a, <1>b, <1>c, <1>d, LocalsTyped, GoToTyped DEF TypeOK, ConnsTyped, connVars
  <1>2. SentTyped' /\ Routing'
    BY RoutingKept DEF TypeOK, SentTyped, hubVars
  <1>3. TablesTyped'
    BY DEF TypeOK, TablesTyped, ConnsTyped, hubVars, Devices
  <1>4. RegistryTyped' /\ WindowsTyped' /\ WindowsHeld'
    BY DEF TypeOK, RegistryTyped, WindowsTyped, WindowsHeld, regVars, wakeVars, pairVars,
        Pairs!Phases
  <1>5. PointsMean'
    <2>1. ASSUME NEW x \in Conns, x # c
          PROVE  LocalsMean(x)'
      BY <2>1, <1>a, <1>b, <1>c, <1>d, LocalsTyped, OthersKeepMeaning DEF hubVars
    <2>2. LocalsMean(c)'
      <3>1. CASE /\ at'[c] = "present" /\ loc'[c].dev = Dev[c] /\ loc'[c].then = loc[c].then
        BY <3>1, <1>a DEF PointsMean, LocalsMean, SidPoints
      <3>2. CASE at'[c] = "take" /\ loc'[c].dev = Dev[c]
        BY <3>2, <1>a DEF LocalsMean, SidPoints
      <3>3. CASE at'[c] \in {"serve", "gone"}
        BY <3>3 DEF LocalsMean, SidPoints
      <3>4. loc[c].then \in {"serve", "gone", "take"}
        BY DEF PointsMean, LocalsMean
      <3> DEFINE l == [loc[c] EXCEPT !.info = Presence(loc[c].dev), !.to = paired[loc[c].dev]]
                 m == [NoLocals EXCEPT !.dev = loc[c].dev]
      <3>5. CASE GoTo(c, "present", l)
        <4>1. at'[c] = "present" /\ loc'[c] = l
          BY <3>5, <1>a, <1>b, GoToTyped DEF TypeOK
        <4> QED
          BY <3>1, <4>1, <1>a, <1>e
      <3>6. CASE loc[c].then = "take" /\ GoTo(c, "take", m)
        <4>1. at'[c] = "take" /\ loc'[c] = m
          BY <3>6, <1>a, <1>c, GoToTyped DEF TypeOK
        <4> QED
          BY <3>2, <4>1, <1>a, <1>f
      <3>7. CASE loc[c].then # "take" /\ GoTo(c, loc[c].then, NoLocals)
        <4>1. at'[c] = loc[c].then
          BY <3>7, <1>a, LocalsTyped, GoToTyped DEF TypeOK
        <4> QED
          BY <3>3, <3>4, <3>7, <4>1
      <3> QED
        BY <1>d, <3>5, <3>6, <3>7
    <2> QED
      BY <2>1, <2>2 DEF PointsMean
  <1>6. TablesOwn' /\ SessionsNamed'
    BY <1>1, <1>3 DEF TypeOK, TablesTyped, ConnsTyped, TablesOwn, SessionsNamed, NoParties, hubVars
  <1>7. SessionOwned'
    BY <1>1, <1>3 DEF TypeOK, ConnsTyped, TablesTyped, LocalsMean, PointsMean, SessionsNamed,
        SidPoints, AnswersFor, SessionOwned, GoTo, Finish, Locals, NoLocals, Points, AgentConns,
        ClientConns, Devices, AfterPresence, connVars, hubVars, EndSession, MayEnd, NoParties,
        EndTargets
  <1> QED
    BY <1>1, <1>2, <1>3, <1>4, <1>5, <1>6, <1>7 DEF TypeOK

\* broadcastPresence sends it: presences are no signals.
LEMMA PresentKeeps ==
    ASSUME HubInv, NEW c \in Conns, Present(c), UNCHANGED scenario
    PROVE  HubInv'
  <1> USE HubAssumption DEF Present, HubInv
  <1>a. /\ loc[c] \in Locals /\ loc[c].dev = Dev[c] /\ loc[c].then \in Points
        /\ Dev[c] \in Agents /\ loc[c].info \in Presences
    BY LocalsTyped DEF TypeOK, ConnsTyped, PointsMean, LocalsMean, AgentConns, Locals
  <1>c. [NoLocals EXCEPT !.dev = loc[c].dev] \in Locals
    BY <1>a, LocalsTyped DEF Devices
  <1>d. \/ loc[c].then = "take" /\ GoTo(c, "take", [NoLocals EXCEPT !.dev = loc[c].dev])
        \/ loc[c].then # "take" /\ GoTo(c, loc[c].then, NoLocals)
    BY DEF AfterPresence
  <1>1. ConnsTyped'
    BY <1>a, <1>c, <1>d, LocalsTyped, GoToTyped DEF TypeOK, ConnsTyped, connVars
  <1>2. SentTyped' /\ Routing'
    <2>1. SentTyped'
      BY <1>a DEF TypeOK, SentTyped
    <2> QED
      BY <2>1, RoutingKept DEF hubVars
  <1>3. TablesTyped'
    BY DEF TypeOK, TablesTyped, ConnsTyped, hubVars, Devices
  <1>4. RegistryTyped' /\ WindowsTyped' /\ WindowsHeld'
    BY DEF TypeOK, RegistryTyped, WindowsTyped, WindowsHeld, regVars, wakeVars, pairVars,
        Pairs!Phases
  <1>5. PointsMean'
    BY <1>1, <1>3 DEF TypeOK, ConnsTyped, TablesTyped, RegistryTyped, LocalsMean, PointsMean,
        SidPoints, GoTo, NoLocals, AgentConns, ClientConns, AfterPresence, hubVars, NoParties
  <1>6. TablesOwn' /\ SessionsNamed'
    BY <1>1, <1>3 DEF TypeOK, TablesTyped, ConnsTyped, TablesOwn, SessionsNamed, NoParties, hubVars
  <1>7. SessionOwned'
    BY <1>1, <1>3 DEF TypeOK, ConnsTyped, TablesTyped, LocalsMean, PointsMean, SessionsNamed,
        SidPoints, AnswersFor, SessionOwned, GoTo, Finish, Locals, NoLocals, Points, AgentConns,
        ClientConns, Devices, AfterPresence, connVars, hubVars, EndSession, MayEnd, NoParties,
        EndTargets
  <1> QED
    BY <1>1, <1>2, <1>3, <1>4, <1>5, <1>6, <1>7 DEF TypeOK

\* noteAgentOnline takes the pending wake: no signal is sent.
LEMMA TakeWakeKeeps ==
    ASSUME HubInv, NEW c \in Conns, TakeWake(c), UNCHANGED scenario
    PROVE  HubInv'
  <1> USE HubAssumption DEF TakeWake, HubInv
  <1>a. loc[c].dev \in Agents /\ waiting[loc[c].dev] \in Clients \cup {NoDev}
    BY DEF TypeOK, ConnsTyped, TablesTyped, RegistryTyped, WindowsTyped, PointsMean, LocalsMean,
        SidPoints, Devices, ClientConns, AgentConns
  <1>b. NoLocals \in Locals /\ "serve" \in Points
    BY <1>a, LocalsTyped DEF Points
  <1>c. GoTo(c, "serve", NoLocals)
    BY DEF Finish
  <1>1. ConnsTyped'
    BY <1>a, <1>b, <1>c, GoToTyped DEF TypeOK, ConnsTyped, connVars
  <1>2. SentTyped' /\ Routing'
    <2> DEFINE a == loc[c].dev
               k == waiting[loc[c].dev]
    <2>1. CASE k = NoDev
      BY <2>1, RoutingKept DEF TypeOK, SentTyped, hubVars
    <2>2. CASE k # NoDev
      <3>1. a \in Agents /\ k \in Clients /\ a \in Devices /\ k \in Devices
        BY <1>a, <2>2 DEF Devices
      <3>2. <<"stayAwake", k>> \in Notices /\ <<"awake", a>> \in Notices
        BY <3>1, NoticesTyped
      <3>3. ToAgent(a, <<"stayAwake", k>>) \in SUBSET (Conns \X Notices)
        BY <3>1, <3>2, SendsTyped DEF TypeOK
      <3>4. ToClient(k, <<"awake", a>>) \in SUBSET (Conns \X Notices)
        BY <3>1, <3>2, SendsTyped DEF TypeOK
      <3>5. told' = Enqueue(ToAgent(a, <<"stayAwake", k>>) \cup ToClient(k, <<"awake", a>>))
        BY <2>2
      <3> QED
        BY <3>3, <3>4, <3>5, NoticesKept DEF TypeOK, hubVars
    <2> QED
      BY <2>1, <2>2
  <1>3. TablesTyped'
    BY DEF TypeOK, TablesTyped, ConnsTyped, hubVars, Devices
  <1>4. RegistryTyped' /\ WindowsTyped' /\ WindowsHeld'
    BY DEF TypeOK, RegistryTyped, WindowsTyped, WindowsHeld, regVars, pairVars, Pairs!Phases
  <1>5. PointsMean'
    BY <1>1, <1>3 DEF TypeOK, ConnsTyped, TablesTyped, RegistryTyped, LocalsMean, PointsMean,
        SidPoints, GoTo, Finish, NoLocals, AgentConns, ClientConns, hubVars, NoParties
  <1>6. TablesOwn' /\ SessionsNamed'
    BY <1>1, <1>3 DEF TypeOK, TablesTyped, ConnsTyped, TablesOwn, SessionsNamed, NoParties, hubVars
  <1>7. SessionOwned'
    BY <1>b, <1>c, HandlersKeepOwners DEF Sweeping, connVars, hubVars, Serving
  <1> QED
    BY <1>1, <1>2, <1>3, <1>4, <1>5, <1>6, <1>7 DEF TypeOK

\* wakeState.arm notes who waits.
LEMMA ArmKeeps ==
    ASSUME HubInv, NEW c \in Conns, Arm(c), UNCHANGED scenario
    PROVE  HubInv'
  <1> USE HubAssumption DEF Arm, HubInv
  <1>a. loc[c].dev \in Agents /\ Dev[c] \in Clients
    BY DEF TypeOK, ConnsTyped, TablesTyped, RegistryTyped, WindowsTyped, PointsMean, LocalsMean,
        SidPoints, Devices, ClientConns, AgentConns
  <1>b. NoLocals \in Locals /\ "serve" \in Points
    BY <1>a, LocalsTyped DEF Points
  <1>c. GoTo(c, "serve", NoLocals)
    BY DEF Finish
  <1>1. ConnsTyped'
    BY <1>a, <1>b, <1>c, GoToTyped DEF TypeOK, ConnsTyped, connVars
  <1>2. SentTyped' /\ Routing'
    BY RoutingKept DEF TypeOK, SentTyped, hubVars
  <1>3. TablesTyped'
    BY DEF TypeOK, TablesTyped, ConnsTyped, hubVars, Devices
  <1>4. RegistryTyped' /\ WindowsTyped' /\ WindowsHeld'
    BY DEF TypeOK, RegistryTyped, WindowsTyped, WindowsHeld, regVars, wakeVars, pairVars,
        LocalsMean, PointsMean, ClientConns, AgentConns, Pairs!Open, Pairs!Close, Pairs!Try,
        Pairs!Phases
  <1>5. PointsMean'
    BY <1>1, <1>3 DEF TypeOK, ConnsTyped, TablesTyped, RegistryTyped, LocalsMean, PointsMean,
        SidPoints, GoTo, Finish, NoLocals, AgentConns, ClientConns, hubVars, NoParties
  <1>6. TablesOwn' /\ SessionsNamed'
    BY <1>1, <1>3 DEF TypeOK, TablesTyped, ConnsTyped, TablesOwn, SessionsNamed, NoParties, hubVars
  <1>7. SessionOwned'
    BY <1>b, <1>c, HandlersKeepOwners DEF Sweeping, connVars, hubVars, Serving
  <1> QED
    BY <1>1, <1>2, <1>3, <1>4, <1>5, <1>6, <1>7 DEF TypeOK

\* onForgetDevice tells the PC: no signal is sent.
LEMMA ForgetTellKeeps ==
    ASSUME HubInv, NEW c \in Conns, ForgetTell(c), UNCHANGED scenario
    PROVE  HubInv'
  <1> USE HubAssumption DEF ForgetTell, HubInv
  <1>a. loc[c].dev \in Agents /\ Dev[c] \in Devices
    BY DEF TypeOK, ConnsTyped, TablesTyped, RegistryTyped, WindowsTyped, PointsMean, LocalsMean,
        SidPoints, Devices, ClientConns, AgentConns
  <1>b. NoLocals \in Locals /\ "serve" \in Points
    BY <1>a, LocalsTyped DEF Points
  <1>c. GoTo(c, "serve", NoLocals)
    BY DEF Finish
  <1>1. ConnsTyped'
    BY <1>a, <1>b, <1>c, GoToTyped DEF TypeOK, ConnsTyped, connVars
  <1>2. SentTyped' /\ Routing'
    <2> DEFINE f == <<"forget", Dev[c]>>
    <2>1. f \in Notices
      BY <1>a, NoticesTyped
    <2>2. ToAgent(loc[c].dev, f) \in SUBSET (Conns \X Notices)
      BY <1>a, <2>1, SendsTyped DEF TypeOK
    <2> QED
      BY <2>2, NoticesKept DEF TypeOK, hubVars
  <1>3. TablesTyped'
    BY DEF TypeOK, TablesTyped, ConnsTyped, hubVars, Devices
  <1>4. RegistryTyped' /\ WindowsTyped' /\ WindowsHeld'
    BY DEF TypeOK, RegistryTyped, WindowsTyped, WindowsHeld, regVars, wakeVars, pairVars,
        Pairs!Phases
  <1>5. PointsMean'
    BY <1>1, <1>3 DEF TypeOK, ConnsTyped, TablesTyped, RegistryTyped, LocalsMean, PointsMean,
        SidPoints, GoTo, Finish, NoLocals, AgentConns, ClientConns, hubVars, NoParties
  <1>6. TablesOwn' /\ SessionsNamed'
    BY <1>1, <1>3 DEF TypeOK, TablesTyped, ConnsTyped, TablesOwn, SessionsNamed, NoParties, hubVars
  <1>7. SessionOwned'
    BY <1>b, <1>c, HandlersKeepOwners DEF Sweeping, connVars, hubVars, Serving
  <1> QED
    BY <1>1, <1>2, <1>3, <1>4, <1>5, <1>6, <1>7 DEF TypeOK

\* attach replaces the PC's connection by one of the same PC.
LEMMA AttachAgentKeeps ==
    ASSUME HubInv, NEW c \in Conns, AttachAgent(c), UNCHANGED scenario
    PROVE  HubInv'
  <1> USE HubAssumption DEF AttachAgent, HubInv
  <1>1. ConnsTyped'
    BY DEF TypeOK, ConnsTyped, TablesTyped, Points, AgentConns
  <1>2. SentTyped' /\ Routing'
    BY RoutingKept DEF TypeOK, SentTyped
  <1>3. TablesTyped'
    BY DEF TypeOK, TablesTyped, ConnsTyped, Devices, AgentConns
  <1>4. RegistryTyped' /\ WindowsTyped' /\ WindowsHeld'
    BY DEF TypeOK, RegistryTyped, WindowsTyped, WindowsHeld, regVars, wakeVars, pairVars,
        AgentConns, Pairs!Phases
  <1>5. PointsMean'
    BY <1>1, <1>3 DEF TypeOK, ConnsTyped, TablesTyped, RegistryTyped, LocalsMean, PointsMean,
        SidPoints, AgentConns, ClientConns, NoParties
  <1>6. TablesOwn' /\ SessionsNamed'
    BY <1>1, <1>3 DEF TypeOK, TablesTyped, ConnsTyped, TablesOwn, SessionsNamed, NoParties,
        AgentConns
  <1>7. SessionOwned'
    BY <1>1, <1>3 DEF TypeOK, ConnsTyped, TablesTyped, AnswersFor, SessionOwned, AgentConns
  <1> QED
    BY <1>1, <1>2, <1>3, <1>4, <1>5, <1>6, <1>7 DEF TypeOK

\* attach adds a client's connection, or refuses one that never held a session.
LEMMA AttachClientKeeps ==
    ASSUME HubInv, NEW c \in Conns, AttachClient(c), UNCHANGED scenario
    PROVE  HubInv'
  <1> USE HubAssumption DEF AttachClient, HubInv
  <1>1. ConnsTyped'
    BY DEF TypeOK, ConnsTyped, TablesTyped, Points, AgentConns, ClientConns
  <1>2. SentTyped' /\ Routing'
    BY RoutingKept DEF TypeOK, SentTyped
  <1>3. TablesTyped'
    BY DEF TypeOK, TablesTyped, ConnsTyped, Devices, ClientConns, AgentConns
  <1>4. RegistryTyped' /\ WindowsTyped' /\ WindowsHeld'
    BY DEF TypeOK, RegistryTyped, WindowsTyped, WindowsHeld, regVars, wakeVars, pairVars,
        ClientConns, AgentConns, Pairs!Phases
  <1>5. PointsMean'
    BY <1>1, <1>3 DEF TypeOK, ConnsTyped, TablesTyped, RegistryTyped, LocalsMean, PointsMean,
        SidPoints, AgentConns, ClientConns, NoParties
  <1>6. TablesOwn' /\ SessionsNamed'
    BY <1>1, <1>3 DEF TypeOK, TablesTyped, ConnsTyped, TablesOwn, SessionsNamed, NoParties,
        ClientConns, AgentConns
  <1>7. SessionOwned'
    BY <1>1, <1>3 DEF TypeOK, ConnsTyped, TablesTyped, LocalsMean, PointsMean, SessionsNamed,
        SidPoints, AnswersFor, SessionOwned, GoTo, Finish, Locals, NoLocals, Points, AgentConns,
        ClientConns, Devices, AfterPresence, connVars, hubVars, EndSession, MayEnd, NoParties,
        EndTargets
  <1> QED
    BY <1>1, <1>2, <1>3, <1>4, <1>5, <1>6, <1>7 DEF TypeOK

\* A cancelled connection keeps its place in the tables until it is detached.
LEMMA CancelKeeps ==
    ASSUME HubInv, NEW c \in Conns, Cancel(c), UNCHANGED scenario
    PROVE  HubInv'
  <1> USE HubAssumption DEF Cancel, HubInv
  <1>1. ConnsTyped'
    BY DEF TypeOK, ConnsTyped, TablesTyped, Points
  <1>2. SentTyped' /\ Routing'
    BY RoutingKept DEF TypeOK, SentTyped, hubVars
  <1>3. TablesTyped'
    BY DEF TypeOK, TablesTyped, ConnsTyped, hubVars, Devices
  <1>4. RegistryTyped' /\ WindowsTyped' /\ WindowsHeld'
    BY DEF TypeOK, RegistryTyped, WindowsTyped, WindowsHeld, regVars, wakeVars, pairVars,
        Pairs!Phases
  <1>5. PointsMean'
    BY <1>1, <1>3 DEF TypeOK, ConnsTyped, TablesTyped, RegistryTyped, LocalsMean, PointsMean,
        SidPoints, AgentConns, ClientConns, hubVars, NoParties
  <1>6. TablesOwn' /\ SessionsNamed'
    BY <1>1, <1>3 DEF TypeOK, TablesTyped, ConnsTyped, TablesOwn, SessionsNamed, NoParties, hubVars
  <1>7. SessionOwned'
    BY <1>1, <1>3 DEF TypeOK, ConnsTyped, TablesTyped, AnswersFor, SessionOwned, hubVars
  <1> QED
    BY <1>1, <1>2, <1>3, <1>4, <1>5, <1>6, <1>7 DEF TypeOK

\* A failed read sends the goroutine to its detach.
LEMMA ReadEndsKeeps ==
    ASSUME HubInv, NEW c \in Conns, ReadEnds(c), UNCHANGED scenario
    PROVE  HubInv'
  <1> USE HubAssumption DEF ReadEnds, HubInv
  <1>1. ConnsTyped'
    BY DEF TypeOK, ConnsTyped, TablesTyped, Points
  <1>2. SentTyped' /\ Routing'
    BY RoutingKept DEF TypeOK, SentTyped, hubVars
  <1>3. TablesTyped'
    BY DEF TypeOK, TablesTyped, ConnsTyped, hubVars, Devices
  <1>4. RegistryTyped' /\ WindowsTyped' /\ WindowsHeld'
    BY DEF TypeOK, RegistryTyped, WindowsTyped, WindowsHeld, regVars, wakeVars, pairVars,
        Pairs!Phases
  <1>5. PointsMean'
    BY <1>1, <1>3 DEF TypeOK, ConnsTyped, TablesTyped, RegistryTyped, LocalsMean, PointsMean,
        SidPoints, AgentConns, ClientConns, hubVars, NoParties
  <1>6. TablesOwn' /\ SessionsNamed'
    BY <1>1, <1>3 DEF TypeOK, TablesTyped, ConnsTyped, TablesOwn, SessionsNamed, NoParties, hubVars
  <1>7. SessionOwned'
    BY <1>1, <1>3 DEF TypeOK, ConnsTyped, TablesTyped, AnswersFor, SessionOwned, hubVars
  <1> QED
    BY <1>1, <1>2, <1>3, <1>4, <1>5, <1>6, <1>7 DEF TypeOK

\* onPairPublish drops the PC's old window when there is no room for another.
LEMMA PairPublishRefusedKeeps ==
    ASSUME HubInv, NEW c \in Conns, PairPublishRefused(c), UNCHANGED scenario
    PROVE  HubInv'
  <1> USE HubAssumption DEF PairPublishRefused, HubInv
  <1>1. ConnsTyped'
    BY DEF TypeOK, ConnsTyped, TablesTyped, Points, AgentConns, connVars
  <1>2. SentTyped' /\ Routing'
    BY RoutingKept DEF TypeOK, SentTyped, connVars, hubVars
  <1>3. TablesTyped'
    BY DEF TypeOK, TablesTyped, ConnsTyped, hubVars, Devices, AgentConns
  <1>4. RegistryTyped' /\ WindowsTyped' /\ WindowsHeld'
    BY DEF TypeOK, RegistryTyped, WindowsTyped, WindowsHeld, regVars, wakeVars, AgentConns,
        Pairs!Close, Pairs!Phases
  <1>5. PointsMean'
    BY <1>1, <1>3 DEF TypeOK, ConnsTyped, TablesTyped, RegistryTyped, LocalsMean, PointsMean,
        SidPoints, AgentConns, ClientConns, connVars, hubVars, NoParties, Serving
  <1>6. TablesOwn' /\ SessionsNamed'
    BY <1>1, <1>3 DEF TypeOK, TablesTyped, ConnsTyped, TablesOwn, SessionsNamed, NoParties,
        AgentConns, hubVars
  <1>7. SessionOwned'
    BY <1>1, <1>3 DEF TypeOK, ConnsTyped, TablesTyped, AnswersFor, SessionOwned, AgentConns,
        connVars, hubVars
  <1> QED
    BY <1>1, <1>2, <1>3, <1>4, <1>5, <1>6, <1>7 DEF TypeOK

\* pair.revoke closes the PC's window.
LEMMA PairRevokeKeeps ==
    ASSUME HubInv, NEW c \in Conns, PairRevoke(c), UNCHANGED scenario
    PROVE  HubInv'
  <1> USE HubAssumption DEF PairRevoke, HubInv
  <1>1. ConnsTyped'
    BY DEF TypeOK, ConnsTyped, TablesTyped, Points, AgentConns, connVars
  <1>2. SentTyped' /\ Routing'
    BY RoutingKept DEF TypeOK, SentTyped, connVars, hubVars
  <1>3. TablesTyped'
    BY DEF TypeOK, TablesTyped, ConnsTyped, hubVars, Devices, AgentConns
  <1>4. RegistryTyped' /\ WindowsTyped' /\ WindowsHeld'
    BY DEF TypeOK, RegistryTyped, WindowsTyped, WindowsHeld, regVars, wakeVars, AgentConns,
        Pairs!Close, Pairs!Phases
  <1>5. PointsMean'
    BY <1>1, <1>3 DEF TypeOK, ConnsTyped, TablesTyped, RegistryTyped, LocalsMean, PointsMean,
        SidPoints, AgentConns, ClientConns, connVars, hubVars, NoParties, Serving
  <1>6. TablesOwn' /\ SessionsNamed'
    BY <1>1, <1>3 DEF TypeOK, TablesTyped, ConnsTyped, TablesOwn, SessionsNamed, NoParties,
        AgentConns, hubVars
  <1>7. SessionOwned'
    BY <1>1, <1>3 DEF TypeOK, ConnsTyped, TablesTyped, AnswersFor, SessionOwned, AgentConns,
        connVars, hubVars
  <1> QED
    BY <1>1, <1>2, <1>3, <1>4, <1>5, <1>6, <1>7 DEF TypeOK

\* addSession: the new session is owned by the connection that asked for it.
LEMMA IntroduceKeeps ==
    ASSUME HubInv, NEW c \in Conns, NEW s \in Sids, Introduce(c, s), UNCHANGED scenario
    PROVE  HubInv'
  <1> USE HubAssumption DEF Introduce, HubInv
  <1>a. loc[c] \in Locals /\ Dev[c] \in Clients /\ loc[c].dev \in Agents
    <2>1. c \in ClientConns /\ loc[c].dev \in Agents
      BY DEF PointsMean, LocalsMean
    <2> QED
      BY <2>1 DEF TypeOK, ConnsTyped, ClientConns, AgentConns
  <1>b. [loc[c] EXCEPT !.sid = s] \in Locals /\ "bind" \in Points
    BY <1>a, LocalsTyped DEF Points
  <1>c. GoTo(c, "bind", [loc[c] EXCEPT !.sid = s])
    OBVIOUS
  <1>1. ConnsTyped'
    BY <1>a, <1>b, <1>c, GoToTyped DEF TypeOK, ConnsTyped, connVars
  <1>2. SentTyped' /\ Routing'
    BY RoutingKept DEF TypeOK, SentTyped
  <1>3. TablesTyped'
    BY <1>a DEF TypeOK, TablesTyped
  <1>4. RegistryTyped' /\ WindowsTyped' /\ WindowsHeld'
    BY DEF TypeOK, RegistryTyped, WindowsTyped, WindowsHeld, regVars, wakeVars, pairVars,
        Pairs!Phases
  <1>5. PointsMean'
    BY <1>1, <1>3 DEF TypeOK, ConnsTyped, TablesTyped, RegistryTyped, LocalsMean, PointsMean,
        SidPoints, GoTo, AgentConns, ClientConns, NoParties
  <1>6. TablesOwn' /\ SessionsNamed'
    BY <1>1, <1>3 DEF TypeOK, TablesTyped, ConnsTyped, TablesOwn, SessionsNamed, LocalsMean,
        PointsMean, NoParties, ClientConns, AgentConns, hubVars, EndSession, Devices
  <1>7. SessionOwned'
    BY <1>1, <1>3 DEF TypeOK, ConnsTyped, TablesTyped, AnswersFor, SessionOwned, GoTo, NoParties
  <1> QED
    BY <1>1, <1>2, <1>3, <1>4, <1>5, <1>6, <1>7 DEF TypeOK

\* onConnect looks up the connection of the PC it is asked for.
LEMMA ConnectKeeps ==
    ASSUME HubInv, NEW c \in Conns, NEW a \in Agents, Connect(c, a), UNCHANGED scenario
    PROVE  HubInv'
  <1> USE HubAssumption DEF Connect, HubInv
  <1>a. agents[a] \in Conns /\ a \in Devices /\ Dev[agents[a]] = a
    BY DEF TypeOK, ConnsTyped, TablesTyped, RegistryTyped, WindowsTyped, PointsMean, LocalsMean,
        SidPoints, Devices, ClientConns, AgentConns, TablesOwn
  <1>b. [NoLocals EXCEPT !.peer = agents[a], !.dev = a] \in Locals /\ "introduce" \in Points
    BY <1>a, LocalsTyped DEF Points
  <1>c. GoTo(c, "introduce", [NoLocals EXCEPT !.peer = agents[a], !.dev = a])
    BY DEF Finish
  <1>1. ConnsTyped'
    BY <1>a, <1>b, <1>c, GoToTyped DEF TypeOK, ConnsTyped, connVars
  <1>2. SentTyped' /\ Routing'
    BY RoutingKept DEF TypeOK, SentTyped, hubVars
  <1>3. TablesTyped'
    BY DEF TypeOK, TablesTyped, ConnsTyped, hubVars, Devices, ClientConns, AgentConns
  <1>4. RegistryTyped' /\ WindowsTyped' /\ WindowsHeld'
    BY DEF TypeOK, RegistryTyped, WindowsTyped, WindowsHeld, regVars, wakeVars, pairVars,
        ClientConns, AgentConns, Pairs!Phases
  <1>5. PointsMean'
    BY <1>1, <1>3 DEF TypeOK, ConnsTyped, TablesTyped, RegistryTyped, LocalsMean, PointsMean,
        TablesOwn, SessionsNamed, SidPoints, GoTo, Finish, Locals, NoLocals, Points, AgentConns,
        ClientConns, Devices, AfterPresence, connVars, hubVars, EndSession, MayEnd, NoParties,
        Serving
  <1>6. TablesOwn' /\ SessionsNamed'
    BY <1>1, <1>3 DEF TypeOK, TablesTyped, ConnsTyped, TablesOwn, SessionsNamed, NoParties,
        ClientConns, AgentConns, hubVars
  <1>7. SessionOwned'
    BY <1>b, <1>c, HandlersKeepOwners DEF Sweeping, connVars, hubVars, Serving
  <1> QED
    BY <1>1, <1>2, <1>3, <1>4, <1>5, <1>6, <1>7 DEF TypeOK

\* onSignal reads a session the sender is a party of.
LEMMA SignalKeeps ==
    ASSUME HubInv, NEW c \in Conns, NEW s \in Sids, Signal(c, s), UNCHANGED scenario
    PROVE  HubInv'
  <1> USE HubAssumption DEF Signal, HubInv
  <1>a. parties[s] # NoParties
    BY DEF SessionsNamed
  <1>b. [NoLocals EXCEPT !.sid = s] \in Locals /\ "relay" \in Points
    BY <1>a, LocalsTyped DEF Points
  <1>c. GoTo(c, "relay", [NoLocals EXCEPT !.sid = s])
    BY DEF Finish
  <1>1. ConnsTyped'
    BY <1>a, <1>b, <1>c, GoToTyped DEF TypeOK, ConnsTyped, connVars
  <1>2. SentTyped' /\ Routing'
    BY RoutingKept DEF TypeOK, SentTyped, hubVars
  <1>3. TablesTyped'
    BY DEF TypeOK, TablesTyped, ConnsTyped, hubVars, Devices
  <1>4. RegistryTyped' /\ WindowsTyped' /\ WindowsHeld'
    BY DEF TypeOK, RegistryTyped, WindowsTyped, WindowsHeld, regVars, wakeVars, pairVars,
        Pairs!Phases
  <1>5. PointsMean'
    BY <1>1, <1>3 DEF TypeOK, ConnsTyped, TablesTyped, RegistryTyped, LocalsMean, PointsMean,
        SidPoints, GoTo, NoLocals, AgentConns, ClientConns, hubVars, NoParties, Serving
  <1>6. TablesOwn' /\ SessionsNamed'
    BY <1>1, <1>3 DEF TypeOK, TablesTyped, ConnsTyped, TablesOwn, SessionsNamed, NoParties, hubVars
  <1>7. SessionOwned'
    BY <1>b, <1>c, HandlersKeepOwners DEF Sweeping, connVars, hubVars, Serving
  <1> QED
    BY <1>1, <1>2, <1>3, <1>4, <1>5, <1>6, <1>7 DEF TypeOK

\* onSessionEnd ends a session: it no longer needs an owner.
LEMMA SessionEndKeeps ==
    ASSUME HubInv, NEW c \in Conns, NEW s \in Sids, SessionEnd(c, s), UNCHANGED scenario
    PROVE  HubInv'
  <1> USE HubAssumption DEF SessionEnd, HubInv
  <1>a. Dev[c] \in Devices /\ parties[s] # NoParties
    BY DEF TypeOK, ConnsTyped, TablesTyped, RegistryTyped, WindowsTyped, PointsMean, LocalsMean,
        SidPoints, Devices, ClientConns, AgentConns, MayEnd, SessionsNamed
  <1>b. [NoLocals EXCEPT !.sid = s, !.dev = Dev[c]] \in Locals /\ "announce" \in Points
    BY <1>a, LocalsTyped DEF Points
  <1>c. GoTo(c, "announce", [NoLocals EXCEPT !.sid = s, !.dev = Dev[c]])
    BY DEF Finish
  <1>1. ConnsTyped'
    BY <1>a, <1>b, <1>c, GoToTyped DEF TypeOK, ConnsTyped, connVars
  <1>2. SentTyped' /\ Routing'
    BY RoutingKept DEF TypeOK, SentTyped
  <1>3. TablesTyped'
    BY DEF TypeOK, TablesTyped, ConnsTyped, EndSession, MayEnd, Devices
  <1>4. RegistryTyped' /\ WindowsTyped' /\ WindowsHeld'
    BY DEF TypeOK, RegistryTyped, WindowsTyped, WindowsHeld, regVars, wakeVars, pairVars,
        Pairs!Phases
  <1>5. PointsMean'
    BY <1>1, <1>3 DEF TypeOK, ConnsTyped, TablesTyped, RegistryTyped, LocalsMean, PointsMean,
        SidPoints, GoTo, NoLocals, AgentConns, ClientConns, EndSession, MayEnd, NoParties, Serving
  <1>6. TablesOwn' /\ SessionsNamed'
    BY <1>1, <1>3 DEF TypeOK, TablesTyped, ConnsTyped, TablesOwn, SessionsNamed, NoParties,
        EndSession
  <1>7. SessionOwned'
    <2>1. [NoLocals EXCEPT !.sid = s, !.dev = Dev[c]].then = "serve"
      BY DEF NoLocals
    <2> QED
      BY <2>1, <1>b, <1>c, HandlersKeepOwners DEF Sweeping, EndSession, Serving
  <1> QED
    BY <1>1, <1>2, <1>3, <1>4, <1>5, <1>6, <1>7 DEF TypeOK

\* onAgentRegister rewrites the registry and the busy flag of a PC.
LEMMA RegisterKeeps ==
    ASSUME HubInv, NEW c \in Conns, NEW list \in SUBSET Clients, NEW b \in BOOLEAN,
           Register(c, list, b), UNCHANGED scenario
    PROVE  HubInv'
  <1> USE HubAssumption DEF Register, HubInv
  <1>a. Dev[c] \in Agents /\ Dev[c] \in Devices
    BY DEF TypeOK, ConnsTyped, TablesTyped, RegistryTyped, WindowsTyped, PointsMean, LocalsMean,
        SidPoints, Devices, ClientConns, AgentConns
  <1>b. [NoLocals EXCEPT !.dev = Dev[c], !.then = "take"] \in Locals /\ "compute" \in Points
    BY <1>a, LocalsTyped DEF Points
  <1>c. GoTo(c, "compute", [NoLocals EXCEPT !.dev = Dev[c], !.then = "take"])
    BY DEF Finish
  <1>1. ConnsTyped'
    BY <1>a, <1>b, <1>c, GoToTyped DEF TypeOK, ConnsTyped, connVars
  <1>2. SentTyped' /\ Routing'
    BY RoutingKept DEF TypeOK, SentTyped, hubVars
  <1>3. TablesTyped'
    BY DEF TypeOK, TablesTyped, ConnsTyped, hubVars, Devices, AgentConns
  <1>4. RegistryTyped' /\ WindowsTyped' /\ WindowsHeld'
    BY DEF TypeOK, RegistryTyped, WindowsTyped, WindowsHeld, wakeVars, pairVars, AgentConns,
        Pairs!Phases
  <1>5. PointsMean'
    BY <1>1, <1>3 DEF TypeOK, ConnsTyped, TablesTyped, RegistryTyped, LocalsMean, PointsMean,
        SidPoints, GoTo, NoLocals, AgentConns, ClientConns, hubVars, NoParties, Serving
  <1>6. TablesOwn' /\ SessionsNamed'
    BY <1>1, <1>3 DEF TypeOK, TablesTyped, ConnsTyped, TablesOwn, SessionsNamed, NoParties,
        AgentConns, hubVars
  <1>7. SessionOwned'
    BY <1>b, <1>c, HandlersKeepOwners DEF Sweeping, connVars, hubVars, Serving
  <1> QED
    BY <1>1, <1>2, <1>3, <1>4, <1>5, <1>6, <1>7 DEF TypeOK

\* onAgentUpdate rewrites the busy flag of a PC.
LEMMA UpdateKeeps ==
    ASSUME HubInv, NEW c \in Conns, NEW b \in BOOLEAN, Update(c, b), UNCHANGED scenario
    PROVE  HubInv'
  <1> USE HubAssumption DEF Update, HubInv
  <1>a. Dev[c] \in Agents /\ Dev[c] \in Devices
    BY DEF TypeOK, ConnsTyped, TablesTyped, RegistryTyped, WindowsTyped, PointsMean, LocalsMean,
        SidPoints, Devices, ClientConns, AgentConns
  <1>b. [NoLocals EXCEPT !.dev = Dev[c], !.then = "serve"] \in Locals /\ "compute" \in Points
    BY <1>a, LocalsTyped DEF Points
  <1>c. GoTo(c, "compute", [NoLocals EXCEPT !.dev = Dev[c], !.then = "serve"])
    BY DEF Finish
  <1>1. ConnsTyped'
    BY <1>a, <1>b, <1>c, GoToTyped DEF TypeOK, ConnsTyped, connVars
  <1>2. SentTyped' /\ Routing'
    BY RoutingKept DEF TypeOK, SentTyped, hubVars
  <1>3. TablesTyped'
    BY DEF TypeOK, TablesTyped, ConnsTyped, hubVars, Devices, AgentConns
  <1>4. RegistryTyped' /\ WindowsTyped' /\ WindowsHeld'
    BY DEF TypeOK, RegistryTyped, WindowsTyped, WindowsHeld, regVars, wakeVars, pairVars,
        AgentConns, Pairs!Phases
  <1>5. PointsMean'
    BY <1>1, <1>3 DEF TypeOK, ConnsTyped, TablesTyped, RegistryTyped, LocalsMean, PointsMean,
        SidPoints, GoTo, NoLocals, AgentConns, ClientConns, hubVars, NoParties, Serving
  <1>6. TablesOwn' /\ SessionsNamed'
    BY <1>1, <1>3 DEF TypeOK, TablesTyped, ConnsTyped, TablesOwn, SessionsNamed, NoParties,
        AgentConns, hubVars
  <1>7. SessionOwned'
    BY <1>b, <1>c, HandlersKeepOwners DEF Sweeping, connVars, hubVars, Serving
  <1> QED
    BY <1>1, <1>2, <1>3, <1>4, <1>5, <1>6, <1>7 DEF TypeOK

\* onWake finds the PC offline.
LEMMA WakeKeeps ==
    ASSUME HubInv, NEW c \in Conns, NEW a \in Agents, Wake(c, a), UNCHANGED scenario
    PROVE  HubInv'
  <1> USE HubAssumption DEF Wake, HubInv
  <1>a. a \in Devices
    BY DEF TypeOK, ConnsTyped, TablesTyped, RegistryTyped, WindowsTyped, PointsMean, LocalsMean,
        SidPoints, Devices, ClientConns, AgentConns
  <1>b. [NoLocals EXCEPT !.dev = a] \in Locals /\ "arm" \in Points
    BY <1>a, LocalsTyped DEF Points
  <1>c. GoTo(c, "arm", [NoLocals EXCEPT !.dev = a])
    BY DEF Finish
  <1>1. ConnsTyped'
    BY <1>a, <1>b, <1>c, GoToTyped DEF TypeOK, ConnsTyped, connVars
  <1>2. SentTyped' /\ Routing'
    BY RoutingKept DEF TypeOK, SentTyped, hubVars
  <1>3. TablesTyped'
    BY DEF TypeOK, TablesTyped, ConnsTyped, hubVars, Devices, ClientConns, AgentConns
  <1>4. RegistryTyped' /\ WindowsTyped' /\ WindowsHeld'
    BY DEF TypeOK, RegistryTyped, WindowsTyped, WindowsHeld, regVars, wakeVars, pairVars,
        ClientConns, AgentConns, Pairs!Phases
  <1>5. PointsMean'
    BY <1>1, <1>3 DEF TypeOK, ConnsTyped, TablesTyped, RegistryTyped, LocalsMean, PointsMean,
        SidPoints, GoTo, NoLocals, AgentConns, ClientConns, hubVars, NoParties, Serving
  <1>6. TablesOwn' /\ SessionsNamed'
    BY <1>1, <1>3 DEF TypeOK, TablesTyped, ConnsTyped, TablesOwn, SessionsNamed, NoParties,
        ClientConns, AgentConns, hubVars
  <1>7. SessionOwned'
    BY <1>b, <1>c, HandlersKeepOwners DEF Sweeping, connVars, hubVars, Serving
  <1> QED
    BY <1>1, <1>2, <1>3, <1>4, <1>5, <1>6, <1>7 DEF TypeOK

\* onForgetDevice takes the client off the PC's list.
LEMMA ForgetKeeps ==
    ASSUME HubInv, NEW c \in Conns, NEW a \in Agents, Forget(c, a), UNCHANGED scenario
    PROVE  HubInv'
  <1> USE HubAssumption DEF Forget, HubInv
  <1>a. a \in Devices
    BY DEF TypeOK, ConnsTyped, TablesTyped, RegistryTyped, WindowsTyped, PointsMean, LocalsMean,
        SidPoints, Devices, ClientConns, AgentConns
  <1>b. [NoLocals EXCEPT !.dev = a] \in Locals /\ "forget" \in Points
    BY <1>a, LocalsTyped DEF Points
  <1>c. GoTo(c, "forget", [NoLocals EXCEPT !.dev = a])
    BY DEF Finish
  <1>1. ConnsTyped'
    BY <1>a, <1>b, <1>c, GoToTyped DEF TypeOK, ConnsTyped, connVars
  <1>2. SentTyped' /\ Routing'
    BY RoutingKept DEF TypeOK, SentTyped, hubVars
  <1>3. TablesTyped'
    BY DEF TypeOK, TablesTyped, ConnsTyped, hubVars, Devices, ClientConns, AgentConns
  <1>4. RegistryTyped' /\ WindowsTyped' /\ WindowsHeld'
    BY DEF TypeOK, RegistryTyped, WindowsTyped, WindowsHeld, wakeVars, pairVars, ClientConns,
        AgentConns, Pairs!Phases
  <1>5. PointsMean'
    BY <1>1, <1>3 DEF TypeOK, ConnsTyped, TablesTyped, RegistryTyped, LocalsMean, PointsMean,
        SidPoints, GoTo, NoLocals, AgentConns, ClientConns, hubVars, NoParties, Serving
  <1>6. TablesOwn' /\ SessionsNamed'
    BY <1>1, <1>3 DEF TypeOK, TablesTyped, ConnsTyped, TablesOwn, SessionsNamed, NoParties,
        ClientConns, AgentConns, hubVars
  <1>7. SessionOwned'
    BY <1>b, <1>c, HandlersKeepOwners DEF Sweeping, connVars, hubVars, Serving
  <1> QED
    BY <1>1, <1>2, <1>3, <1>4, <1>5, <1>6, <1>7 DEF TypeOK

\* onPairPublish opens a window of the PC.
LEMMA PairPublishKeeps ==
    ASSUME HubInv, NEW c \in Conns, NEW d \in Codes, PairPublish(c, d), UNCHANGED scenario
    PROVE  HubInv'
  <1> USE HubAssumption DEF PairPublish, HubInv
  <1>1. ConnsTyped'
    BY DEF TypeOK, ConnsTyped, TablesTyped, Points, AgentConns, connVars
  <1>2. SentTyped' /\ Routing'
    BY RoutingKept DEF TypeOK, SentTyped, connVars, hubVars
  <1>3. TablesTyped'
    BY DEF TypeOK, TablesTyped, ConnsTyped, hubVars, Devices, AgentConns
  <1>4. RegistryTyped' /\ WindowsTyped' /\ WindowsHeld'
    BY DEF TypeOK, RegistryTyped, WindowsTyped, WindowsHeld, regVars, wakeVars, AgentConns,
        Pairs!Open, Pairs!Phases
  <1>5. PointsMean'
    BY <1>1, <1>3 DEF TypeOK, ConnsTyped, TablesTyped, RegistryTyped, LocalsMean, PointsMean,
        SidPoints, AgentConns, ClientConns, connVars, hubVars, NoParties, Serving
  <1>6. TablesOwn' /\ SessionsNamed'
    BY <1>1, <1>3 DEF TypeOK, TablesTyped, ConnsTyped, TablesOwn, SessionsNamed, NoParties,
        AgentConns, hubVars
  <1>7. SessionOwned'
    BY <1>1, <1>3 DEF TypeOK, ConnsTyped, TablesTyped, AnswersFor, SessionOwned, AgentConns,
        connVars, hubVars
  <1> QED
    BY <1>1, <1>2, <1>3, <1>4, <1>5, <1>6, <1>7 DEF TypeOK

\* onPairSubmit spends the code and tells the PC that opened it.
LEMMA PairSubmitKeeps ==
    ASSUME HubInv, NEW c \in Conns, NEW d \in Codes, PairSubmit(c, d), UNCHANGED scenario
    PROVE  HubInv'
  <1> USE HubAssumption DEF PairSubmit, HubInv
  <1>a. Dev[c] \in Devices /\ holder[d] \in Agents
    BY DEF Devices, WindowsHeld, Pairs!Try
  <1>1. ConnsTyped'
    BY DEF TypeOK, ConnsTyped, TablesTyped, Points, AgentConns, ClientConns
  <1>2. SentTyped' /\ Routing'
    <2> DEFINE f == <<"submit", Dev[c]>>
    <2>1. f \in Notices
      BY <1>a, NoticesTyped
    <2>2. ToAgent(holder[d], f) \in SUBSET (Conns \X Notices)
      BY <1>a, <2>1, SendsTyped DEF TypeOK
    <2> QED
      BY <2>2, NoticesKept DEF TypeOK, hubVars
  <1>3. TablesTyped'
    BY DEF TypeOK, TablesTyped, ConnsTyped, hubVars, Devices, ClientConns, AgentConns
  <1>4. RegistryTyped' /\ WindowsTyped' /\ WindowsHeld'
    BY DEF TypeOK, RegistryTyped, WindowsTyped, WindowsHeld, regVars, wakeVars, ClientConns,
        AgentConns, Pairs!Try, Pairs!Phases
  <1>5. PointsMean'
    BY <1>1, <1>3 DEF TypeOK, ConnsTyped, TablesTyped, RegistryTyped, LocalsMean, PointsMean,
        SidPoints, AgentConns, ClientConns, hubVars, NoParties, Serving
  <1>6. TablesOwn' /\ SessionsNamed'
    BY <1>1, <1>3 DEF TypeOK, TablesTyped, ConnsTyped, TablesOwn, SessionsNamed, NoParties,
        ClientConns, AgentConns, hubVars
  <1>7. SessionOwned'
    BY <1>1, <1>3 DEF TypeOK, ConnsTyped, TablesTyped, AnswersFor, SessionOwned, AgentConns,
        ClientConns, hubVars
  <1> QED
    BY <1>1, <1>2, <1>3, <1>4, <1>5, <1>6, <1>7 DEF TypeOK

\* onPairResult passes on the verdict: no signal is sent.
LEMMA PairResultKeeps ==
    ASSUME HubInv, NEW c \in Conns, NEW k \in Clients, NEW ok \in BOOLEAN,
           PairResult(c, k, ok), UNCHANGED scenario
    PROVE  HubInv'
  <1> USE HubAssumption DEF PairResult, HubInv
  <1>1. ConnsTyped'
    BY DEF TypeOK, ConnsTyped, TablesTyped, Points, AgentConns
  <1>2. SentTyped' /\ Routing'
    <2>1. ToClient(k, <<"verdict", Dev[c]>>) \in SUBSET (Conns \X Notices)
      BY NoticesTyped, SendsTyped DEF TypeOK, Devices
    <2> QED
      BY <2>1, NoticesKept DEF TypeOK, hubVars
  <1>3. TablesTyped'
    BY DEF TypeOK, TablesTyped, ConnsTyped, hubVars, Devices, AgentConns
  <1>4. RegistryTyped' /\ WindowsTyped' /\ WindowsHeld'
    BY DEF TypeOK, RegistryTyped, WindowsTyped, WindowsHeld, regVars, wakeVars, pairVars,
        AgentConns, Pairs!Close, Pairs!Phases
  <1>5. PointsMean'
    BY <1>1, <1>3 DEF TypeOK, ConnsTyped, TablesTyped, RegistryTyped, LocalsMean, PointsMean,
        SidPoints, AgentConns, ClientConns, hubVars, NoParties, Serving
  <1>6. TablesOwn' /\ SessionsNamed'
    BY <1>1, <1>3 DEF TypeOK, TablesTyped, ConnsTyped, TablesOwn, SessionsNamed, NoParties,
        AgentConns, hubVars
  <1>7. SessionOwned'
    BY <1>1, <1>3 DEF TypeOK, ConnsTyped, TablesTyped, AnswersFor, SessionOwned, AgentConns, hubVars
  <1> QED
    BY <1>1, <1>2, <1>3, <1>4, <1>5, <1>6, <1>7 DEF TypeOK

\* A pending wake runs out.
LEMMA WakeExpiresKeeps ==
    ASSUME HubInv, NEW a \in Agents, WakeExpires(a), UNCHANGED scenario
    PROVE  HubInv'
  <1> USE DEF WakeExpires, HubInv, TypeOK, connVars, hubVars
  <1>1. ConnsTyped' /\ SentTyped' /\ TablesTyped' /\ scenario' \in Scenarios
    BY DEF ConnsTyped, SentTyped, TablesTyped
  <1>2. RegistryTyped'
    BY DEF RegistryTyped, wakeVars, regVars
  <1>3. WindowsTyped' /\ WindowsHeld'
    BY DEF WindowsTyped, WindowsHeld, pairVars, Pairs!Close, Pairs!Phases, Pairs!Held
  <1>4. PointsMean' /\ TablesOwn' /\ SessionsNamed'
    BY DEF PointsMean, LocalsMean, TablesOwn, SessionsNamed
  <1>5. SessionOwned'
    BY DEF SessionOwned, AnswersFor
  <1>6. Routing'
    BY RoutingKept
  <1> QED
    BY <1>1, <1>2, <1>3, <1>4, <1>5, <1>6

\* A window runs out.
LEMMA PairExpiresKeeps ==
    ASSUME HubInv, NEW d \in Codes, PairExpires(d), UNCHANGED scenario
    PROVE  HubInv'
  <1> USE DEF PairExpires, HubInv, TypeOK, connVars, hubVars
  <1>1. ConnsTyped' /\ SentTyped' /\ TablesTyped' /\ scenario' \in Scenarios
    BY DEF ConnsTyped, SentTyped, TablesTyped
  <1>2. RegistryTyped'
    BY DEF RegistryTyped, wakeVars, regVars
  <1>3. WindowsTyped' /\ WindowsHeld'
    BY DEF WindowsTyped, WindowsHeld, pairVars, Pairs!Close, Pairs!Phases, Pairs!Held
  <1>4. PointsMean' /\ TablesOwn' /\ SessionsNamed'
    BY DEF PointsMean, LocalsMean, TablesOwn, SessionsNamed
  <1>5. SessionOwned'
    BY DEF SessionOwned, AnswersFor
  <1>6. Routing'
    BY RoutingKept
  <1> QED
    BY <1>1, <1>2, <1>3, <1>4, <1>5, <1>6

-----------------------------------------------------------------------------
(* The theorems.                                                           *)

\* The invariant holds in the beginning.
LEMMA InitHolds == Init => HubInv
  <1> SUFFICES ASSUME Init PROVE HubInv
    OBVIOUS
  <1> USE HubAssumption DEF Init, HubInv, TypeOK
  <1>1. ConnsTyped
    <2>1. NoLocals \in Locals
      BY LocalsTyped
    <2> QED
      BY <2>1 DEF ConnsTyped, Points
  <1>2. SentTyped /\ TablesTyped /\ RegistryTyped
    BY DEF SentTyped, TablesTyped, RegistryTyped, Presences, NoParties
  <1>3. WindowsTyped /\ WindowsHeld
    BY DEF WindowsTyped, WindowsHeld, Pairs!Init, Pairs!Phases
  <1>4. PointsMean /\ TablesOwn /\ SessionsNamed
    BY DEF PointsMean, LocalsMean, TablesOwn, SessionsNamed, SidPoints
  <1>5. SessionOwned /\ Routing
    BY DEF SessionOwned, Routing
  <1> QED
    BY <1>1, <1>2, <1>3, <1>4, <1>5

\* Every step keeps it.
LEMMA NextKeeps == HubInv /\ [Next]_vars => HubInv'
  <1> SUFFICES ASSUME HubInv, [Next]_vars PROVE HubInv'
    OBVIOUS
  <1>1. scenario.conns \subseteq Conns
    BY HubAssumption DEF HubInv, TypeOK
  <1>2. ASSUME NEW c \in scenario.conns, Step(c), UNCHANGED scenario
        PROVE  HubInv'
    BY <1>1, <1>2,
       DetachKeeps, SnapshotKeeps, SweepKeeps, SweepDoneKeeps, AnnounceKeeps,
       IntroduceKeeps, NoSessionKeeps, BindAgentKeeps, OfferAgentKeeps,
       ReplyClientKeeps, RelayKeeps, ComputeKeeps, PresentKeeps,
       TakeWakeKeeps, ArmKeeps, ForgetTellKeeps
    DEF Step
  <1>3. ASSUME NEW c \in scenario.conns, Environment(c), UNCHANGED scenario
        PROVE  HubInv'
    BY <1>1, <1>3,
       AttachAgentKeeps, AttachClientKeeps, ReadEndsKeeps, CancelKeeps,
       ConnectKeeps, SignalKeeps, SessionEndKeeps, RegisterKeeps, UpdateKeeps,
       WakeKeeps, ForgetKeeps, PairPublishKeeps, PairSubmitKeeps,
       PairPublishRefusedKeeps, PairRevokeKeeps, PairResultKeeps
    DEF Environment, Lists, BusyFlags, CloseReplaced
  <1>4. ASSUME NEW a \in Agents, WakeExpires(a), UNCHANGED scenario
        PROVE  HubInv'
    BY <1>4, WakeExpiresKeeps
  <1>5. ASSUME NEW d \in Codes, PairExpires(d), UNCHANGED scenario
        PROVE  HubInv'
    BY <1>5, PairExpiresKeeps
  <1>6. ASSUME UNCHANGED vars
        PROVE  HubInv'
    <2> USE <1>6 DEF vars, connVars, hubVars, wakeVars, regVars, pairVars, HubInv, TypeOK
    <2>1. ConnsTyped' /\ SentTyped' /\ TablesTyped' /\ RegistryTyped' /\ WindowsTyped'
      BY DEF ConnsTyped, SentTyped, TablesTyped, RegistryTyped, WindowsTyped
    <2>2. PointsMean' /\ TablesOwn' /\ SessionsNamed' /\ WindowsHeld'
      BY DEF PointsMean, LocalsMean, TablesOwn, SessionsNamed, WindowsHeld
    <2>3. SessionOwned' /\ Routing'
      BY DEF SessionOwned, AnswersFor, Routing
    <2> QED
      BY <2>1, <2>2, <2>3
  <1> QED
    BY <1>2, <1>3, <1>4, <1>5, <1>6 DEF Next

\* For any devices, connections and session ids, every reachable state of the
\* hub satisfies the inductive invariant.
THEOREM HubInvariant == Spec => []HubInv
  <1>1. Init => HubInv
    BY InitHolds
  <1>2. HubInv /\ [Next]_vars => HubInv'
    BY NextKeeps
  <1> QED
    BY <1>1, <1>2, PTL DEF Spec

\* Every variable keeps its type: no handler leaves a dangling local, a frame
\* of an unknown shape or a table entry for a foreign device.
THEOREM HubTyped == Spec => []TypeOK
  <1>1. HubInv => TypeOK
    BY DEF HubInv
  <1> QED
    BY <1>1, HubInvariant, PTL

\* Every session in the table is on the list of a connection of its client, so
\* losing the client's connections tears it down (detach, endSession).
THEOREM SessionsAreOwned == Spec => []SessionOwned
  <1>1. HubInv => SessionOwned
    BY DEF HubInv
  <1> QED
    BY <1>1, HubInvariant, PTL

\* onSignal forwards a signal only between the two parties of its session,
\* however often they reconnect and whatever ends in between.
THEOREM SignalsAreRouted == Spec => []Routing
  <1>1. HubInv => Routing
    BY DEF HubInv
  <1> QED
    BY <1>1, HubInvariant, PTL

\* A step introduces one unused id or adds none to the table.
LEMMA NextIntroduces ==
    ASSUME HubInv, [Next]_vars
    PROVE  \/ UNCHANGED parties /\ sessions' \subseteq sessions
           \/ \E s \in Sids : /\ parties[s] = NoParties
                              /\ \A r \in Sids \ {s} : parties'[r] = parties[r]
                              /\ sessions' = sessions \cup {s}
  <1>1. ASSUME NEW c \in scenario.conns, NEW s \in Sids, Introduce(c, s)
        PROVE  /\ parties[s] = NoParties
               /\ \A r \in Sids \ {s} : parties'[r] = parties[r]
               /\ sessions' = sessions \cup {s}
    BY <1>1 DEF Introduce, HubInv, TypeOK, TablesTyped
  <1>2. ASSUME NEW c \in scenario.conns,
               Step(c), ~\E s \in Sids : Introduce(c, s)
        PROVE  UNCHANGED parties /\ sessions' \subseteq sessions
    BY <1>2 DEF Step, Detach, Snapshot, Sweep, SweepDone, Announce, NoSession, BindAgent,
       OfferAgent, ReplyClient, Relay, Compute, Present, TakeWake, Arm, ForgetTell,
       hubVars, EndSession
  <1>3. ASSUME NEW c \in scenario.conns, Environment(c)
        PROVE  UNCHANGED parties /\ sessions' \subseteq sessions
    BY <1>3 DEF Environment, AttachAgent, AttachClient, ReadEnds, Cancel, CloseReplaced,
       Connect, Signal, SessionEnd, Register, Update, Wake, Forget, PairPublish,
       PairSubmit, PairPublishRefused, PairRevoke, PairResult, hubVars, EndSession
  <1>4. ASSUME \/ \E a \in Agents : WakeExpires(a)
               \/ \E d \in Codes : PairExpires(d)
               \/ UNCHANGED vars
        PROVE  UNCHANGED parties /\ sessions' \subseteq sessions
    BY <1>4 DEF WakeExpires, PairExpires, vars, hubVars
  <1> QED
    BY <1>1, <1>2, <1>3, <1>4 DEF Next

\* A session id is never drawn twice, never changes its parties, and never
\* returns to the table once its session has ended (newSessionID, endSession).
THEOREM SessionIdsAreSingleUse == Spec => SingleUse
  <1>1. ASSUME HubInv, [Next]_vars
        PROVE  [\A s \in Sids : parties[s] # NoParties =>
                   /\ parties'[s] = parties[s]
                   /\ s \notin sessions => s \notin sessions']_vars
    BY <1>1, NextIntroduces
  <1> QED
    BY <1>1, HubInvariant, PTL DEF Spec, SingleUse

-----------------------------------------------------------------------------
(* A PC's windows (NoDeadWindows).  Whoever opened a window, a connection  *)
(* of its PC has still to come past the revocation at the end of detach.   *)

\* Connection c has still to close the windows of its PC.
Minds(c) ==
    /\ at[c] \notin {"new", "gone"}
    /\ at[c] \in {"compute", "present"} => loc[c].then # "gone"

WindowsMinded ==
    \A d \in Codes : phase[d] \in {"open", "tried"} =>
        \E c \in AgentConns : Dev[c] = holder[d] /\ Minds(c)

\* The goroutines of other connections stay where they are.
LEMMA OthersStay ==
    ASSUME HubInv, NEW c \in Conns, Step(c) \/ Environment(c), NEW x \in Conns \ {c}
    PROVE  UNCHANGED <<at[x], loc[x]>>
  <1> DEFINE Moves == \E p, l : GoTo(c, p, l)
           Turns == loc' = loc /\ \E p : at' = [at EXCEPT ![c] = p]
  <1>1. ASSUME Step(c) PROVE Moves \/ Turns
    <2>1. CASE Detach(c)
      BY <2>1 DEF Detach
    <2>2. CASE \/ Snapshot(c) \/ Sweep(c) \/ SweepDone(c) \/ Announce(c) \/ NoSession(c)
               \/ BindAgent(c) \/ OfferAgent(c) \/ ReplyClient(c)
      <3>1. Moves
        BY <2>2 DEF Snapshot, Sweep, SweepDone, Announce, NoSession, BindAgent, OfferAgent,
           ReplyClient, Finish
      <3> QED BY <3>1
    <2>3. CASE \/ Relay(c) \/ Compute(c) \/ Present(c) \/ TakeWake(c) \/ Arm(c) \/ ForgetTell(c)
               \/ \E s \in Sids : Introduce(c, s)
      <3>1. Moves
        BY <2>3 DEF Relay, Compute, Present, AfterPresence, TakeWake, Arm, ForgetTell, Introduce,
           Finish
      <3> QED BY <3>1
    <2> QED BY <1>1, <2>1, <2>2, <2>3 DEF Step
  <1>2. ASSUME Environment(c) PROVE Moves \/ Turns \/ UNCHANGED <<at, loc>>
    BY <1>2 DEF Environment, AttachAgent, AttachClient, ReadEnds, Cancel, CloseReplaced,
       Connect, Signal, SessionEnd, Register, Update, Wake, Forget, PairPublish,
       PairSubmit, PairPublishRefused, PairRevoke, PairResult, connVars
  <1>3. Moves \/ Turns \/ UNCHANGED <<at, loc>> => UNCHANGED <<at[x], loc[x]>>
    BY DEF HubInv, GoTo, TypeOK, ConnsTyped
  <1> QED BY <1>1, <1>2, <1>3

\* A goroutine's own step keeps it minding, but for the revocation.
LEMMA StepMinds ==
    ASSUME HubInv, NEW c \in AgentConns, Minds(c), Step(c), ~SweepDone(c)
    PROVE  Minds(c)'
  <1>1. TypeOK /\ LocalsMean(c) /\ c \in Conns
    BY DEF HubInv, PointsMean, AgentConns
  <1>2. CASE Detach(c)
    BY <1>1, <1>2 DEF Detach, Minds, TypeOK, ConnsTyped
  <1>3. CASE \/ Snapshot(c) \/ NoSession(c) \/ BindAgent(c) \/ OfferAgent(c) \/ ReplyClient(c)
             \/ TakeWake(c) \/ Arm(c) \/ ForgetTell(c) \/ \E s \in Sids : Introduce(c, s)
    <2>1. at'[c] \in {"sweep", "serve", "offer", "reply", "bind"}
      BY <1>1, <1>3 DEF Snapshot, NoSession, BindAgent, OfferAgent, ReplyClient, TakeWake, Arm,
         ForgetTell, Introduce, Finish, GoTo, TypeOK, ConnsTyped
    <2> QED BY <2>1 DEF Minds
  <1>4. CASE Sweep(c)
    <2>1. at'[c] \in {"sweep", "announce"}
      BY <1>1, <1>4 DEF Sweep, GoTo, TypeOK, ConnsTyped
    <2> QED BY <2>1 DEF Minds
  <1>5. CASE Announce(c) \/ Relay(c)
    <2>1. at'[c] \in {"serve", "sweep", "announce"}
      BY <1>1, <1>5 DEF Announce, Relay, Finish, GoTo, LocalsMean, TypeOK, ConnsTyped
    <2> QED BY <2>1 DEF Minds
  <1>6. CASE Compute(c) \/ Present(c)
    <2>1. loc[c].then \in {"serve", "take"} /\ loc[c] \in Locals
      BY <1>1, <1>6 DEF Compute, Present, LocalsMean, Minds, TypeOK, ConnsTyped
    <2>2. CASE AfterPresence(c, loc[c].dev)
      <3>1. at'[c] = loc[c].then
        BY <1>1, <2>2 DEF AfterPresence, GoTo, TypeOK, ConnsTyped
      <3> QED BY <2>1, <3>1 DEF Minds
    <2>3. CASE Compute(c) /\ loc[c].dev \in known
      <3>1. /\ at'[c] = "present"
            /\ loc'[c] = [loc[c] EXCEPT !.info = Presence(loc[c].dev), !.to = paired[loc[c].dev]]
        BY <1>1, <2>3 DEF Compute, GoTo, TypeOK, ConnsTyped
      <3>2. loc'[c].then = loc[c].then
        BY <2>1, <3>1 DEF Locals
      <3> QED BY <2>1, <3>1, <3>2 DEF Minds
    <2> QED BY <1>6, <2>2, <2>3 DEF Compute, Present
  <1> QED BY <1>2, <1>3, <1>4, <1>5, <1>6 DEF Step

\* What peers do keeps it minding.
LEMMA EnvironmentMinds ==
    ASSUME HubInv, NEW c \in AgentConns, Minds(c), Environment(c)
    PROVE  Minds(c)'
  <1>1. TypeOK /\ c \in Conns
    BY DEF HubInv, AgentConns
  <1>2. CASE AttachAgent(c) \/ AttachClient(c) \/ ReadEnds(c)
    BY <1>1, <1>2 DEF AttachAgent, AttachClient, ReadEnds, Minds, TypeOK, ConnsTyped
  <1>3. CASE UNCHANGED <<at, loc>>
    BY <1>3 DEF Minds
  <1>4. CASE \/ \E a \in Agents : Connect(c, a) \/ Wake(c, a) \/ Forget(c, a)
             \/ \E s \in Sids : Signal(c, s) \/ SessionEnd(c, s)
    <2>1. at'[c] \in {"introduce", "arm", "forget", "relay", "announce"}
      BY <1>1, <1>4 DEF Connect, Wake, Forget, Signal, SessionEnd, GoTo, TypeOK, ConnsTyped
    <2> QED BY <2>1 DEF Minds
  <1>5. ASSUME NEW p \in {"serve", "take"}, GoTo(c, "compute", [NoLocals EXCEPT !.dev = Dev[c], !.then = p])
        PROVE  Minds(c)'
    <2>1. at'[c] = "compute" /\ loc'[c] = [NoLocals EXCEPT !.dev = Dev[c], !.then = p]
      BY <1>1, <1>5 DEF GoTo, TypeOK, ConnsTyped
    <2>2. loc'[c].then = p
      BY <2>1 DEF NoLocals
    <2> QED BY <1>5, <2>1, <2>2 DEF Minds
  <1>6. CASE \/ \E list \in Lists, b \in BusyFlags : Register(c, list, b)
             \/ \E b \in BusyFlags : Update(c, b)
    BY <1>5, <1>6 DEF Register, Update
  <1> QED
    BY <1>2, <1>3, <1>4, <1>6 DEF Environment, CloseReplaced, Cancel, PairPublish, PairSubmit,
       PairPublishRefused, PairRevoke, PairResult, connVars

\* So every connection of a PC goes on minding until it revokes.
LEMMA MindsKept ==
    ASSUME HubInv, [Next]_vars, NEW x \in AgentConns, Minds(x), ~SweepDone(x)
    PROVE  Minds(x)'
  <1>1. scenario.conns \subseteq Conns /\ TypeOK
    BY HubAssumption DEF HubInv, TypeOK
  <1>2. ASSUME NEW c \in scenario.conns, Step(c) \/ Environment(c), c # x
        PROVE  UNCHANGED <<at[x], loc[x]>>
    BY <1>1, <1>2, OthersStay DEF AgentConns
  <1>3. CASE UNCHANGED <<at[x], loc[x]>>
    BY <1>3 DEF Minds
  <1>4. CASE Step(x) \/ Environment(x)
    BY <1>4, StepMinds, EnvironmentMinds
  <1>5. ASSUME \/ \E a \in Agents : WakeExpires(a)
               \/ \E d \in Codes : PairExpires(d)
               \/ UNCHANGED vars
        PROVE  UNCHANGED <<at[x], loc[x]>>
    BY <1>5 DEF WakeExpires, PairExpires, vars, connVars
  <1> QED BY <1>2, <1>3, <1>4, <1>5 DEF Next

\* Windows are opened over a connection that is served, and are only closed otherwise.
LEMMA WindowsMove ==
    ASSUME HubInv, [Next]_vars, NEW d \in Codes, phase'[d] \in {"open", "tried"}
    PROVE  \/ phase[d] \in {"open", "tried"} /\ holder'[d] = holder[d]
           \/ \E c \in AgentConns : Minds(c)' /\ Dev[c] = holder'[d]
  <1>1. TypeOK /\ scenario.conns \subseteq Conns
    BY HubAssumption DEF HubInv, TypeOK
  <1>2. ASSUME NEW c \in scenario.conns, NEW e \in Codes, PairPublish(c, e)
        PROVE  \/ phase[d] \in {"open", "tried"} /\ holder'[d] = holder[d]
               \/ \E b \in AgentConns : Minds(b)' /\ Dev[b] = holder'[d]
    <2>1. CASE d = e
      <3>1. c \in AgentConns /\ Minds(c)' /\ holder'[d] = Dev[c]
        BY <1>1, <1>2, <2>1 DEF PairPublish, Serving, Minds, connVars, Pairs!Open, TypeOK,
           WindowsTyped
      <3> QED BY <3>1
    <2>2. CASE d # e
      <3>1. phase'[d] = phase[d] \/ phase'[d] = "closed"
        BY <1>2, <2>2 DEF PairPublish, Pairs!Open
      <3>2. holder'[d] = holder[d]
        BY <1>1, <1>2, <2>2 DEF PairPublish, Pairs!Open, TypeOK, WindowsTyped
      <3> QED BY <3>1, <3>2
    <2> QED BY <2>1, <2>2
  <1>3. ASSUME NEW e \in Codes, Pairs!Try(e)
        PROVE  phase[d] \in {"open", "tried"} /\ holder'[d] = holder[d]
    BY <1>1, <1>3 DEF Pairs!Try, TypeOK, WindowsTyped
  <1>4. ASSUME NEW S, Pairs!Close(S)
        PROVE  phase[d] \in {"open", "tried"} /\ holder'[d] = holder[d]
    BY <1>4 DEF Pairs!Close
  <1>5. CASE UNCHANGED pairVars
    BY <1>5 DEF pairVars
  <1>6. ASSUME NEW c \in scenario.conns, Step(c)
        PROVE  UNCHANGED pairVars \/ \E S : Pairs!Close(S)
    BY <1>6 DEF Step, Detach, Snapshot, Sweep, SweepDone, Announce, Introduce, NoSession,
       BindAgent, OfferAgent, ReplyClient, Relay, Compute, Present, TakeWake, Arm, ForgetTell
  <1>7. ASSUME NEW c \in scenario.conns, Environment(c)
        PROVE  \/ UNCHANGED pairVars \/ \E S : Pairs!Close(S)
               \/ \E e \in Codes : PairPublish(c, e) \/ Pairs!Try(e)
    BY <1>7 DEF Environment, AttachAgent, AttachClient, ReadEnds, Cancel, CloseReplaced,
       Connect, Signal, SessionEnd, Register, Update, Wake, Forget, PairSubmit,
       PairPublishRefused, PairRevoke, PairResult
  <1>8. ASSUME \/ \E a \in Agents : WakeExpires(a)
               \/ \E e \in Codes : PairExpires(e)
               \/ UNCHANGED vars
        PROVE  UNCHANGED pairVars \/ \E S : Pairs!Close(S)
    BY <1>8 DEF WakeExpires, PairExpires, vars
  <1> QED BY <1>2, <1>3, <1>4, <1>5, <1>6, <1>7, <1>8 DEF Next

LEMMA MindedKept == HubInv /\ WindowsMinded /\ [Next]_vars => WindowsMinded'
  <1> SUFFICES ASSUME HubInv, WindowsMinded, [Next]_vars,
                      NEW d \in Codes, phase'[d] \in {"open", "tried"}
               PROVE  \E c \in AgentConns : Dev[c] = holder'[d] /\ Minds(c)'
    BY DEF WindowsMinded
  <1>1. CASE phase[d] \in {"open", "tried"} /\ holder'[d] = holder[d]
    <2>1. PICK c \in AgentConns : Dev[c] = holder[d] /\ Minds(c)
      BY <1>1 DEF WindowsMinded
    <2>2. ~SweepDone(c)
      <3> SUFFICES ASSUME SweepDone(c) PROVE phase'[d] = "closed"
        OBVIOUS
      <3>1. Pairs!Close({e \in Pairs!Held(phase) : holder[e] = Dev[c]})
        BY <2>1 DEF SweepDone
      <3>2. d \in Pairs!Held(phase)
        BY <1>1 DEF Pairs!Held
      <3> QED BY <2>1, <3>1, <3>2 DEF Pairs!Close
    <2> QED BY <1>1, <2>1, <2>2, MindsKept
  <1> QED BY <1>1, WindowsMove

\* A PC without a connection has no window open when everything is still (detach,
\* conn.go's read loop), for any connections and whichever of them opened it.
THEOREM NoWindowIsDead == Spec => []NoDeadWindows
  <1>1. Init => HubInv /\ WindowsMinded
    BY InitHolds DEF Init, WindowsMinded, Pairs!Init
  <1>2. HubInv /\ WindowsMinded => NoDeadWindows
    <2> SUFFICES ASSUME HubInv, WindowsMinded, Quiescent,
                        NEW d \in Codes, phase[d] \in {"open", "tried"}
                 PROVE  agents[holder[d]] # NoConn
      BY DEF NoDeadWindows
    <2>1. PICK c \in AgentConns : Dev[c] = holder[d] /\ Minds(c)
      BY DEF WindowsMinded
    <2>2. c \in Conns /\ at[c] = "serve" /\ ~Replaced(c)
      BY <2>1 DEF Quiescent, Minds, AgentConns
    <2> QED BY <2>1, <2>2, HubAssumption DEF Replaced
  <1> QED BY <1>1, <1>2, NextKeeps, MindedKept, PTL DEF Spec

-----------------------------------------------------------------------------
(* Wakes (AwakeWasAsked): whoever waits for a PC has asked for it, and     *)
(* noteAgentOnline alone tells of one that is awake.                       *)

WaitersAsked == \A a \in Agents : waiting[a] # NoDev => <<waiting[a], a>> \in asked

\* The frames that are not about a wake.
Others == ({"offer", "reply", "end"} \X Sids) \cup ({"signal"} \X Sids \X Devices)
          \cup ({"submit", "verdict", "forget"} \X Devices)

\* No frame about a wake is new.
Silent ==
    \A x \in Conns, d \in Devices, kind \in {"awake", "stayAwake"} :
        <<kind, d>> \in told'[x] => <<kind, d>> \in told[x]

LEMMA OthersAreSilent ==
    ASSUME TypeOK, NEW sent \in SUBSET (Conns \X Others), told' = Enqueue(sent)
    PROVE  Silent
  <1>1. Others \subseteq Frames
    BY DEF Others, Frames
  <1>2. SentTyped /\ sent \in SUBSET (Conns \X Frames)
    BY <1>1 DEF TypeOK
  <1>3. \A x \in Conns, d \in Devices, kind \in {"awake", "stayAwake"} : <<x, <<kind, d>>>> \notin sent
    <2>1. \A d \in Devices, kind \in {"awake", "stayAwake"} : <<kind, d>> \notin Others
      BY DEF Others
    <2> QED BY <2>1
  <1> QED BY <1>2, <1>3, EnqueueTyped DEF Silent

\* What goroutines tell, but for noteAgentOnline.
LEMMA StepIsSilent ==
    ASSUME HubInv, NEW c \in Conns, Step(c), ~TakeWake(c)
    PROVE  Silent
  <1>1. TypeOK /\ LocalsMean(c) /\ TablesOwn /\ TablesTyped /\ SessionsNamed
    BY DEF HubInv, PointsMean, TypeOK
  <1>2. CASE UNCHANGED told
    BY <1>2 DEF Silent
  <1>3. CASE Announce(c)
    <2>1. loc[c].sid \in Sids
      BY <1>1, <1>3 DEF Announce, LocalsMean, SidPoints
    <2>2. \A x \in EndTargets(loc[c].sid, loc[c].dev) : <<x, <<"end", loc[c].sid>>>> \in Conns \X Others
      BY <2>1 DEF EndTargets, Others
    <2>3. PICK sent : /\ sent = {<<x, <<"end", loc[c].sid>>>> : x \in EndTargets(loc[c].sid, loc[c].dev)}
                      /\ told' = Enqueue(sent)
      BY <1>3 DEF Announce
    <2>4. sent \in SUBSET (Conns \X Others)
      BY <2>2, <2>3
    <2> QED BY <1>1, <2>3, <2>4, OthersAreSilent
  <1>4. CASE OfferAgent(c) \/ ReplyClient(c)
    <2>1. loc[c].sid \in Sids
      BY <1>1, <1>4 DEF OfferAgent, ReplyClient, LocalsMean, SidPoints
    <2>2. CASE OfferAgent(c)
      <3>1. loc[c].peer \in Conns
        BY <1>1, <2>2 DEF OfferAgent, LocalsMean, AgentConns
      <3>2. {<<loc[c].peer, <<"offer", loc[c].sid>>>>} \in SUBSET (Conns \X Others)
        BY <2>1, <3>1 DEF Others
      <3> QED BY <1>1, <2>2, <3>2, OthersAreSilent DEF OfferAgent
    <2>3. CASE ReplyClient(c)
      <3>1. {<<c, <<"reply", loc[c].sid>>>>} \in SUBSET (Conns \X Others)
        BY <2>1 DEF Others
      <3> QED BY <1>1, <2>3, <3>1, OthersAreSilent DEF ReplyClient
    <2> QED BY <1>4, <2>2, <2>3
  <1>5. CASE Relay(c)
    <2>1. loc[c].sid \in Sids /\ parties[loc[c].sid] \in [client : Clients, agent : Agents]
      BY <1>1, <1>5 DEF Relay, LocalsMean, SidPoints, SessionsNamed
    <2>2. <<"signal", loc[c].sid, Dev[c]>> \in Others
      BY <2>1, HubAssumption DEF Others, Devices
    <2>3. Recipients(Dev[c], loc[c].sid, <<"signal", loc[c].sid, Dev[c]>>) \in SUBSET (Conns \X Others)
      BY <1>1, <2>1, <2>2, SendsTyped DEF Recipients
    <2> QED BY <1>1, <1>2, <1>5, <2>3, OthersAreSilent DEF Relay
  <1>6. CASE ForgetTell(c)
    <2>1. <<"forget", Dev[c]>> \in Others /\ loc[c].dev \in Agents
      BY <1>1, <1>6, HubAssumption DEF Others, Devices, ForgetTell, LocalsMean
    <2>2. ToAgent(loc[c].dev, <<"forget", Dev[c]>>) \in SUBSET (Conns \X Others)
      BY <1>1, <2>1, SendsTyped
    <2> QED BY <1>1, <1>6, <2>2, OthersAreSilent DEF ForgetTell
  <1> QED
    BY <1>2, <1>3, <1>4, <1>5, <1>6 DEF Step, Detach, Snapshot, Sweep, SweepDone, Introduce,
       NoSession, BindAgent, Compute, Present, Arm

LEMMA EnvironmentIsSilent ==
    ASSUME HubInv, NEW c \in Conns, Environment(c)
    PROVE  Silent
  <1>1. TypeOK /\ TablesOwn /\ TablesTyped /\ WindowsHeld
    BY DEF HubInv, TypeOK
  <1>2. CASE UNCHANGED told
    BY <1>2 DEF Silent
  <1>3. ASSUME NEW d \in Codes, PairSubmit(c, d)
        PROVE  Silent
    <2>1. <<"submit", Dev[c]>> \in Others /\ holder[d] \in Agents
      BY <1>1, <1>3, HubAssumption DEF Others, Devices, PairSubmit, Pairs!Try, WindowsHeld
    <2>2. ToAgent(holder[d], <<"submit", Dev[c]>>) \in SUBSET (Conns \X Others)
      BY <1>1, <2>1, SendsTyped
    <2> QED BY <1>1, <1>3, <2>2, OthersAreSilent DEF PairSubmit
  <1>4. ASSUME NEW k \in Clients, NEW ok \in BOOLEAN, PairResult(c, k, ok)
        PROVE  Silent
    <2>1. <<"verdict", Dev[c]>> \in Others
      BY HubAssumption DEF Others, Devices
    <2>2. ToClient(k, <<"verdict", Dev[c]>>) \in SUBSET (Conns \X Others)
      BY <1>1, <2>1, SendsTyped
    <2> QED BY <1>1, <1>4, <2>2, OthersAreSilent DEF PairResult
  <1> QED
    BY <1>2, <1>3, <1>4 DEF Environment, AttachAgent, AttachClient, ReadEnds, Cancel, CloseReplaced,
       Connect, Signal, SessionEnd, Register, Update, Wake, Forget, PairPublish,
       PairPublishRefused, PairRevoke, connVars

\* Nobody waits who has not asked, and what was asked is remembered.
LEMMA WaitingMoves ==
    ASSUME HubInv, [Next]_vars
    PROVE  /\ asked \subseteq asked'
           /\ WaitersAsked => WaitersAsked'
  <1>1. TypeOK
    BY DEF HubInv
  <1>2. CASE UNCHANGED wakeVars
    BY <1>2 DEF wakeVars, WaitersAsked
  <1>3. ASSUME UNCHANGED asked, NEW a \in Agents, waiting' = [waiting EXCEPT ![a] = NoDev]
        PROVE  WaitersAsked => WaitersAsked'
    BY <1>1, <1>3 DEF WaitersAsked, TypeOK, RegistryTyped
  <1>4. ASSUME NEW c \in Conns, TakeWake(c)
        PROVE  UNCHANGED asked /\ (WaitersAsked => WaitersAsked')
    <2>1. loc[c].dev \in Agents
      BY <1>4 DEF TakeWake, HubInv, PointsMean, LocalsMean, AgentConns
    <2> QED BY <1>3, <1>4, <2>1 DEF TakeWake
  <1>5. ASSUME NEW c \in Conns, Arm(c)
        PROVE  asked \subseteq asked' /\ (WaitersAsked => WaitersAsked')
    BY <1>1, <1>5 DEF Arm, WaitersAsked, TypeOK, RegistryTyped
  <1>6. ASSUME NEW a \in Agents, WakeExpires(a)
        PROVE  UNCHANGED asked /\ (WaitersAsked => WaitersAsked')
    BY <1>3, <1>6 DEF WakeExpires
  <1>7. ASSUME NEW c \in Conns, Step(c), ~TakeWake(c), ~Arm(c)
        PROVE  UNCHANGED wakeVars
    BY <1>7 DEF Step, Detach, Snapshot, Sweep, SweepDone, Announce, Introduce, NoSession, BindAgent,
       OfferAgent, ReplyClient, Relay, Compute, Present, ForgetTell
  <1>8. ASSUME NEW c \in Conns, Environment(c)
        PROVE  UNCHANGED wakeVars
    BY <1>8 DEF Environment, AttachAgent, AttachClient, ReadEnds, Cancel, CloseReplaced,
       Connect, Signal, SessionEnd, Register, Update, Wake, Forget, PairPublish, PairSubmit,
       PairPublishRefused, PairRevoke, PairResult
  <1>9. CASE (\E d \in Codes : PairExpires(d)) \/ UNCHANGED vars
    BY <1>2, <1>9 DEF PairExpires, vars
  <1>10. scenario.conns \subseteq Conns
    BY <1>1, HubAssumption DEF TypeOK
  <1> QED BY <1>2, <1>4, <1>5, <1>6, <1>7, <1>8, <1>9, <1>10 DEF Next

LEMMA AskedKept ==
    HubInv /\ WaitersAsked /\ AwakeWasAsked /\ [Next]_vars => WaitersAsked' /\ AwakeWasAsked'
  <1> SUFFICES ASSUME HubInv, WaitersAsked, AwakeWasAsked, [Next]_vars PROVE AwakeWasAsked'
    BY WaitingMoves
  <1>1. CASE Silent
    BY <1>1, WaitingMoves DEF Silent, AwakeWasAsked
  <1>2. ASSUME NEW c \in Conns, TakeWake(c), ~UNCHANGED told
        PROVE  AwakeWasAsked'
    <2> DEFINE a == loc[c].dev
               k == waiting[a]
    <2>1. /\ TypeOK /\ TablesOwn /\ TablesTyped /\ SentTyped /\ a \in Agents /\ k \in Clients
          /\ told' = Enqueue(ToAgent(a, <<"stayAwake", k>>) \cup ToClient(k, <<"awake", a>>))
          /\ UNCHANGED asked
      BY <1>2 DEF TakeWake, HubInv, TypeOK, RegistryTyped, PointsMean, LocalsMean, AgentConns
    <2> HIDE DEF a, k
    <2>2. <<k, a>> \in asked
      BY <2>1, HubAssumption DEF WaitersAsked, a, k
    <2>3. <<"stayAwake", k>> \in Frames /\ <<"awake", a>> \in Frames
      BY <2>1 DEF Frames, Devices
    <2>4. /\ ToAgent(a, <<"stayAwake", k>>) \in SUBSET (Conns \X Frames)
          /\ \A g \in ToAgent(a, <<"stayAwake", k>>) : Dev[g[1]] = a /\ g[2] = <<"stayAwake", k>>
          /\ ToClient(k, <<"awake", a>>) \in SUBSET (Conns \X Frames)
          /\ \A g \in ToClient(k, <<"awake", a>>) : Dev[g[1]] = k /\ g[2] = <<"awake", a>>
      BY <2>1, <2>3, SendsTyped
    <2>5. ASSUME NEW x \in Conns, NEW f \in told'[x]
          PROVE  \/ f \in told[x] \/ (Dev[x] = a /\ f = <<"stayAwake", k>>)
                 \/ (Dev[x] = k /\ f = <<"awake", a>>)
      <3>1. \A y \in Conns : \A g \in told'[y] :
               g \in told[y] \/ <<y, g>> \in ToAgent(a, <<"stayAwake", k>>) \cup ToClient(k, <<"awake", a>>)
        BY <2>1, <2>4, EnqueueTyped
      <3>2. f \in told[x] \/ <<x, f>> \in ToAgent(a, <<"stayAwake", k>>) \cup ToClient(k, <<"awake", a>>)
        BY <2>5, <3>1
      <3>3. <<x, f>>[1] = x /\ <<x, f>>[2] = f
        OBVIOUS
      <3> QED BY <2>4, <3>2, <3>3
    <2> QED BY <2>1, <2>2, <2>5 DEF AwakeWasAsked
  <1>3. ASSUME NEW c \in Conns, Step(c) \/ Environment(c)
        PROVE  AwakeWasAsked'
    <2>1. CASE UNCHANGED told
      BY <1>1, <2>1 DEF Silent
    <2> QED BY <1>1, <1>2, <1>3, <2>1, StepIsSilent, EnvironmentIsSilent
  <1>4. CASE \/ \E a \in Agents : WakeExpires(a)
             \/ \E d \in Codes : PairExpires(d)
             \/ UNCHANGED vars
    <2>1. UNCHANGED told
      BY <1>4 DEF WakeExpires, PairExpires, vars, connVars
    <2> QED BY <1>1, <2>1 DEF Silent
  <1>5. scenario.conns \subseteq Conns
    BY HubAssumption DEF HubInv, TypeOK
  <1> QED BY <1>3, <1>4, <1>5 DEF Next

\* Only a client that asked is told that its PC is awake, and a PC is asked to stay awake
\* only for such a client (wake.go), whatever is replaced, expires or crosses on the way.
THEOREM AwakeForWhoAsked == Spec => []AwakeWasAsked
  <1>1. Init => HubInv /\ WaitersAsked /\ AwakeWasAsked
    BY InitHolds DEF Init, WaitersAsked, AwakeWasAsked
  <1> QED BY <1>1, NextKeeps, AskedKept, PTL DEF Spec


-----------------------------------------------------------------------------
(* Presence (PresenceAccurateOnce).  While a PC has one connection only,   *)
(* each change of its presence is made by the goroutine that broadcasts it *)
(* next, and no client is listed by a PC before that.                      *)

\* A broadcast is still to come from the goroutine of c.
Owes(c) ==
    \/ at[c] \in {"leaving", "snapshot", "sweep", "compute", "present"}
    \/ at[c] = "announce" /\ loc[c].then = "sweep"

\* A PC has opened one connection at most.
Alone(a) ==
    \A c, d \in Conns : Dev[c] = a /\ Dev[d] = a /\ at[c] # "new" /\ at[d] # "new" => c = d

\* A client's connection is in the table until it is detached, and was sent nothing
\* before it was attached.
ClientsListed ==
    \A x \in ClientConns :
        /\ x \in alive /\ at[x] \notin {"new", "gone"} => x \in clients[Dev[x]]
        /\ at[x] = "new" => \A a \in Agents : shown[x][a] = "none"
        /\ \A k \in Clients : x \in clients[k] => at[x] # "new"

Unheard(a) == \A x \in ClientConns : shown[x][a] = "none"

\* What is on the way is the presence there is, and reaches whom the PC lists.
OnItsWay(a) ==
    \A c \in Conns : Dev[c] = a /\ at[c] = "present" =>
        loc[c].info = Presence(a) /\ paired[a] \subseteq loc[c].to /\ a \in known

ShownTrue(a) ==
    \A x \in ClientConns :
        x \in alive /\ at[x] \notin {"new", "gone"} /\ shown[x][a] # "none" /\ Dev[x] \in paired[a]
        => shown[x][a] = Presence(a)

ShownRight(a) ==
    Alone(a) =>
        /\ (a \notin known \/ \A c \in Conns : Dev[c] = a => at[c] = "new") => Unheard(a)
        /\ OnItsWay(a)
        /\ (\A c \in Conns : Dev[c] = a => ~Owes(c)) => ShownTrue(a)

ShownInv == ClientsListed /\ \A a \in Agents : ShownRight(a)

\* A goroutine under way does not begin again, and was neither unborn nor at its end.
LEMMA StepGoesOn ==
    ASSUME HubInv, NEW c \in Conns, Step(c)
    PROVE  at'[c] # "new" /\ at[c] \notin {"new", "gone"} /\ alive' \subseteq alive /\ known \subseteq known'
  <1>1. TypeOK /\ PointsMean
    BY DEF HubInv
  <1>2. known \subseteq known' /\ at[c] \notin {"new", "gone"}
    BY DEF Step, Detach, Snapshot, Sweep, SweepDone, Announce, Introduce, NoSession, BindAgent,
       OfferAgent, ReplyClient, Relay, Compute, Present, TakeWake, Arm, ForgetTell, regVars
  <1>3. CASE Detach(c)
    BY <1>1, <1>2, <1>3 DEF Detach, TypeOK, ConnsTyped
  <1>4. CASE ~Detach(c)
    <2>1. UNCHANGED alive
      BY <1>4 DEF Step, Snapshot, Sweep, SweepDone, Announce, Introduce, NoSession, BindAgent,
         OfferAgent, ReplyClient, Relay, Compute, Present, TakeWake, Arm, ForgetTell
    <2> DEFINE Lands(p) == \E l : GoTo(c, p, l)
    <2>2. ASSUME NEW p \in Points \ {"new"}, Lands(p) PROVE at'[c] # "new"
      BY <1>1, <2>2 DEF GoTo, TypeOK, ConnsTyped
    <2>3. CASE \/ Snapshot(c) \/ Sweep(c) \/ SweepDone(c) \/ NoSession(c) \/ BindAgent(c)
               \/ OfferAgent(c) \/ ReplyClient(c)
      <3>1. Lands("sweep") \/ Lands("announce") \/ Lands("compute") \/ Lands("gone")
            \/ Lands("serve") \/ Lands("offer") \/ Lands("reply")
        BY <2>3 DEF Snapshot, Sweep, SweepDone, NoSession, BindAgent, OfferAgent, ReplyClient, Finish
      <3> QED BY <1>2, <2>1, <2>2, <3>1 DEF Points
    <2>4. CASE TakeWake(c) \/ Arm(c) \/ ForgetTell(c) \/ Relay(c) \/ \E s \in Sids : Introduce(c, s)
      <3>1. Lands("serve") \/ Lands("announce") \/ Lands("bind")
        BY <2>4 DEF TakeWake, Arm, ForgetTell, Relay, Introduce, Finish
      <3> QED BY <1>2, <2>1, <2>2, <3>1 DEF Points
    <2>5. CASE Announce(c) \/ Present(c) \/ Compute(c)
      <3>1. Lands(loc[c].then) \/ Lands("present")
        BY <2>5 DEF Announce, Present, Compute, AfterPresence
      <3>2. loc[c].then \in Points \ {"new"}
        BY <1>1, <2>5 DEF Announce, Present, Compute, PointsMean, LocalsMean, Points
      <3> QED BY <1>2, <2>1, <2>2, <3>1, <3>2 DEF Points
    <2> QED BY <1>4, <2>1, <2>3, <2>4, <2>5, <1>2 DEF Step
  <1> QED BY <1>2, <1>3, <1>4

\* Connections open once, die once and go once, and records stay.
LEMMA OnlyForward ==
    ASSUME HubInv, [Next]_vars
    PROVE  /\ \A x \in Conns : (at[x] # "new" => at'[x] # "new") /\ (at[x] = "gone" => at'[x] = "gone")
           /\ alive' \subseteq alive /\ known \subseteq known'
  <1>1. TypeOK /\ PointsMean /\ scenario.conns \subseteq Conns
    BY HubAssumption DEF HubInv, TypeOK
  <1>2. ASSUME NEW c \in Conns, Step(c)
        PROVE  at'[c] # "new" /\ at[c] # "gone" /\ alive' \subseteq alive /\ known \subseteq known'
    BY <1>2, StepGoesOn
  <1>3. ASSUME NEW c \in Conns, Environment(c)
        PROVE  /\ at'[c] = at[c] \/ (at'[c] # "new" /\ at[c] # "gone")
               /\ alive' \subseteq alive /\ known \subseteq known'
    <2>1. alive' \subseteq alive /\ known \subseteq known'
      BY <1>3 DEF Environment, AttachAgent, AttachClient, ReadEnds, Cancel, CloseReplaced,
         Connect, Signal, SessionEnd, Register, Update, Wake, Forget, PairPublish, PairSubmit,
         PairPublishRefused, PairRevoke, PairResult, regVars, connVars
    <2>2. \/ UNCHANGED at
          \/ at[c] # "gone" /\ \E p \in Points \ {"new"} : at' = [at EXCEPT ![c] = p]
      BY <1>3 DEF Environment, AttachAgent, AttachClient, ReadEnds, Cancel, CloseReplaced,
         Connect, Signal, SessionEnd, Register, Update, Wake, Forget, PairPublish, PairSubmit,
         PairPublishRefused, PairRevoke, PairResult, connVars, GoTo, Serving, Points
    <2> QED BY <1>1, <2>1, <2>2 DEF TypeOK, ConnsTyped
  <1>4. ASSUME \/ \E a \in Agents : WakeExpires(a)
               \/ \E d \in Codes : PairExpires(d)
               \/ UNCHANGED vars
        PROVE  UNCHANGED <<at, alive, known>>
    BY <1>4 DEF WakeExpires, PairExpires, vars, connVars, regVars
  <1> QED BY <1>1, <1>2, <1>3, <1>4, OthersStay DEF Next

LEMMA AloneBefore == ASSUME HubInv, [Next]_vars, NEW a \in Agents, Alone(a)' PROVE Alone(a)
  BY OnlyForward DEF Alone

\* Nothing another connection does changes what is said of PC a, or lists more clients.
Undisturbed(a) ==
    /\ UNCHANGED agents[a]
    /\ \A d \in Conns : Dev[d] = a => UNCHANGED <<busy[d], at[d], loc[d]>>
    /\ \A x \in Conns : UNCHANGED shown[x][a]
    /\ paired'[a] \subseteq paired[a]
    /\ a \in known' => a \in known

LEMMA OthersDisturbNot ==
    ASSUME HubInv, NEW a \in Agents,
           NEW c \in Conns, Dev[c] # a, Step(c) \/ Environment(c)
    PROVE  Undisturbed(a)
  <1>1. TypeOK /\ LocalsMean(c) /\ TablesOwn
    BY DEF HubInv, PointsMean
  <1>2. UNCHANGED agents[a]
    <2>1. CASE Detach(c)
      BY <1>1, <2>1 DEF Detach, TypeOK, TablesTyped, TablesOwn
    <2>2. CASE AttachAgent(c)
      BY <1>1, <2>2 DEF AttachAgent, TypeOK, TablesTyped
    <2>3. CASE Step(c) /\ ~Detach(c)
      BY <2>3 DEF Step, Snapshot, Sweep, SweepDone, Announce, Introduce, NoSession, BindAgent,
         OfferAgent, ReplyClient, Relay, Compute, Present, TakeWake, Arm, ForgetTell, hubVars
    <2>4. CASE Environment(c) /\ ~AttachAgent(c)
      BY <2>4 DEF Environment, AttachClient, ReadEnds, Cancel, CloseReplaced,
         Connect, Signal, SessionEnd, Register, Update, Wake, Forget, PairPublish, PairSubmit,
         PairPublishRefused, PairRevoke, PairResult, hubVars
    <2> QED BY <2>1, <2>2, <2>3, <2>4
  <1>3. \A d \in Conns : Dev[d] = a => UNCHANGED busy[d]
    <2>1. CASE Step(c)
      BY <2>1 DEF Step, Detach, Snapshot, Sweep, SweepDone, Announce, Introduce, NoSession, BindAgent,
         OfferAgent, ReplyClient, Relay, Compute, Present, TakeWake, Arm, ForgetTell
    <2>2. CASE Environment(c)
      <3>1. UNCHANGED busy \/ \E b : busy' = [busy EXCEPT ![c] = b]
        BY <2>2 DEF Environment, AttachAgent, AttachClient, ReadEnds, Cancel, CloseReplaced,
           Connect, Signal, SessionEnd, Register, Update, Wake, Forget, PairPublish, PairSubmit,
           PairPublishRefused, PairRevoke, PairResult, connVars
      <3> QED BY <1>1, <3>1 DEF TypeOK, ConnsTyped
    <2> QED BY <2>1, <2>2
  <1>4. \A d \in Conns : Dev[d] = a => UNCHANGED <<at[d], loc[d]>>
    BY OthersStay
  <1>5. \A x \in Conns : UNCHANGED shown[x][a]
    <2>1. CASE Present(c)
      <3>1. loc[c].dev # a /\ c \in AgentConns
        BY <1>1, <2>1 DEF Present, LocalsMean
      <3> QED BY <1>1, <2>1, <3>1 DEF Present, TypeOK, SentTyped
    <2>2. CASE Step(c) /\ ~Present(c)
      BY <2>2 DEF Step, Detach, Snapshot, Sweep, SweepDone, Announce, Introduce, NoSession, BindAgent,
         OfferAgent, ReplyClient, Relay, Compute, TakeWake, Arm, ForgetTell
    <2>3. CASE Environment(c)
      BY <2>3 DEF Environment, AttachAgent, AttachClient, ReadEnds, Cancel, CloseReplaced,
         Connect, Signal, SessionEnd, Register, Update, Wake, Forget, PairPublish, PairSubmit,
         PairPublishRefused, PairRevoke, PairResult, connVars
    <2> QED BY <2>1, <2>2, <2>3
  <1>5a. CASE UNCHANGED regVars
    BY <1>2, <1>3, <1>4, <1>5, <1>5a DEF Undisturbed, regVars
  <1>6. ASSUME NEW list, NEW b, Register(c, list, b) PROVE paired'[a] \subseteq paired[a] /\ (a \in known' => a \in known)
    BY <1>1, <1>6 DEF Register, TypeOK, RegistryTyped
  <1>7. ASSUME NEW e \in Agents, Forget(c, e) PROVE paired'[a] \subseteq paired[a] /\ (a \in known' => a \in known)
    BY <1>1, <1>7 DEF Forget, TypeOK, RegistryTyped
  <1>8. UNCHANGED regVars \/ (\E list, b : Register(c, list, b)) \/ (\E e \in Agents : Forget(c, e))
    <2>1. CASE Step(c)
      BY <2>1 DEF Step, Detach, Snapshot, Sweep, SweepDone, Announce, Introduce, NoSession, BindAgent,
         OfferAgent, ReplyClient, Relay, Compute, Present, TakeWake, Arm, ForgetTell
    <2>2. CASE Environment(c)
      BY <2>2 DEF Environment, AttachAgent, AttachClient, ReadEnds, Cancel, CloseReplaced,
         Connect, Signal, SessionEnd, Update, Wake, PairPublish, PairSubmit,
         PairPublishRefused, PairRevoke, PairResult
    <2> QED BY <2>1, <2>2
  <1> QED BY <1>2, <1>3, <1>4, <1>5, <1>5a, <1>6, <1>7, <1>8 DEF Undisturbed

\* The tables keep the live connections of clients.
LEMMA ClientsStayListed ==
    ASSUME HubInv, ClientsListed, [Next]_vars
    PROVE  ClientsListed'
  <1>1. TypeOK /\ scenario.conns \subseteq Conns
    BY HubAssumption DEF HubInv, TypeOK
  <1>2. ASSUME NEW c \in Conns, AttachClient(c)
        PROVE  ClientsListed'
    <2>1. \A x \in Conns \ {c} : UNCHANGED at[x]
      BY <1>1, <1>2 DEF AttachClient, TypeOK, ConnsTyped
    <2>2. at'[c] # "new" /\ UNCHANGED <<shown, alive>>
      BY <1>1, <1>2 DEF AttachClient, TypeOK, ConnsTyped
    <2>3. /\ c \in ClientConns /\ Dev[c] \in Clients
          /\ \/ at'[c] = "gone" /\ UNCHANGED clients
             \/ clients' = [clients EXCEPT ![Dev[c]] = @ \cup {c}]
      BY <1>1, <1>2, HubAssumption DEF AttachClient, ClientConns, AgentConns, TypeOK, ConnsTyped
    <2>4. \A k \in Clients : clients[k] \subseteq clients'[k] /\ clients'[k] \subseteq clients[k] \cup {c}
      BY <1>1, <2>3 DEF TypeOK, TablesTyped
    <2>5. at'[c] # "gone" => c \in clients'[Dev[c]]
      BY <1>1, <1>2, <2>3 DEF TypeOK, TablesTyped, AttachClient
    <2>6. \A x \in ClientConns : x \in Conns /\ Dev[x] \in Clients
      BY HubAssumption DEF ClientConns, AgentConns
    <2> QED BY <2>1, <2>2, <2>3, <2>4, <2>5, <2>6 DEF ClientsListed
  <1>3. ASSUME NEW c \in Conns, Detach(c)
        PROVE  ClientsListed'
    <2>1. \A k \in Clients : clients'[k] = clients[k] \ {c}
      BY <1>3 DEF Detach
    <2>2. \A x \in Conns : x \in alive' => x # c /\ x \in alive
      BY <1>3 DEF Detach
    <2>3. UNCHANGED shown /\ \A x \in Conns : (at'[x] = at[x] \/ (x = c /\ at'[x] = "snapshot"))
      BY <1>1, <1>3 DEF Detach, TypeOK, ConnsTyped
    <2>4. \A x \in ClientConns : x \in Conns /\ Dev[x] \in Clients
      BY HubAssumption DEF ClientConns, AgentConns
    <2> QED BY <2>1, <2>2, <2>3, <2>4 DEF ClientsListed
  <1>4. ASSUME NEW c \in Conns, Step(c) \/ Environment(c), ~Detach(c), ~AttachClient(c)
        PROVE  UNCHANGED clients /\ (\A x \in ClientConns : (at[x] = "new" <=> at'[x] = "new"))
    <2>1. CASE Step(c)
      <3>1. UNCHANGED clients /\ at[c] # "new"
        BY <1>4, <2>1 DEF Step, Snapshot, Sweep, SweepDone, Announce, Introduce, NoSession, BindAgent,
           OfferAgent, ReplyClient, Relay, Compute, Present, TakeWake, Arm, ForgetTell, hubVars
      <3> QED BY <1>1, <1>4, <2>1, <3>1, OthersStay, StepGoesOn DEF ClientConns
    <2>2. CASE Environment(c)
      <3>1. UNCHANGED clients
        BY <1>4, <2>2 DEF Environment, AttachAgent, ReadEnds, Cancel, CloseReplaced,
           Connect, Signal, SessionEnd, Register, Update, Wake, Forget, PairPublish, PairSubmit,
           PairPublishRefused, PairRevoke, PairResult, hubVars
      <3>2. \/ UNCHANGED at \/ c \notin ClientConns
            \/ at[c] # "new" /\ \E p \in Points \ {"new"} : at' = [at EXCEPT ![c] = p]
        BY <1>4, <2>2 DEF Environment, AttachAgent, ReadEnds, Cancel, CloseReplaced,
           Connect, Signal, SessionEnd, Register, Update, Wake, Forget, PairPublish, PairSubmit,
           PairPublishRefused, PairRevoke, PairResult, connVars, GoTo, Serving, Points, ClientConns
      <3> QED BY <1>1, <1>4, <3>1, <3>2, OthersStay DEF TypeOK, ConnsTyped, ClientConns
    <2> QED BY <1>4, <2>1, <2>2
  <1>5. ASSUME NEW c \in Conns, Step(c) \/ Environment(c), NEW x \in ClientConns, at[x] = "new",
               NEW a \in Agents
        PROVE  UNCHANGED shown[x][a]
    <2>1. CASE Present(c)
      <3>1. \A k \in Clients : x \notin clients[k]
        BY <1>5 DEF ClientsListed
      <3>2. x \in Conns /\ loc[c].to \subseteq Clients
        BY <1>1 DEF ClientConns, TypeOK, ConnsTyped, Locals
      <3> QED BY <1>1, <2>1, <3>1, <3>2 DEF Present
    <2>2. CASE Step(c) /\ ~Present(c)
      BY <2>2 DEF Step, Detach, Snapshot, Sweep, SweepDone, Announce, Introduce, NoSession, BindAgent,
         OfferAgent, ReplyClient, Relay, Compute, TakeWake, Arm, ForgetTell
    <2>3. CASE Environment(c)
      BY <2>3 DEF Environment, AttachAgent, AttachClient, ReadEnds, Cancel, CloseReplaced,
         Connect, Signal, SessionEnd, Register, Update, Wake, Forget, PairPublish, PairSubmit,
         PairPublishRefused, PairRevoke, PairResult, connVars
    <2> QED BY <1>5, <2>1, <2>2, <2>3
  <1>6. ASSUME NEW c \in Conns, Step(c) \/ Environment(c), ~Detach(c), ~AttachClient(c)
        PROVE  ClientsListed'
    <2>1. \A x \in ClientConns : x \in Conns /\ Dev[x] \in Clients
      BY HubAssumption DEF ClientConns, AgentConns
    <2>2. [Next]_vars => alive' \subseteq alive /\ \A x \in Conns : at[x] = "gone" => at'[x] = "gone"
      BY OnlyForward
    <2> QED BY <1>4, <1>5, <1>6, <2>1, <2>2 DEF ClientsListed
  <1>7. CASE \/ \E a \in Agents : WakeExpires(a)
             \/ \E d \in Codes : PairExpires(d)
             \/ UNCHANGED vars
    <2>1. UNCHANGED <<at, alive, clients, shown>>
      BY <1>7 DEF WakeExpires, PairExpires, vars, connVars, hubVars
    <2> QED BY <2>1 DEF ClientsListed
  <1> QED BY <1>1, <1>2, <1>3, <1>6, <1>7 DEF Next

\* What the goroutine of a PC's connection does between two broadcasts.
Quietly(c) ==
    /\ at[c] # "new" /\ (Owes(c)' <=> Owes(c)) /\ (at'[c] = "present" <=> at[c] = "present")
    /\ at[c] = "present" => UNCHANGED loc[c]
    /\ UNCHANGED <<shown, paired, known, agents, busy>>

\* What it does on the way to the next one.
Hurries(c) ==
    /\ at[c] # "new" /\ Owes(c)' /\ at'[c] # "present"
    /\ UNCHANGED shown

LEMMA OwnMoves ==
    ASSUME HubInv, NEW c \in AgentConns, Step(c) \/ Environment(c)
    PROVE  AttachAgent(c) \/ Compute(c) \/ Present(c) \/ Quietly(c) \/ Hurries(c)
  <1>1. TypeOK /\ LocalsMean(c) /\ c \in Conns /\ c \notin ClientConns
    BY DEF HubInv, PointsMean, AgentConns, ClientConns
  <1> DEFINE Lands(p, l) == GoTo(c, p, l)
  <1>2. ASSUME NEW p, NEW l, GoTo(c, p, l)
        PROVE  at'[c] = p /\ loc'[c] = l
    BY <1>1, <1>2 DEF GoTo, TypeOK, ConnsTyped
  <1>3. CASE Detach(c) \/ ReadEnds(c)
    <2>1. at[c] # "new" /\ UNCHANGED shown /\ at'[c] \in {"leaving", "snapshot"}
      BY <1>1, <1>3 DEF Detach, ReadEnds, TypeOK, ConnsTyped
    <2> QED BY <2>1 DEF Hurries, Owes
  <1>4. CASE Snapshot(c) \/ SweepDone(c) \/ (\E list, b : Register(c, list, b)) \/ \E b : Update(c, b)
    <2>1. at[c] # "new" /\ UNCHANGED shown /\ \E l : \E p \in {"sweep", "compute"} : GoTo(c, p, l)
      BY <1>4 DEF Snapshot, SweepDone, Register, Update, Serving
    <2> QED BY <1>2, <2>1 DEF Hurries, Owes
  <1>5. CASE Sweep(c)
    <2>1. PICK s \in loc[c].todo :
             \/ GoTo(c, "sweep", [NoLocals EXCEPT !.todo = loc[c].todo \ {s}])
             \/ GoTo(c, "announce", [[NoLocals EXCEPT !.todo = loc[c].todo \ {s}]
                                      EXCEPT !.sid = s, !.dev = Dev[c], !.then = "sweep"])
      BY <1>5 DEF Sweep
    <2>2. at[c] # "new" /\ UNCHANGED shown
      BY <1>5 DEF Sweep
    <2> DEFINE rest == [NoLocals EXCEPT !.todo = loc[c].todo \ {s}]
    <2>3. [rest EXCEPT !.sid = s, !.dev = Dev[c], !.then = "sweep"].then = "sweep"
      BY DEF NoLocals
    <2>4. at'[c] = "sweep" \/ (at'[c] = "announce" /\ loc'[c].then = "sweep")
      BY <1>2, <2>1, <2>3
    <2> QED BY <2>2, <2>4 DEF Hurries, Owes
  <1>6. CASE Announce(c)
    <2>1. GoTo(c, loc[c].then, [NoLocals EXCEPT !.todo = loc[c].todo])
      BY <1>6 DEF Announce
    <2>2. at[c] = "announce" /\ at'[c] = loc[c].then /\ loc[c].then \in {"serve", "sweep"}
      BY <1>1, <1>2, <1>6, <2>1 DEF Announce, LocalsMean
    <2>3. UNCHANGED <<shown, paired, known, agents, busy>>
      BY <1>6 DEF Announce, hubVars, regVars
    <2> QED BY <2>2, <2>3 DEF Hurries, Quietly, Owes
  <1>7. CASE \/ \E s \in Sids : Introduce(c, s)
             \/ NoSession(c) \/ BindAgent(c) \/ OfferAgent(c) \/ ReplyClient(c)
             \/ TakeWake(c) \/ Arm(c) \/ ForgetTell(c)
    <2>1. /\ at[c] \in {"introduce", "bind", "offer", "reply", "take", "arm", "forget"}
          /\ \E l : \E p \in {"bind", "serve", "offer", "reply"} : GoTo(c, p, l)
          /\ UNCHANGED <<shown, paired, known, agents, busy>>
      BY <1>7 DEF Introduce, NoSession, BindAgent, OfferAgent, ReplyClient, TakeWake, Arm, ForgetTell,
         Finish, hubVars, regVars
    <2> QED BY <1>2, <2>1 DEF Quietly, Owes
  <1>8. CASE Relay(c) \/ (\E s \in Sids : Signal(c, s)) \/ (\E s \in Sids : SessionEnd(c, s))
    <2>1. /\ at[c] \in {"relay", "serve"}
          /\ \/ GoTo(c, "serve", NoLocals)
             \/ \E l : GoTo(c, "relay", l)
             \/ \E s : GoTo(c, "announce", [NoLocals EXCEPT !.sid = s])
             \/ \E s, d : GoTo(c, "announce", [NoLocals EXCEPT !.sid = s, !.dev = d])
          /\ UNCHANGED <<shown, paired, known, agents, busy>>
      BY <1>8 DEF Relay, Signal, SessionEnd, Serving, Finish, hubVars, regVars
    <2>2. \A s, d : /\ [NoLocals EXCEPT !.sid = s].then = "serve"
                    /\ [NoLocals EXCEPT !.sid = s, !.dev = d].then = "serve"
      BY DEF NoLocals
    <2>3. at'[c] \in {"serve", "relay"} \/ (at'[c] = "announce" /\ loc'[c].then = "serve")
      <3>1. CASE GoTo(c, "serve", NoLocals) \/ \E l : GoTo(c, "relay", l)
        BY <1>2, <3>1
      <3>2. ASSUME NEW s, GoTo(c, "announce", [NoLocals EXCEPT !.sid = s])
            PROVE  at'[c] = "announce" /\ loc'[c].then = "serve"
        <4>1. at'[c] = "announce" /\ loc'[c] = [NoLocals EXCEPT !.sid = s]
          BY <1>2, <3>2
        <4> QED BY <2>2, <4>1
      <3>3. ASSUME NEW s, NEW d, GoTo(c, "announce", [NoLocals EXCEPT !.sid = s, !.dev = d])
            PROVE  at'[c] = "announce" /\ loc'[c].then = "serve"
        <4>1. at'[c] = "announce" /\ loc'[c] = [NoLocals EXCEPT !.sid = s, !.dev = d]
          BY <1>2, <3>3
        <4> QED BY <2>2, <4>1
      <3> QED BY <2>1, <3>1, <3>2, <3>3
    <2> QED BY <2>1, <2>3 DEF Quietly, Owes
  <1>9. CASE \/ Cancel(c) \/ (\E d \in Codes : PairPublish(c, d)) \/ PairPublishRefused(c)
             \/ PairRevoke(c) \/ (\E k \in Clients, ok \in BOOLEAN : PairResult(c, k, ok))
    <2>1. at[c] # "new" /\ UNCHANGED <<at, loc, shown, paired, known, agents, busy>>
      BY <1>9 DEF Cancel, PairPublish, PairPublishRefused, PairRevoke, PairResult, Serving,
         hubVars, regVars, connVars
    <2> QED BY <2>1 DEF Quietly, Owes
  <1>10. CASE Step(c)
    BY <1>3, <1>4, <1>5, <1>6, <1>7, <1>8, <1>10 DEF Step
  <1>11. CASE Environment(c)
    BY <1>1, <1>3, <1>4, <1>8, <1>9, <1>11 DEF Environment, AttachClient, CloseReplaced, Connect, Wake,
       Forget, PairSubmit
  <1> QED BY <1>10, <1>11

\* What a PC's only connection does keeps what is shown of the PC right.
LEMMA OwnStepsShow ==
    ASSUME HubInv, ClientsListed, NEW a \in Agents, ShownRight(a),
           NEW c \in Conns, Dev[c] = a, Step(c) \/ Environment(c),
           alive' \subseteq alive, known \subseteq known', Alone(a), Alone(a)', ClientsListed',
           \A x \in Conns : at[x] # "new" => at'[x] # "new"
    PROVE  ShownRight(a)'
  <1>1. TypeOK /\ LocalsMean(c) /\ c \in AgentConns
    BY DEF HubInv, PointsMean, AgentConns
  <1>2. \A x \in Conns \ {c} : UNCHANGED <<at[x], loc[x]>>
    BY OthersStay
  <1>3. \A x \in ClientConns : x \in Conns /\ Dev[x] \in Clients /\ x # c
    BY <1>1, HubAssumption DEF ClientConns, AgentConns
  <1>4. at[c] # "new" => \A d \in Conns \ {c} : Dev[d] = a => at[d] = "new" /\ at'[d] = "new"
    BY <1>2 DEF Alone
  <1>5. \A d \in Conns : at'[d] = "new" => ~Owes(d)' /\ at'[d] # "present"
    BY DEF Owes
  <1>6. \A d \in Conns : at[d] = "new" => ~Owes(d) /\ at[d] # "present"
    BY DEF Owes
  <1>7. /\ (a \notin known \/ \A d \in Conns : Dev[d] = a => at[d] = "new") => Unheard(a)
        /\ OnItsWay(a)
        /\ (\A d \in Conns : Dev[d] = a => ~Owes(d)) => ShownTrue(a)
    BY DEF ShownRight
  <1>8. CASE AttachAgent(c)
    <2>1. at[c] = "new" /\ at'[c] = "serve" /\ UNCHANGED shown
      BY <1>1, <1>8 DEF AttachAgent, TypeOK, ConnsTyped
    <2>2. \A d \in Conns : Dev[d] = a => at[d] = "new"
      BY <1>2, <2>1 DEF Alone
    <2>3. Unheard(a)'
      BY <1>7, <2>1, <2>2 DEF Unheard
    <2>4. \A d \in Conns : Dev[d] = a => at'[d] # "present"
      BY <1>2, <2>1, <2>2
    <2> QED BY <2>3, <2>4 DEF ShownRight, OnItsWay, ShownTrue, Unheard
  <1>9. CASE Hurries(c)
    <2>1. /\ at[c] # "new" /\ at'[c] # "new" /\ Owes(c)' /\ at'[c] # "present" /\ UNCHANGED shown
      BY <1>9 DEF Hurries
    <2>2. a \notin known' => Unheard(a)'
      BY <1>7, <2>1 DEF Unheard
    <2>3. \A d \in Conns : Dev[d] = a => at'[d] # "present"
      BY <1>4, <1>5, <2>1
    <2> QED BY <2>1, <2>2, <2>3 DEF ShownRight, OnItsWay
  <1>10. CASE Quietly(c)
    <2>1. UNCHANGED <<shown, paired, known, agents, busy>> /\ at[c] # "new" /\ at'[c] # "new"
      BY <1>10 DEF Quietly
    <2>2. Presence(a)' = Presence(a)
      BY <2>1 DEF Presence
    <2>3. a \notin known' => Unheard(a)'
      BY <1>7, <2>1 DEF Unheard
    <2>4. OnItsWay(a)'
      <3> SUFFICES ASSUME NEW d \in Conns, Dev[d] = a, at'[d] = "present"
                   PROVE  loc'[d].info = Presence(a)' /\ paired'[a] \subseteq loc'[d].to /\ a \in known'
        BY DEF OnItsWay
      <3>1. d = c
        BY <1>4, <1>5, <2>1
      <3>2. at[c] = "present" /\ UNCHANGED loc[c]
        BY <1>10, <3>1 DEF Quietly
      <3> QED BY <1>7, <2>1, <2>2, <3>1, <3>2 DEF OnItsWay
    <2>5. ASSUME ~Owes(c)' PROVE ShownTrue(a)'
      <3>1. ShownTrue(a)
        BY <1>4, <1>6, <1>7, <1>10, <2>1, <2>5 DEF Quietly
      <3>2. \A x \in ClientConns : UNCHANGED at[x]
        BY <1>2, <1>3
      <3> QED BY <2>1, <2>2, <3>1, <3>2 DEF ShownTrue
    <2> QED BY <2>1, <2>3, <2>4, <2>5 DEF ShownRight
  <1>11. CASE Compute(c)
    <2>1. at[c] = "compute" /\ loc[c].dev = a /\ UNCHANGED <<shown, paired, known, agents, busy>>
      BY <1>1, <1>11 DEF Compute, LocalsMean, hubVars, regVars
    <2>2. at'[c] # "new" /\ Presence(a)' = Presence(a)
      BY <2>1 DEF Presence
    <2>3. a \notin known' => Unheard(a)'
      BY <1>7, <2>1 DEF Unheard
    <2>4. CASE a \in known
      <3>1. GoTo(c, "present", [loc[c] EXCEPT !.info = Presence(a), !.to = paired[a]])
        BY <1>11, <2>1, <2>4 DEF Compute
      <3>2. at'[c] = "present" /\ loc'[c].info = Presence(a) /\ loc'[c].to = paired[a]
        BY <1>1, <3>1 DEF GoTo, TypeOK, ConnsTyped, Locals
      <3>3. OnItsWay(a)' /\ Owes(c)'
        BY <1>4, <1>5, <2>1, <2>2, <2>4, <3>2 DEF OnItsWay, Owes
      <3> QED BY <2>2, <2>4, <2>1, <3>3 DEF ShownRight
    <2>5. CASE a \notin known
      <3>1. AfterPresence(c, a)
        BY <1>11, <2>1, <2>5 DEF Compute
      <3>2. at'[c] \in {"serve", "gone", "take"}
        BY <1>1, <2>1, <3>1 DEF AfterPresence, GoTo, TypeOK, ConnsTyped, LocalsMean
      <3>3. OnItsWay(a)' /\ Unheard(a)'
        BY <1>4, <1>5, <2>1, <2>3, <2>5, <3>2 DEF OnItsWay
      <3> QED BY <3>3 DEF ShownRight, ShownTrue, Unheard
    <2> QED BY <2>4, <2>5
  <1>12. CASE Present(c)
    <2>1. /\ at[c] = "present" /\ loc[c].dev = a /\ UNCHANGED <<paired, known, agents, busy, clients>>
          /\ shown' = [x \in Conns |->
                         IF x \in alive /\ \E k \in loc[c].to : x \in clients[k]
                         THEN [shown[x] EXCEPT ![a] = loc[c].info] ELSE shown[x]]
          /\ AfterPresence(c, a)
      BY <1>1, <1>12 DEF Present, LocalsMean, hubVars, regVars
    <2>2. loc[c].info = Presence(a) /\ paired[a] \subseteq loc[c].to /\ a \in known
      BY <1>7, <2>1 DEF OnItsWay
    <2>3. at'[c] \in {"serve", "gone", "take"} /\ at'[c] # "new"
      BY <1>1, <2>1 DEF AfterPresence, GoTo, TypeOK, ConnsTyped, LocalsMean
    <2>4. OnItsWay(a)'
      BY <1>4, <1>5, <2>1, <2>3 DEF OnItsWay
    <2>5. Presence(a)' = Presence(a)
      BY <2>1 DEF Presence
    <2>6. ShownTrue(a)'
      <3> SUFFICES ASSUME NEW x \in ClientConns, x \in alive', at'[x] \notin {"new", "gone"},
                          Dev[x] \in paired'[a]
                   PROVE  shown'[x][a] = Presence(a)'
        BY DEF ShownTrue
      <3>1. x \in Conns /\ x \in alive /\ x \in clients[Dev[x]] /\ Dev[x] \in loc[c].to
        BY <1>2, <1>3, <2>1, <2>2 DEF ClientsListed
      <3>2. shown'[x] = [shown[x] EXCEPT ![a] = loc[c].info]
        BY <2>1, <3>1
      <3>3. shown[x] \in [Agents -> Presences]
        BY <1>1, <3>1 DEF TypeOK, SentTyped
      <3> QED BY <2>2, <2>5, <3>2, <3>3
    <2> QED BY <2>1, <2>2, <2>3, <2>4, <2>6 DEF ShownRight
  <1> QED BY <1>1, <1>8, <1>9, <1>10, <1>11, <1>12, OwnMoves

LEMMA ShownKept == HubInv /\ ShownInv /\ [Next]_vars => ShownInv'
  <1> SUFFICES ASSUME HubInv, ShownInv, [Next]_vars, NEW a \in Agents, Alone(a)'
               PROVE  ShownRight(a)'
    BY ClientsStayListed DEF ShownInv, ShownRight
  <1>1. /\ TypeOK /\ scenario.conns \subseteq Conns /\ ClientsListed /\ ClientsListed'
        /\ ShownRight(a) /\ Alone(a)
    BY HubAssumption, ClientsStayListed, AloneBefore DEF HubInv, TypeOK, ShownInv
  <1>2. ASSUME NEW c \in Conns, Step(c) \/ Environment(c), Dev[c] # a
        PROVE  ShownRight(a)'
    <2>1. Undisturbed(a)
      BY <1>2, OthersDisturbNot
    <2>2. Presence(a)' = Presence(a)
      <3>1. agents[a] # NoConn => agents[a] \in Conns /\ Dev[agents[a]] = a
        BY <1>1 DEF TypeOK, TablesTyped, HubInv, TablesOwn
      <3> QED BY <2>1, <3>1 DEF Presence, Undisturbed
    <2>3. \A x \in ClientConns : x \in Conns /\ UNCHANGED shown[x][a]
      BY <2>1 DEF Undisturbed, ClientConns
    <2>4. \A d \in Conns : Dev[d] = a => UNCHANGED <<at[d], loc[d]>> /\ (Owes(d)' <=> Owes(d))
      BY <2>1 DEF Undisturbed, Owes
    <2>5. Unheard(a) => Unheard(a)'
      BY <2>3 DEF Unheard
    <2>6. OnItsWay(a) => OnItsWay(a)'
      BY <2>1, <2>2, <2>4, OnlyForward DEF Undisturbed, OnItsWay
    <2>7. ShownTrue(a) => ShownTrue(a)'
      <3> SUFFICES ASSUME ShownTrue(a), NEW x \in ClientConns, x \in alive',
                          at'[x] \notin {"new", "gone"}, shown'[x][a] # "none", Dev[x] \in paired'[a]
                   PROVE  shown'[x][a] = Presence(a)'
        BY DEF ShownTrue
      <3>1. x \in alive /\ at[x] # "gone" /\ at[x] # "new"
        BY <1>1, <2>3, OnlyForward DEF ClientsListed
      <3> QED BY <2>1, <2>2, <2>3, <3>1 DEF ShownTrue, Undisturbed
    <2> QED BY <1>1, <2>1, <2>4, <2>5, <2>6, <2>7, OnlyForward DEF ShownRight, Undisturbed
  <1>3. ASSUME NEW c \in Conns, Step(c) \/ Environment(c), Dev[c] = a
        PROVE  ShownRight(a)'
    <2>1. /\ alive' \subseteq alive /\ known \subseteq known'
          /\ \A x \in Conns : at[x] # "new" => at'[x] # "new"
      BY OnlyForward
    <2> QED BY <1>1, <1>3, <2>1, OwnStepsShow
  <1>4. CASE \/ \E e \in Agents : WakeExpires(e)
             \/ \E d \in Codes : PairExpires(d)
             \/ UNCHANGED vars
    <2>1. UNCHANGED <<at, loc, alive, shown, busy, agents, paired, known>>
      BY <1>4 DEF WakeExpires, PairExpires, vars, connVars, hubVars, regVars
    <2> QED BY <1>1, <2>1 DEF ShownRight, Alone, Unheard, OnItsWay, ShownTrue, Owes, Presence
  <1> QED BY <1>1, <1>2, <1>3, <1>4 DEF Next

\* Only finitely many connections have been opened, so they can be counted.
Opened == {c \in Conns : at[c] # "new"}

LEMMA OpenedFinite == HubInv /\ IsFiniteSet(Opened) /\ [Next]_vars => IsFiniteSet(Opened)'
  <1> SUFFICES ASSUME HubInv, IsFiniteSet(Opened), [Next]_vars
               PROVE  IsFiniteSet(Opened')
    OBVIOUS
  <1>1. scenario.conns \subseteq Conns
    BY HubAssumption DEF HubInv, TypeOK
  <1>2. ASSUME NEW c \in Conns, Step(c) \/ Environment(c)
        PROVE  IsFiniteSet(Opened')
    <2>1. Opened' \in SUBSET (Opened \cup {c})
      BY <1>2, OthersStay DEF Opened
    <2>2. IsFiniteSet(Opened \cup {c})
      BY FS_AddElement
    <2> QED BY <2>1, <2>2, FS_Subset
  <1>3. CASE \/ \E a \in Agents : WakeExpires(a)
             \/ \E d \in Codes : PairExpires(d)
             \/ UNCHANGED vars
    <2>1. Opened' = Opened
      BY <1>3 DEF WakeExpires, PairExpires, vars, connVars, Opened
    <2> QED BY <2>1
  <1> QED BY <1>1, <1>2, <1>3 DEF Next

\* A set that is counted to one at most holds no two connections.
LEMMA FewAreAlone ==
    ASSUME IsFiniteSet(Opened), NEW a \in Agents,
           Cardinality({c \in Conns : Dev[c] = a /\ at[c] # "new"}) <= 1
    PROVE  Alone(a)
  <1> DEFINE Mine == {c \in Conns : Dev[c] = a /\ at[c] # "new"}
  <1>1. Mine \in SUBSET Opened
    BY DEF Opened
  <1>2. IsFiniteSet(Mine)
    BY <1>1, FS_Subset
  <1>3. Cardinality(Mine) \in Nat
    BY <1>2, FS_CardinalityType
  <1>4. Cardinality(Mine) = 0 \/ Cardinality(Mine) = 1
    BY <1>3
  <1>5. Mine = {} \/ \E c : Mine = {c}
    <2>1. Cardinality(Mine) = 0 => Mine = {}
      BY <1>2, FS_EmptySet
    <2>2. Cardinality(Mine) = 1 => \E c : Mine = {c}
      BY <1>2, FS_Singleton
    <2> QED BY <1>4, <2>1, <2>2
  <1> QED BY <1>5 DEF Alone

LEMMA ShownAtFirst == Init => ShownInv /\ IsFiniteSet(Opened)
  <1> SUFFICES ASSUME Init PROVE ShownInv /\ IsFiniteSet(Opened)
    OBVIOUS
  <1>1. Opened = {} /\ \A c \in Conns : at[c] = "new"
    BY DEF Init, Opened
  <1>2. \A x \in ClientConns : x \in Conns /\ Dev[x] \in Clients
    BY HubAssumption DEF ClientConns, AgentConns
  <1>3. \A a \in Agents : Unheard(a)
    BY <1>2 DEF Init, Unheard
  <1>4. ClientsListed
    BY <1>2 DEF Init, ClientsListed
  <1>5. \A a \in Agents : ShownRight(a)
    BY <1>1, <1>3 DEF ShownRight, OnItsWay, ShownTrue, Unheard
  <1> QED BY <1>1, <1>4, <1>5, FS_EmptySet DEF ShownInv

\* When everything is still a client has been sent the true presence of a PC that
\* has opened one connection (broadcastPresence), for any clients and lists.
THEOREM PresenceIsAccurateOnce == Spec => []PresenceAccurateOnce
  <1>1. Init => HubInv /\ ShownInv /\ IsFiniteSet(Opened)
    BY InitHolds, ShownAtFirst
  <1>2. HubInv /\ ShownInv /\ IsFiniteSet(Opened) => PresenceAccurateOnce
    <2> SUFFICES ASSUME ShownInv, NEW a \in Agents, Alone(a), Quiescent,
                        NEW x \in ClientConns, at[x] = "serve", shown[x][a] # "none",
                        Dev[x] \in paired[a]
                 PROVE  shown[x][a] = Presence(a)
      BY FewAreAlone DEF PresenceAccurateOnce, PresenceTrue
    <2>1. \A c \in Conns : ~Owes(c)
      BY DEF Quiescent, Owes
    <2>2. ShownTrue(a)
      BY <2>1 DEF ShownInv, ShownRight
    <2>3. x \in alive
      BY DEF Quiescent, ClientConns
    <2> QED BY <2>2, <2>3 DEF ShownTrue
  <1> QED BY <1>1, <1>2, NextKeeps, ShownKept, OpenedFinite, PTL DEF Spec

-----------------------------------------------------------------------------
(* The end of a session (EndIsTold).  Whoever was told of a session, or is *)
(* about to be, is one of its parties; from the moment the session leaves  *)
(* the table an announcement of its end is under way to those of them that *)
(* the tables name.                                                        *)

\* Who introduces a session knows its parties, and a connection that is told of it has
\* been opened.
Introductions ==
    /\ \A a \in Agents : agents[a] # NoConn => at[agents[a]] # "new"
    /\ \A c \in Conns :
         /\ at[c] \in {"introduce", "bind", "offer"} => at[loc[c].peer] # "new"
         /\ at[c] = "introduce" => loc[c].dev = Dev[loc[c].peer]
         /\ at[c] \in {"bind", "offer"} => parties[loc[c].sid].agent = Dev[loc[c].peer]
         /\ at[c] \in {"bind", "offer", "reply"} => parties[loc[c].sid].client = Dev[c]

Invited ==
    \A x \in Conns, s \in Sids :
        /\ <<"offer", s>> \in told[x] => at[x] # "new" /\ parties[s].agent = Dev[x]
        /\ <<"reply", s>> \in told[x] => at[x] # "new" /\ parties[s].client = Dev[x]

\* Connection x was told of session s, or is about to be.
Concerned(s, x) ==
    \/ <<"offer", s>> \in told[x] \/ <<"reply", s>> \in told[x]
    \/ \E c \in Conns : at[c] \in {"bind", "offer"} /\ loc[c].sid = s /\ loc[c].peer = x
    \/ at[x] \in {"bind", "offer", "reply"} /\ loc[x].sid = s

\* The tables name x, and what is queued for it is accepted.
Reachable(x) ==
    x \in alive /\ ((\E a \in Agents : agents[a] = x) \/ \E k \in Clients : x \in clients[k])

Announcing(s) == \E c \in Conns : at[c] = "announce" /\ loc[c].sid = s /\ loc[c].dev = ender[s]

EndsReach ==
    \A s \in Sids \ sessions, x \in Conns :
        Concerned(s, x) /\ Reachable(x) /\ ender[s] # Dev[x] => <<"end", s>> \in told[x] \/ Announcing(s)

EndsInv == Introductions /\ Invited /\ EndsReach

\* The frames that tell of no new session.
Mere == ({"end"} \X Sids) \cup ({"signal"} \X Sids \X Devices)
        \cup ({"submit", "verdict", "awake", "stayAwake", "forget"} \X Devices)

\* What was queued stays queued, and an offer or a reply is new only where OfferAgent and
\* ReplyClient send one.
Tells(c) ==
    /\ \A x \in Conns : told[x] \subseteq told'[x]
    /\ \A x \in Conns, s \in Sids :
         /\ <<"offer", s>> \in told'[x] =>
                <<"offer", s>> \in told[x] \/ (OfferAgent(c) /\ x = loc[c].peer /\ s = loc[c].sid)
         /\ <<"reply", s>> \in told'[x] =>
                <<"reply", s>> \in told[x] \/ (ReplyClient(c) /\ x = c /\ s = loc[c].sid)

LEMMA EnqueueAdds ==
    ASSUME SentTyped, NEW sent \in SUBSET (Conns \X Frames), told' = Enqueue(sent)
    PROVE  \A x \in Conns : told[x] \subseteq told'[x]
  BY DEF SentTyped, Enqueue

LEMMA MereTells ==
    ASSUME TypeOK, NEW c \in Conns, NEW sent \in SUBSET (Conns \X Mere), told' = Enqueue(sent)
    PROVE  Tells(c)
  <1>1. Mere \subseteq Frames
    BY DEF Mere, Frames
  <1>2. SentTyped /\ sent \in SUBSET (Conns \X Frames)
    BY <1>1 DEF TypeOK
  <1>3. \A x \in Conns, s \in Sids, kind \in {"offer", "reply"} : <<x, <<kind, s>>>> \notin sent
    <2>1. \A s \in Sids, kind \in {"offer", "reply"} : <<kind, s>> \notin Mere
      BY DEF Mere
    <2> QED BY <2>1
  <1>4. \A x \in Conns, s \in Sids, kind \in {"offer", "reply"} :
           <<kind, s>> \in told'[x] => <<kind, s>> \in told[x]
    BY <1>2, <1>3, EnqueueTyped
  <1>5. \A x \in Conns : told[x] \subseteq told'[x]
    BY <1>2, EnqueueAdds
  <1> QED BY <1>4, <1>5 DEF Tells

LEMMA StepTells ==
    ASSUME HubInv, NEW c \in Conns, Step(c)
    PROVE  Tells(c)
  <1>1. TypeOK /\ SentTyped /\ LocalsMean(c) /\ TablesOwn /\ TablesTyped /\ SessionsNamed
    BY DEF HubInv, PointsMean, TypeOK
  <1>2. CASE UNCHANGED told
    BY <1>2 DEF Tells
  <1>3. CASE Announce(c)
    <2>1. loc[c].sid \in Sids
      BY <1>1, <1>3 DEF Announce, LocalsMean, SidPoints
    <2>2. \A x \in EndTargets(loc[c].sid, loc[c].dev) : <<x, <<"end", loc[c].sid>>>> \in Conns \X Mere
      BY <2>1 DEF EndTargets, Mere
    <2>3. PICK sent : /\ sent = {<<x, <<"end", loc[c].sid>>>> : x \in EndTargets(loc[c].sid, loc[c].dev)}
                      /\ told' = Enqueue(sent)
      BY <1>3 DEF Announce
    <2>4. sent \in SUBSET (Conns \X Mere)
      BY <2>2, <2>3
    <2> QED BY <1>1, <2>3, <2>4, MereTells
  <1>4. CASE OfferAgent(c)
    <2>1. loc[c].peer \in Conns /\ loc[c].sid \in Sids /\ <<"offer", loc[c].sid>> \in Frames
      BY <1>1, <1>4 DEF OfferAgent, LocalsMean, AgentConns, SidPoints, Frames
    <2>2. PICK sent : sent = {<<loc[c].peer, <<"offer", loc[c].sid>>>>} /\ told' = Enqueue(sent)
      BY <1>4 DEF OfferAgent
    <2>3. sent \in SUBSET (Conns \X Frames)
      BY <2>1, <2>2
    <2>4. \A x \in Conns : \A f \in told'[x] :
             f \in told[x] \/ (x = loc[c].peer /\ f = <<"offer", loc[c].sid>>)
      <3>1. \A x \in Conns : \A f \in told'[x] : f \in told[x] \/ <<x, f>> \in sent
        BY <1>1, <2>2, <2>3, EnqueueTyped
      <3> QED BY <2>2, <3>1
    <2>5. \A x \in Conns : told[x] \subseteq told'[x]
      BY <1>1, <2>2, <2>3, EnqueueAdds
    <2> QED BY <1>4, <2>4, <2>5 DEF Tells
  <1>5. CASE ReplyClient(c)
    <2>1. loc[c].sid \in Sids /\ <<"reply", loc[c].sid>> \in Frames
      BY <1>1, <1>5 DEF ReplyClient, LocalsMean, SidPoints, Frames
    <2>2. PICK sent : sent = {<<c, <<"reply", loc[c].sid>>>>} /\ told' = Enqueue(sent)
      BY <1>5 DEF ReplyClient
    <2>3. sent \in SUBSET (Conns \X Frames)
      BY <2>1, <2>2
    <2>4. \A x \in Conns : \A f \in told'[x] : f \in told[x] \/ (x = c /\ f = <<"reply", loc[c].sid>>)
      <3>1. \A x \in Conns : \A f \in told'[x] : f \in told[x] \/ <<x, f>> \in sent
        BY <1>1, <2>2, <2>3, EnqueueTyped
      <3> QED BY <2>2, <3>1
    <2>5. \A x \in Conns : told[x] \subseteq told'[x]
      BY <1>1, <2>2, <2>3, EnqueueAdds
    <2> QED BY <1>5, <2>4, <2>5 DEF Tells
  <1>6. CASE Relay(c)
    <2>1. loc[c].sid \in Sids /\ parties[loc[c].sid] \in [client : Clients, agent : Agents]
      BY <1>1, <1>6 DEF Relay, LocalsMean, SidPoints, SessionsNamed
    <2>2. <<"signal", loc[c].sid, Dev[c]>> \in Mere
      BY <2>1, HubAssumption DEF Mere, Devices
    <2>3. Recipients(Dev[c], loc[c].sid, <<"signal", loc[c].sid, Dev[c]>>) \in SUBSET (Conns \X Mere)
      BY <1>1, <2>1, <2>2, SendsTyped DEF Recipients
    <2> QED BY <1>1, <1>2, <1>6, <2>3, MereTells DEF Relay
  <1>7. CASE ForgetTell(c)
    <2>1. <<"forget", Dev[c]>> \in Mere /\ loc[c].dev \in Agents
      BY <1>1, <1>7, HubAssumption DEF Mere, Devices, ForgetTell, LocalsMean
    <2>2. ToAgent(loc[c].dev, <<"forget", Dev[c]>>) \in SUBSET (Conns \X Mere)
      BY <1>1, <2>1, SendsTyped
    <2> QED BY <1>1, <1>7, <2>2, MereTells DEF ForgetTell
  <1>8. CASE TakeWake(c) /\ waiting[loc[c].dev] # NoDev
    <2> DEFINE a == loc[c].dev
               k == waiting[a]
    <2>1. a \in Agents /\ k \in Clients
      BY <1>1, <1>8 DEF TakeWake, TypeOK, RegistryTyped, LocalsMean, AgentConns
    <2>2. told' = Enqueue(ToAgent(a, <<"stayAwake", k>>) \cup ToClient(k, <<"awake", a>>))
      BY <1>8 DEF TakeWake
    <2> HIDE DEF a, k
    <2>3. <<"stayAwake", k>> \in Mere /\ <<"awake", a>> \in Mere
      BY <2>1 DEF Mere, Devices
    <2>4. ToAgent(a, <<"stayAwake", k>>) \cup ToClient(k, <<"awake", a>>) \in SUBSET (Conns \X Mere)
      BY <1>1, <2>1, <2>3, SendsTyped
    <2> QED BY <1>1, <2>2, <2>4, MereTells
  <1> QED
    BY <1>2, <1>3, <1>4, <1>5, <1>6, <1>7, <1>8 DEF Step, Detach, Snapshot, Sweep, SweepDone, Introduce,
       NoSession, BindAgent, Compute, Present, Arm, TakeWake

LEMMA EnvironmentTells ==
    ASSUME HubInv, NEW c \in Conns, Environment(c)
    PROVE  Tells(c)
  <1>1. TypeOK /\ TablesOwn /\ TablesTyped /\ WindowsHeld
    BY DEF HubInv, TypeOK
  <1>2. CASE UNCHANGED told
    BY <1>2 DEF Tells
  <1>3. ASSUME NEW d \in Codes, PairSubmit(c, d)
        PROVE  Tells(c)
    <2>1. <<"submit", Dev[c]>> \in Mere /\ holder[d] \in Agents
      BY <1>1, <1>3, HubAssumption DEF Mere, Devices, PairSubmit, Pairs!Try, WindowsHeld
    <2>2. ToAgent(holder[d], <<"submit", Dev[c]>>) \in SUBSET (Conns \X Mere)
      BY <1>1, <2>1, SendsTyped
    <2> QED BY <1>1, <1>3, <2>2, MereTells DEF PairSubmit
  <1>4. ASSUME NEW k \in Clients, NEW ok \in BOOLEAN, PairResult(c, k, ok)
        PROVE  Tells(c)
    <2>1. <<"verdict", Dev[c]>> \in Mere
      BY HubAssumption DEF Mere, Devices
    <2>2. ToClient(k, <<"verdict", Dev[c]>>) \in SUBSET (Conns \X Mere)
      BY <1>1, <2>1, SendsTyped
    <2> QED BY <1>1, <1>4, <2>2, MereTells DEF PairResult
  <1> QED
    BY <1>2, <1>3, <1>4 DEF Environment, AttachAgent, AttachClient, ReadEnds, Cancel, CloseReplaced,
       Connect, Signal, SessionEnd, Register, Update, Wake, Forget, PairPublish,
       PairPublishRefused, PairRevoke, connVars

\* How a goroutine comes to introduce a session: only from the step before.
Enters(c) ==
    \/ UNCHANGED <<at[c], loc[c]>>
    \/ at'[c] \notin {"introduce", "bind", "offer", "reply"}
    \/ /\ at'[c] = "introduce" /\ UNCHANGED parties
       /\ \E a \in Agents : agents[a] # NoConn /\ loc'[c].peer = agents[a] /\ loc'[c].dev = a
    \/ \E s \in Sids :
         /\ at[c] = "introduce" /\ parties[s] = NoParties /\ s \in sessions'
         /\ at'[c] = "bind" /\ loc'[c].sid = s /\ loc'[c].peer = loc[c].peer
         /\ parties'[s].client = Dev[c] /\ parties'[s].agent = loc[c].dev
    \/ at[c] = "bind" /\ at'[c] = "offer" /\ UNCHANGED <<loc[c], parties>>
    \/ at[c] = "offer" /\ at'[c] = "reply" /\ loc'[c].sid = loc[c].sid /\ UNCHANGED parties

LEMMA AllEnter ==
    ASSUME HubInv, NEW c \in Conns, Step(c) \/ Environment(c)
    PROVE  Enters(c)
  <1>1. TypeOK /\ LocalsMean(c)
    BY DEF HubInv, PointsMean
  <1>2. ASSUME NEW p, NEW l, GoTo(c, p, l)
        PROVE  at'[c] = p /\ loc'[c] = l
    BY <1>1, <1>2 DEF GoTo, TypeOK, ConnsTyped
  <1>3. ASSUME NEW a \in Agents, Connect(c, a)
        PROVE  Enters(c)
    <2>1. at'[c] = "introduce" /\ loc'[c] = [NoLocals EXCEPT !.peer = agents[a], !.dev = a]
      BY <1>2, <1>3 DEF Connect
    <2>2. loc'[c].peer = agents[a] /\ loc'[c].dev = a
      BY <2>1 DEF NoLocals
    <2>3. agents[a] # NoConn /\ UNCHANGED parties
      BY <1>3 DEF Connect, hubVars
    <2> QED BY <2>1, <2>2, <2>3 DEF Enters
  <1>4. ASSUME NEW s \in Sids, Introduce(c, s)
        PROVE  Enters(c)
    <2>1. at'[c] = "bind" /\ loc'[c] = [loc[c] EXCEPT !.sid = s]
      BY <1>2, <1>4 DEF Introduce
    <2>2. loc'[c].sid = s /\ loc'[c].peer = loc[c].peer
      BY <1>1, <2>1 DEF TypeOK, ConnsTyped, Locals
    <2>3. parties'[s] = [client |-> Dev[c], agent |-> loc[c].dev]
      BY <1>1, <1>4 DEF Introduce, TypeOK, TablesTyped
    <2> QED BY <1>4, <2>1, <2>2, <2>3 DEF Enters, Introduce
  <1>5. CASE BindAgent(c)
    BY <1>2, <1>5 DEF BindAgent, Enters, hubVars
  <1>6. CASE OfferAgent(c)
    <2>1. at'[c] = "reply" /\ loc'[c] = [NoLocals EXCEPT !.sid = loc[c].sid]
      BY <1>2, <1>6 DEF OfferAgent
    <2> QED BY <1>6, <2>1 DEF OfferAgent, Enters, NoLocals, hubVars
  <1>7. CASE \/ Snapshot(c) \/ Sweep(c) \/ SweepDone(c) \/ NoSession(c) \/ ReplyClient(c) \/ Relay(c)
             \/ TakeWake(c) \/ Arm(c) \/ ForgetTell(c)
    <2>1. \E l : \E p \in {"sweep", "announce", "compute", "gone", "serve"} : GoTo(c, p, l)
      BY <1>7 DEF Snapshot, Sweep, SweepDone, NoSession, ReplyClient, Relay, TakeWake, Arm, ForgetTell,
         Finish
    <2> QED BY <1>2, <2>1 DEF Enters
  <1>8. CASE Announce(c) \/ Compute(c) \/ Present(c)
    <2>1. loc[c].then \in {"serve", "sweep", "gone", "take"}
      BY <1>1, <1>8 DEF Announce, Compute, Present, LocalsMean
    <2>2. \E l : \E p \in {loc[c].then, "present"} : GoTo(c, p, l)
      BY <1>8 DEF Announce, Compute, Present, AfterPresence
    <2> QED BY <1>2, <2>1, <2>2 DEF Enters
  <1>9. CASE Detach(c) \/ AttachAgent(c) \/ AttachClient(c) \/ ReadEnds(c)
    BY <1>1, <1>9 DEF Detach, AttachAgent, AttachClient, ReadEnds, Enters, TypeOK, ConnsTyped
  <1>10. CASE \/ (\E s \in Sids : Signal(c, s) \/ SessionEnd(c, s))
              \/ (\E list, b : Register(c, list, b)) \/ (\E b : Update(c, b))
              \/ (\E a \in Agents : Wake(c, a) \/ Forget(c, a))
    <2>1. \E l : \E p \in {"relay", "announce", "compute", "arm", "forget"} : GoTo(c, p, l)
      BY <1>10 DEF Signal, SessionEnd, Register, Update, Wake, Forget
    <2> QED BY <1>2, <2>1 DEF Enters
  <1>11. CASE \/ Cancel(c) \/ PairPublishRefused(c) \/ PairRevoke(c)
              \/ (\E d \in Codes : PairPublish(c, d) \/ PairSubmit(c, d))
              \/ (\E k \in Clients, ok \in BOOLEAN : PairResult(c, k, ok))
    BY <1>11 DEF Cancel, PairPublishRefused, PairRevoke, PairPublish, PairSubmit, PairResult, connVars,
       Enters
  <1>12. CASE Step(c)
    BY <1>4, <1>5, <1>6, <1>7, <1>8, <1>9, <1>12 DEF Step
  <1>13. CASE Environment(c)
    BY <1>3, <1>9, <1>10, <1>11, <1>13 DEF Environment, CloseReplaced
  <1> QED BY <1>12, <1>13

\* Who enters a table was not opened before; nobody else is reachable anew.
LEMMA ReachMoves ==
    ASSUME HubInv, NEW c \in Conns, Step(c) \/ Environment(c)
    PROVE  /\ \A x \in Conns : at[x] # "new" /\ Reachable(x)' => Reachable(x)
           /\ \A a \in Agents : agents'[a] \in {agents[a], NoConn}
                                \/ (AttachAgent(c) /\ agents'[a] = c /\ at'[c] = "serve")
  <1>1. TypeOK
    BY DEF HubInv
  <1>2. CASE AttachAgent(c)
    <2>1. UNCHANGED <<alive, clients>> /\ at[c] = "new" /\ at'[c] = "serve"
      BY <1>1, <1>2 DEF AttachAgent, TypeOK, ConnsTyped
    <2>2. \A a \in Agents : agents'[a] = agents[a] \/ agents'[a] = c
      BY <1>1, <1>2 DEF AttachAgent, TypeOK, TablesTyped
    <2> QED BY <1>2, <2>1, <2>2 DEF Reachable
  <1>3. CASE AttachClient(c)
    <2>1. UNCHANGED <<alive, agents>> /\ at[c] = "new"
      BY <1>3 DEF AttachClient
    <2>2. \A k \in Clients : clients'[k] \subseteq clients[k] \cup {c}
      BY <1>1, <1>3 DEF AttachClient, TypeOK, TablesTyped
    <2> QED BY <2>1, <2>2 DEF Reachable
  <1>4. CASE Detach(c)
    <2>1. alive' \subseteq alive
      BY <1>4 DEF Detach
    <2>2. \A a \in Agents : agents'[a] = agents[a] \/ agents'[a] = NoConn
      BY <1>4 DEF Detach
    <2>3. \A k \in Clients : clients'[k] \subseteq clients[k]
      BY <1>4 DEF Detach
    <2> QED BY <2>1, <2>2, <2>3, HubAssumption DEF Reachable
  <1>5. CASE ~AttachAgent(c) /\ ~AttachClient(c) /\ ~Detach(c)
    <2>1. UNCHANGED <<agents, clients>> /\ alive' \subseteq alive
      <3>1. CASE Step(c)
        BY <1>5, <3>1 DEF Step, Snapshot, Sweep, SweepDone, Announce, Introduce, NoSession, BindAgent,
           OfferAgent, ReplyClient, Relay, Compute, Present, TakeWake, Arm, ForgetTell, hubVars
      <3>2. CASE Environment(c)
        BY <1>5, <3>2 DEF Environment, ReadEnds, Cancel, CloseReplaced, Connect, Signal, SessionEnd,
           Register, Update, Wake, Forget, PairPublish, PairSubmit, PairPublishRefused, PairRevoke,
           PairResult, connVars, hubVars
      <3> QED BY <3>1, <3>2
    <2> QED BY <2>1 DEF Reachable
  <1> QED BY <1>2, <1>3, <1>4, <1>5

\* A session that leaves the table is announced by the goroutine that ended it.
LEMMA EndingIsAnnounced ==
    ASSUME HubInv, NEW c \in Conns, Step(c) \/ Environment(c), NEW s \in Sids
    PROVE  /\ s \notin sessions => UNCHANGED ender[s]
           /\ s \in sessions /\ s \notin sessions' => Announcing(s)'
  <1>1. TypeOK
    BY DEF HubInv
  <1>2. ASSUME NEW r, NEW by, NEW l, r \in sessions, EndSession(r, by),
               GoTo(c, "announce", l), l.sid = r, l.dev = by
        PROVE  /\ s \notin sessions => UNCHANGED ender[s]
               /\ s \in sessions /\ s \notin sessions' => Announcing(s)'
    <2>1. r \in Sids /\ ender \in [Sids -> Devices \cup {NoDev}]
      BY <1>1, <1>2 DEF TypeOK, TablesTyped
    <2>2. ender'[r] = by /\ \A q \in Sids \ {r} : UNCHANGED ender[q]
      BY <1>2, <2>1 DEF EndSession
    <2>3. at'[c] = "announce" /\ loc'[c] = l
      BY <1>1, <1>2 DEF GoTo, TypeOK, ConnsTyped
    <2>4. sessions' = sessions \ {r}
      BY <1>2 DEF EndSession
    <2> QED BY <1>2, <2>2, <2>3, <2>4 DEF Announcing
  <1>3. CASE UNCHANGED ender /\ sessions \subseteq sessions'
    BY <1>3
  <1>4. CASE Sweep(c) /\ ~UNCHANGED <<sessions, ender>>
    <2>1. PICK r \in loc[c].todo :
            /\ MayEnd(r, Dev[c]) /\ EndSession(r, Dev[c])
            /\ GoTo(c, "announce", [[NoLocals EXCEPT !.todo = loc[c].todo \ {r}]
                                    EXCEPT !.sid = r, !.dev = Dev[c], !.then = "sweep"])
      BY <1>4 DEF Sweep
    <2> DEFINE l == [[NoLocals EXCEPT !.todo = loc[c].todo \ {r}]
                     EXCEPT !.sid = r, !.dev = Dev[c], !.then = "sweep"]
    <2>2. l.sid = r /\ l.dev = Dev[c]
      BY DEF NoLocals
    <2>3. GoTo(c, "announce", l)
      BY <2>1
    <2> HIDE DEF l
    <2> QED BY <1>2, <2>1, <2>2, <2>3 DEF MayEnd
  <1>5. CASE Relay(c) /\ ~UNCHANGED <<sessions, ender>>
    <2>1. /\ MayEnd(loc[c].sid, NoDev) /\ EndSession(loc[c].sid, NoDev)
          /\ GoTo(c, "announce", [NoLocals EXCEPT !.sid = loc[c].sid])
      BY <1>5 DEF Relay
    <2>2. [NoLocals EXCEPT !.sid = loc[c].sid].sid = loc[c].sid
          /\ [NoLocals EXCEPT !.sid = loc[c].sid].dev = NoDev
      BY DEF NoLocals
    <2> QED BY <1>2, <2>1, <2>2 DEF MayEnd
  <1>6. ASSUME NEW r \in Sids, SessionEnd(c, r)
        PROVE  /\ s \notin sessions => UNCHANGED ender[s]
               /\ s \in sessions /\ s \notin sessions' => Announcing(s)'
    <2>1. /\ MayEnd(r, Dev[c]) /\ EndSession(r, Dev[c])
          /\ GoTo(c, "announce", [NoLocals EXCEPT !.sid = r, !.dev = Dev[c]])
      BY <1>6 DEF SessionEnd
    <2>2. [NoLocals EXCEPT !.sid = r, !.dev = Dev[c]].sid = r
          /\ [NoLocals EXCEPT !.sid = r, !.dev = Dev[c]].dev = Dev[c]
      BY DEF NoLocals
    <2> QED BY <1>2, <2>1, <2>2 DEF MayEnd
  <1>7. \/ UNCHANGED ender /\ sessions \subseteq sessions'
        \/ Sweep(c) /\ ~UNCHANGED <<sessions, ender>>
        \/ Relay(c) /\ ~UNCHANGED <<sessions, ender>>
        \/ \E r \in Sids : SessionEnd(c, r)
    <2>1. CASE Step(c)
      BY <2>1 DEF Step, Detach, Snapshot, SweepDone, Announce, Introduce, NoSession, BindAgent,
         OfferAgent, ReplyClient, Relay, Sweep, Compute, Present, TakeWake, Arm, ForgetTell, hubVars
    <2>2. CASE Environment(c)
      BY <2>2 DEF Environment, AttachAgent, AttachClient, ReadEnds, Cancel, CloseReplaced,
         Connect, Signal, Register, Update, Wake, Forget, PairPublish, PairSubmit,
         PairPublishRefused, PairRevoke, PairResult, hubVars
    <2> QED BY <2>1, <2>2
  <1> QED BY <1>3, <1>4, <1>5, <1>6, <1>7

\* Parties stay those that were introduced.
LEMMA PartiesStay ==
    ASSUME HubInv, [Next]_vars, NEW s \in Sids, parties[s] # NoParties
    PROVE  parties'[s] = parties[s]
  BY NextIntroduces

LEMMA IntroductionsKept ==
    ASSUME HubInv, Introductions, [Next]_vars, NEW c \in Conns, Step(c) \/ Environment(c)
    PROVE  Introductions'
  <1>1. TypeOK /\ PointsMean /\ LocalsMean(c) /\ \A x \in Conns : at[x] # "new" => at'[x] # "new"
    BY OnlyForward DEF HubInv, PointsMean
  <1>2. \A x \in Conns \ {c} : UNCHANGED <<at[x], loc[x]>>
    BY OthersStay
  <1>3. \A x \in Conns : at[x] \in {"introduce", "bind", "offer"} => loc[x].peer \in Conns
    BY <1>1 DEF PointsMean, LocalsMean, AgentConns
  <1>4. \A x \in Conns : at[x] \in {"bind", "offer", "reply"} =>
            loc[x].sid \in Sids /\ parties'[loc[x].sid] = parties[loc[x].sid]
    BY <1>1, PartiesStay DEF PointsMean, LocalsMean, SidPoints
  <1>5. ASSUME NEW a \in Agents, agents'[a] # NoConn
        PROVE  at'[agents'[a]] # "new"
    <2>1. agents[a] # NoConn => agents[a] \in Conns /\ at[agents[a]] # "new"
      BY <1>1 DEF Introductions, TypeOK, TablesTyped
    <2> QED BY <1>1, <1>5, <2>1, ReachMoves
  <1>6. ASSUME NEW x \in Conns, UNCHANGED <<at[x], loc[x]>>
        PROVE  /\ at'[x] \in {"introduce", "bind", "offer"} => at'[loc'[x].peer] # "new"
               /\ at'[x] = "introduce" => loc'[x].dev = Dev[loc'[x].peer]
               /\ at'[x] \in {"bind", "offer"} => parties'[loc'[x].sid].agent = Dev[loc'[x].peer]
               /\ at'[x] \in {"bind", "offer", "reply"} => parties'[loc'[x].sid].client = Dev[x]
    BY <1>1, <1>3, <1>4, <1>6 DEF Introductions
  <1>7. /\ at'[c] \in {"introduce", "bind", "offer"} => at'[loc'[c].peer] # "new"
        /\ at'[c] = "introduce" => loc'[c].dev = Dev[loc'[c].peer]
        /\ at'[c] \in {"bind", "offer"} => parties'[loc'[c].sid].agent = Dev[loc'[c].peer]
        /\ at'[c] \in {"bind", "offer", "reply"} => parties'[loc'[c].sid].client = Dev[c]
    <2>1. CASE UNCHANGED <<at[c], loc[c]>>
      BY <1>6, <2>1
    <2>2. CASE at'[c] \notin {"introduce", "bind", "offer", "reply"}
      BY <2>2
    <2>3. ASSUME at'[c] = "introduce", NEW a \in Agents, agents[a] # NoConn,
                 loc'[c].peer = agents[a], loc'[c].dev = a
          PROVE  at'[loc'[c].peer] # "new" /\ loc'[c].dev = Dev[loc'[c].peer]
      BY <1>1, <2>3 DEF Introductions, TypeOK, TablesTyped, HubInv, TablesOwn
    <2>4. CASE at[c] = "introduce" /\ at'[c] = "bind"
      <3>1. at'[loc[c].peer] # "new" /\ loc[c].dev = Dev[loc[c].peer]
        BY <1>1, <1>3, <2>4 DEF Introductions
      <3> QED BY <2>4, <3>1, AllEnter DEF Enters
    <2>5. CASE at[c] = "bind" /\ at'[c] = "offer" /\ UNCHANGED loc[c]
      BY <1>1, <1>3, <1>4, <2>5 DEF Introductions
    <2>6. CASE at[c] = "offer" /\ at'[c] = "reply" /\ loc'[c].sid = loc[c].sid
      BY <1>4, <2>6 DEF Introductions
    <2> QED BY <2>1, <2>2, <2>3, <2>4, <2>5, <2>6, AllEnter DEF Enters
  <1> QED BY <1>2, <1>5, <1>6, <1>7 DEF Introductions

\* Only parties are told of a session.
LEMMA InvitedKept ==
    ASSUME HubInv, Introductions, Invited, [Next]_vars, NEW c \in Conns, Step(c) \/ Environment(c)
    PROVE  Invited'
  <1>1. PointsMean /\ Tells(c) /\ \A x \in Conns : at[x] # "new" => at'[x] # "new"
    BY OnlyForward, StepTells, EnvironmentTells DEF HubInv
  <1>2. \A s \in Sids, x \in Conns :
           parties[s].agent = Dev[x] \/ parties[s].client = Dev[x] => parties[s] # NoParties
    <2>1. \A x \in Conns : Dev[x] # NoDev
      BY HubAssumption
    <2> QED BY <2>1 DEF NoParties
  <1>3. ASSUME NEW x \in Conns, NEW s \in Sids, <<"offer", s>> \in told'[x]
        PROVE  at'[x] # "new" /\ parties'[s].agent = Dev[x]
    <2>1. at[x] # "new" /\ parties[s].agent = Dev[x]
      <3>1. CASE <<"offer", s>> \in told[x]
        BY <3>1 DEF Invited
      <3>2. CASE OfferAgent(c) /\ x = loc[c].peer /\ s = loc[c].sid
        BY <3>2 DEF OfferAgent, Introductions
      <3> QED BY <1>1, <1>3, <3>1, <3>2 DEF Tells
    <2> QED BY <1>1, <1>2, <2>1, PartiesStay
  <1>4. ASSUME NEW x \in Conns, NEW s \in Sids, <<"reply", s>> \in told'[x]
        PROVE  at'[x] # "new" /\ parties'[s].client = Dev[x]
    <2>1. at[x] # "new" /\ parties[s].client = Dev[x]
      <3>1. CASE <<"reply", s>> \in told[x]
        BY <3>1 DEF Invited
      <3>2. CASE ReplyClient(c) /\ x = c /\ s = loc[c].sid
        BY <3>2 DEF ReplyClient, Introductions
      <3> QED BY <1>1, <1>4, <3>1, <3>2 DEF Tells
    <2> QED BY <1>1, <1>2, <2>1, PartiesStay
  <1> QED BY <1>3, <1>4 DEF Invited

\* A session that has ended concerns nobody anew.
LEMMA ConcernEnds ==
    ASSUME HubInv, NEW c \in Conns, Step(c) \/ Environment(c),
           NEW s \in Sids \ sessions, s \notin sessions', NEW x \in Conns, Concerned(s, x)'
    PROVE  Concerned(s, x)
  <1>1. Tells(c) /\ Enters(c) /\ \A y \in Conns \ {c} : UNCHANGED <<at[y], loc[y]>>
    BY StepTells, EnvironmentTells, AllEnter, OthersStay
  <1>2. CASE <<"offer", s>> \in told'[x] \/ <<"reply", s>> \in told'[x]
    <2>1. OfferAgent(c) => at[c] = "offer"
      BY DEF OfferAgent
    <2>2. ReplyClient(c) => at[c] = "reply"
      BY DEF ReplyClient
    <2> QED BY <1>1, <1>2, <2>1, <2>2 DEF Tells, Concerned
  <1>3. ASSUME NEW y \in Conns, at'[y] \in {"bind", "offer"}, loc'[y].sid = s, loc'[y].peer = x
        PROVE  at[y] \in {"bind", "offer"} /\ loc[y].sid = s /\ loc[y].peer = x
    BY <1>1, <1>3 DEF Enters
  <1>4. ASSUME at'[x] \in {"bind", "offer", "reply"}, loc'[x].sid = s
        PROVE  at[x] \in {"bind", "offer", "reply"} /\ loc[x].sid = s
    BY <1>1, <1>4 DEF Enters
  <1> QED BY <1>2, <1>3, <1>4 DEF Concerned

\* Those whom a session concerns are its parties, and have been opened.
LEMMA ConcernedAreParties ==
    ASSUME HubInv, Introductions, Invited, NEW s \in Sids, NEW x \in Conns, Concerned(s, x)
    PROVE  at[x] # "new" /\ Dev[x] \in {parties[s].agent, parties[s].client}
  BY DEF Concerned, Introductions, Invited

\* The announcement reaches whoever the tables name.
LEMMA AnnounceReaches ==
    ASSUME HubInv, NEW c \in Conns, Announce(c), NEW x \in Conns,
           Dev[x] \in {parties[loc[c].sid].agent, parties[loc[c].sid].client},
           Reachable(x), loc[c].dev # Dev[x]
    PROVE  <<"end", loc[c].sid>> \in told'[x]
  <1> DEFINE s == loc[c].sid
  <1>1. s \in Sids /\ parties[s] \in [client : Clients, agent : Agents]
    BY DEF HubInv, PointsMean, LocalsMean, Announce, SidPoints, SessionsNamed
  <1>2. x \in EndTargets(s, loc[c].dev)
    BY <1>1, HubAssumption DEF Reachable, EndTargets, HubInv, TablesOwn
  <1>3. PICK sent : sent = {<<y, <<"end", s>>>> : y \in EndTargets(s, loc[c].dev)} /\ told' = Enqueue(sent)
    BY DEF Announce
  <1>4. <<x, <<"end", s>>>> \in sent
    BY <1>2, <1>3
  <1>5. <<"end", s>> \in {f[2] : f \in {g \in sent : g[1] = x}}
    BY <1>4
  <1> QED BY <1>3, <1>5 DEF Enqueue, Reachable

LEMMA ReachKept ==
    ASSUME HubInv, EndsInv, [Next]_vars, NEW c \in Conns, Step(c) \/ Environment(c)
    PROVE  EndsReach'
  <1> SUFFICES ASSUME NEW s \in Sids \ sessions', NEW x \in Conns,
                      Concerned(s, x)', Reachable(x)', ender'[s] # Dev[x]
               PROVE  <<"end", s>> \in told'[x] \/ Announcing(s)'
    BY DEF EndsReach
  <1>1. CASE s \in sessions
    BY <1>1, EndingIsAnnounced
  <1>2. CASE s \notin sessions
    <2>1. Concerned(s, x) /\ UNCHANGED ender[s]
      BY <1>2, ConcernEnds, EndingIsAnnounced
    <2>2. Dev[x] \in {parties[s].agent, parties[s].client} /\ Reachable(x)
      BY <2>1, ConcernedAreParties, ReachMoves DEF EndsInv
    <2>3. <<"end", s>> \in told[x] \/ Announcing(s)
      BY <1>2, <2>1, <2>2 DEF EndsInv, EndsReach
    <2>4. CASE <<"end", s>> \in told[x]
      BY <2>4, StepTells, EnvironmentTells DEF Tells
    <2>5. ASSUME NEW w \in Conns, at[w] = "announce", loc[w].sid = s, loc[w].dev = ender[s]
          PROVE  <<"end", s>> \in told'[x] \/ Announcing(s)'
      <3>1. CASE UNCHANGED <<at[w], loc[w]>>
        BY <2>1, <2>5, <3>1 DEF Announcing
      <3>2. CASE w = c /\ Announce(c)
        BY <2>1, <2>2, <2>5, <3>2, AnnounceReaches
      <3>3. w = c => Announce(c) \/ UNCHANGED <<at[c], loc[c]>>
        <4> SUFFICES ASSUME at[c] = "announce" PROVE Announce(c) \/ UNCHANGED <<at[c], loc[c]>>
          BY <2>5
        <4>1. CASE Step(c)
          BY <4>1 DEF Step, Detach, Snapshot, Sweep, SweepDone, Introduce, NoSession, BindAgent,
             OfferAgent, ReplyClient, Relay, Compute, Present, TakeWake, Arm, ForgetTell
        <4>2. CASE Environment(c)
          BY <4>2 DEF Environment, AttachAgent, AttachClient, ReadEnds, Cancel, CloseReplaced, Connect,
             Signal, SessionEnd, Register, Update, Wake, Forget, PairPublish, PairSubmit,
             PairPublishRefused, PairRevoke, PairResult, Serving, connVars
        <4> QED BY <4>1, <4>2
      <3> QED BY <3>1, <3>2, <3>3, OthersStay
    <2> QED BY <2>3, <2>4, <2>5 DEF Announcing
  <1> QED BY <1>1, <1>2

LEMMA EndsKept == HubInv /\ EndsInv /\ [Next]_vars => EndsInv'
  <1> SUFFICES ASSUME HubInv, EndsInv, [Next]_vars PROVE EndsInv'
    OBVIOUS
  <1>1. scenario.conns \subseteq Conns
    BY HubAssumption DEF HubInv, TypeOK
  <1>2. ASSUME NEW c \in Conns, Step(c) \/ Environment(c)
        PROVE  EndsInv'
    BY <1>2, IntroductionsKept, InvitedKept, ReachKept DEF EndsInv
  <1>3. CASE \/ \E a \in Agents : WakeExpires(a)
             \/ \E d \in Codes : PairExpires(d)
             \/ UNCHANGED vars
    <2>1. UNCHANGED <<at, loc, alive, told, agents, clients, parties, sessions, ender>>
      BY <1>3 DEF WakeExpires, PairExpires, vars, connVars, hubVars
    <2> QED
      BY <2>1 DEF EndsInv, Introductions, Invited, EndsReach, Concerned, Reachable, Announcing
  <1> QED BY <1>1, <1>2, <1>3 DEF Next

\* When everything is still, whoever was told of a session that has since ended, and did
\* not end it, has been told of its end (endSession), whoever else ended it and how often
\* the parties reconnected meanwhile.
THEOREM EndsAreTold == Spec => []EndIsTold
  <1>1. Init => HubInv /\ ShownInv /\ EndsInv
    <2>1. ASSUME Init PROVE EndsInv
      BY <2>1, HubAssumption DEF Init, EndsInv, Introductions, Invited, EndsReach, Concerned
    <2> QED BY <2>1, InitHolds, ShownAtFirst
  <1>2. HubInv /\ ShownInv /\ EndsInv => EndIsTold
    <2> SUFFICES ASSUME HubInv, ShownInv, EndsInv, Quiescent, NEW s \in Sids \ sessions, NEW x \in Conns,
                        at[x] = "serve", {<<"offer", s>>, <<"reply", s>>} \cap told[x] # {},
                        ender[s] # Dev[x]
                 PROVE  <<"end", s>> \in told[x]
      BY DEF EndIsTold
    <2>1. x \in alive /\ ~Replaced(x) /\ ~Announcing(s)
      BY DEF Quiescent, Announcing
    <2>2. CASE x \in AgentConns
      BY <2>1, <2>2 DEF Replaced, Reachable, AgentConns, EndsInv, EndsReach, Concerned
    <2>3. CASE x \in ClientConns
      <3>1. x \in clients[Dev[x]] /\ Dev[x] \in Clients
        BY <2>1, <2>3, HubAssumption DEF ShownInv, ClientsListed, ClientConns, AgentConns
      <3> QED BY <2>1, <3>1 DEF Reachable, EndsInv, EndsReach, Concerned
    <2> QED BY <2>2, <2>3 DEF ClientConns
  <1> QED BY <1>1, <1>2, NextKeeps, ShownKept, EndsKept, PTL DEF Spec

-----------------------------------------------------------------------------
(* What WaitersTold lacks.  onWake arms a request some time after it saw   *)
(* that the PC has no connection (wake.go); if the PC is still away then,  *)
(* the goroutine that registers it later takes the request.                *)

ArmedInTime == [][\A c \in Conns : Arm(c) => agents[loc[c].dev] = NoConn]_vars

\* The goroutine of c has registered its PC and has yet to look for who waits for it.
Takes(c) ==
    \/ at[c] = "take"
    \/ at[c] \in {"compute", "present"} /\ loc[c].then = "take"

WaitersServed ==
    /\ \A c \in registered : at[c] # "new"
    /\ \A a \in Agents, c \in registered : agents[a] = c /\ waiting[a] # NoDev => Takes(c)

\* Only attach names a new connection of a PC, and only a registration makes one registered.
LEMMA TablesMove ==
    ASSUME HubInv, [Next]_vars, NEW a \in Agents
    PROVE  \/ agents'[a] = agents[a]
           \/ agents'[a] = NoConn
           \/ agents'[a] \in Conns /\ at[agents'[a]] = "new" /\ UNCHANGED registered
  <1>1. TypeOK /\ scenario.conns \subseteq Conns
    BY HubAssumption DEF HubInv, TypeOK
  <1>2. CASE UNCHANGED agents
    BY <1>2
  <1>3. ASSUME NEW c \in Conns, Step(c), ~UNCHANGED agents
        PROVE  agents'[a] \in {agents[a], NoConn}
    <2>1. Detach(c)
      BY <1>3 DEF Step, Snapshot, Sweep, SweepDone, Announce, Introduce, NoSession, BindAgent,
         OfferAgent, ReplyClient, Relay, Compute, Present, TakeWake, Arm, ForgetTell, hubVars
    <2> QED BY <2>1 DEF Detach
  <1>4. ASSUME NEW c \in Conns, Environment(c), ~UNCHANGED agents
        PROVE  AttachAgent(c)
    BY <1>4 DEF Environment, AttachClient, ReadEnds, Cancel, CloseReplaced, Connect, Signal,
       SessionEnd, Register, Update, Wake, Forget, PairPublish, PairSubmit, PairPublishRefused,
       PairRevoke, PairResult, hubVars
  <1>5. ASSUME NEW c \in Conns, AttachAgent(c)
        PROVE  agents'[a] = agents[a] \/ (agents'[a] = c /\ at[c] = "new" /\ UNCHANGED registered)
    BY <1>1, <1>5 DEF AttachAgent, TypeOK, TablesTyped
  <1>6. CASE \/ \E b \in Agents : WakeExpires(b)
             \/ \E d \in Codes : PairExpires(d)
             \/ UNCHANGED vars
    BY <1>2, <1>6 DEF WakeExpires, PairExpires, vars, hubVars
  <1> QED BY <1>1, <1>2, <1>3, <1>4, <1>5, <1>6 DEF Next

\* A connection becomes registered as its goroutine sets out to look for a waiter.
LEMMA RegisteredMoves ==
    ASSUME HubInv, [Next]_vars, NEW x \in registered' \ registered
    PROVE  x \in Conns /\ Takes(x)' /\ at'[x] # "new" /\ UNCHANGED agents
  <1>1. TypeOK /\ scenario.conns \subseteq Conns
    BY HubAssumption DEF HubInv, TypeOK
  <1>2. ~UNCHANGED registered
    OBVIOUS
  <1>3. ASSUME NEW c \in Conns, Step(c) PROVE UNCHANGED registered
    BY <1>3 DEF Step, Detach, Snapshot, Sweep, SweepDone, Announce, Introduce, NoSession, BindAgent,
       OfferAgent, ReplyClient, Relay, Compute, Present, TakeWake, Arm, ForgetTell
  <1>4. ASSUME NEW c \in Conns, Environment(c)
        PROVE  \E list, b : Register(c, list, b)
    BY <1>2, <1>4 DEF Environment, AttachAgent, AttachClient, ReadEnds, Cancel, CloseReplaced, Connect,
       Signal, SessionEnd, Update, Wake, Forget, PairPublish, PairSubmit, PairPublishRefused,
       PairRevoke, PairResult, connVars
  <1>5. ~\E a \in Agents : WakeExpires(a)
    BY <1>2 DEF WakeExpires, connVars
  <1>6. ~\E d \in Codes : PairExpires(d)
    BY <1>2 DEF PairExpires, connVars
  <1>7. ~UNCHANGED vars
    BY <1>2 DEF vars, connVars
  <1>8. PICK c \in Conns : \E list, b : Register(c, list, b)
    BY <1>1, <1>3, <1>4, <1>5, <1>6, <1>7 DEF Next
  <1>9. x = c /\ UNCHANGED agents
    BY <1>8 DEF Register, hubVars
  <1>10. at'[c] = "compute" /\ loc'[c].then = "take"
    <2>1. GoTo(c, "compute", [NoLocals EXCEPT !.dev = Dev[c], !.then = "take"])
      BY <1>8 DEF Register
    <2> QED BY <1>1, <2>1 DEF GoTo, NoLocals, TypeOK, ConnsTyped
  <1> QED BY <1>9, <1>10 DEF Takes

\* A goroutine that is to look for a waiter goes on to do so.
LEMMA TakersGoOn ==
    ASSUME HubInv, [Next]_vars, NEW c \in Conns, Takes(c)
    PROVE  Takes(c)' \/ TakeWake(c)
  <1>1. TypeOK /\ LocalsMean(c) /\ scenario.conns \subseteq Conns
    BY HubAssumption DEF HubInv, PointsMean, TypeOK
  <1>2. CASE UNCHANGED <<at[c], loc[c]>>
    BY <1>2 DEF Takes
  <1>3. at[c] \in {"take", "compute", "present"}
    BY DEF Takes
  <1>4. CASE Step(c)
    <2>1. Compute(c) \/ Present(c) \/ TakeWake(c)
      BY <1>3, <1>4 DEF Step, Detach, Snapshot, Sweep, SweepDone, Announce, Introduce, NoSession,
         BindAgent, OfferAgent, ReplyClient, Relay, Arm, ForgetTell
    <2>2. CASE Compute(c)
      <3>1. loc[c].then = "take"
        BY <2>2 DEF Compute, Takes
      <3>2. \/ GoTo(c, "present", [loc[c] EXCEPT !.info = Presence(loc[c].dev), !.to = paired[loc[c].dev]])
            \/ GoTo(c, "take", [NoLocals EXCEPT !.dev = loc[c].dev])
        BY <2>2, <3>1 DEF Compute, AfterPresence
      <3>3. loc[c] \in Locals /\ at \in [Conns -> Points] /\ loc \in [Conns -> Locals]
        BY <1>1 DEF TypeOK, ConnsTyped
      <3>4. CASE GoTo(c, "take", [NoLocals EXCEPT !.dev = loc[c].dev])
        BY <3>3, <3>4 DEF GoTo, Takes
      <3>5. CASE GoTo(c, "present", [loc[c] EXCEPT !.info = Presence(loc[c].dev), !.to = paired[loc[c].dev]])
        <4>1. at'[c] = "present" /\ loc'[c].then = loc[c].then
          BY <3>3, <3>5 DEF GoTo, Locals
        <4> QED BY <3>1, <4>1 DEF Takes
      <3> QED BY <3>2, <3>4, <3>5
    <2>3. CASE Present(c)
      <3>1. \E l : GoTo(c, "take", l)
        BY <2>3 DEF Present, Takes, AfterPresence
      <3> QED BY <1>1, <3>1 DEF GoTo, Takes, TypeOK, ConnsTyped
    <2> QED BY <2>1, <2>2, <2>3
  <1>5. CASE Environment(c)
    <2>1. UNCHANGED <<at, loc>>
      BY <1>3, <1>5 DEF Environment, AttachAgent, AttachClient, ReadEnds, Cancel, CloseReplaced, Connect,
         Signal, SessionEnd, Register, Update, Wake, Forget, PairPublish, PairSubmit,
         PairPublishRefused, PairRevoke, PairResult, connVars, Serving
    <2> QED BY <1>2, <2>1
  <1>6. ASSUME NEW d \in Conns \ {c}, Step(d) \/ Environment(d) PROVE UNCHANGED <<at[c], loc[c]>>
    BY <1>6, OthersStay
  <1>7. CASE \/ \E a \in Agents : WakeExpires(a)
             \/ \E d \in Codes : PairExpires(d)
             \/ UNCHANGED vars
    BY <1>2, <1>7 DEF WakeExpires, PairExpires, vars, connVars
  <1> QED BY <1>1, <1>2, <1>4, <1>5, <1>6, <1>7 DEF Next

\* Only onWake makes anyone wait, and noteAgentOnline leaves nobody waiting.
LEMMA WaitersMove ==
    ASSUME HubInv, [Next]_vars, NEW a \in Agents
    PROVE  /\ waiting'[a] # NoDev /\ waiting[a] = NoDev =>
                \E c \in Conns : Arm(c) /\ loc[c].dev = a /\ UNCHANGED <<agents, registered>>
           /\ \A c \in Conns : Dev[c] = a /\ TakeWake(c) => waiting'[a] = NoDev
  <1>1. TypeOK /\ scenario.conns \subseteq Conns
    BY HubAssumption DEF HubInv, TypeOK
  <1>2. ASSUME NEW c \in Conns, TakeWake(c)
        PROVE  waiting' = [waiting EXCEPT ![Dev[c]] = NoDev] /\ Dev[c] \in Agents
    BY <1>2 DEF TakeWake, HubInv, PointsMean, LocalsMean, AgentConns
  <1>3. \A c \in Conns : Dev[c] = a /\ TakeWake(c) => waiting'[a] = NoDev
    BY <1>1, <1>2 DEF TypeOK, RegistryTyped
  <1>4. ASSUME NEW c \in Conns, Arm(c), waiting'[a] # waiting[a]
        PROVE  loc[c].dev = a /\ UNCHANGED <<agents, registered>>
    BY <1>1, <1>4 DEF Arm, TypeOK, RegistryTyped, hubVars
  <1>5. ASSUME NEW c \in Conns, Step(c), ~TakeWake(c), ~Arm(c) PROVE UNCHANGED waiting
    BY <1>5 DEF Step, Detach, Snapshot, Sweep, SweepDone, Announce, Introduce, NoSession, BindAgent,
       OfferAgent, ReplyClient, Relay, Compute, Present, ForgetTell, wakeVars
  <1>6. ASSUME NEW c \in Conns, Environment(c) PROVE UNCHANGED waiting
    BY <1>6 DEF Environment, AttachAgent, AttachClient, ReadEnds, Cancel, CloseReplaced,
       Connect, Signal, SessionEnd, Register, Update, Wake, Forget, PairPublish, PairSubmit,
       PairPublishRefused, PairRevoke, PairResult, wakeVars
  <1>7. ASSUME NEW b \in Agents, WakeExpires(b) PROVE waiting'[a] \in {waiting[a], NoDev}
    BY <1>1, <1>7 DEF WakeExpires, TypeOK, RegistryTyped
  <1>8. CASE (\E d \in Codes : PairExpires(d)) \/ UNCHANGED vars
    BY <1>3, <1>8 DEF PairExpires, vars, wakeVars
  <1>9. ASSUME NEW c \in Conns, TakeWake(c) PROVE waiting'[a] \in {waiting[a], NoDev}
    BY <1>1, <1>2, <1>9 DEF TypeOK, RegistryTyped
  <1> QED BY <1>1, <1>3, <1>4, <1>5, <1>6, <1>7, <1>8, <1>9 DEF Next

LEMMA ServedKept ==
    /\ HubInv /\ WaitersServed /\ [Next]_vars
    /\ [\A c \in Conns : Arm(c) => agents[loc[c].dev] = NoConn]_vars
    => WaitersServed'
  <1> SUFFICES ASSUME HubInv, WaitersServed, [Next]_vars,
                      [\A c \in Conns : Arm(c) => agents[loc[c].dev] = NoConn]_vars
               PROVE  WaitersServed'
    OBVIOUS
  <1>1. registered \subseteq Conns /\ NoConn \notin Conns /\ TablesOwn
    BY HubAssumption DEF HubInv, TypeOK, ConnsTyped
  <1>2. \A c \in registered' : at'[c] # "new"
    BY <1>1, OnlyForward, RegisteredMoves DEF WaitersServed
  <1>3. ASSUME NEW a \in Agents, NEW c \in registered', agents'[a] = c, waiting'[a] # NoDev
        PROVE  Takes(c)'
    <2>1. CASE c \notin registered
      BY <2>1, RegisteredMoves
    <2>2. CASE c \in registered
      <3>1. c \in Conns /\ c = agents[a]
        BY <1>1, <1>3, <2>2, TablesMove DEF WaitersServed
      <3>2. Dev[c] = a
        BY <1>1, <3>1 DEF TablesOwn
      <3>3. waiting[a] # NoDev
        <4> SUFFICES ASSUME waiting[a] = NoDev PROVE FALSE
          OBVIOUS
        <4>1. PICK d \in Conns : Arm(d) /\ loc[d].dev = a /\ UNCHANGED <<agents, registered>>
          BY <1>3, WaitersMove
        <4>2. ~UNCHANGED vars
          BY <1>3 DEF vars, wakeVars
        <4>3. agents[a] = NoConn
          BY <4>1, <4>2
        <4> QED BY <1>1, <3>1, <4>3
      <3>4. Takes(c)
        BY <2>2, <3>1, <3>3 DEF WaitersServed
      <3>5. ~TakeWake(c)
        BY <1>3, <3>1, <3>2, WaitersMove
      <3> QED BY <3>1, <3>4, <3>5, TakersGoOn
    <2> QED BY <2>1, <2>2
  <1> QED BY <1>2, <1>3 DEF WaitersServed

\* If no request is armed for a PC that has come back meanwhile, nobody waits for a PC that
\* is online when everything is still (onWake, noteAgentOnline): WaitersTold, with the
\* condition it needs.
THEOREM WaitersAreToldInTime == Spec /\ ArmedInTime => []WaitersTold
  <1>1. Init => HubInv /\ WaitersServed
    BY InitHolds DEF Init, WaitersServed
  <1>2. HubInv /\ WaitersServed => WaitersTold
    <2> SUFFICES ASSUME HubInv, WaitersServed, Quiescent, NEW a \in Agents, agents[a] \in registered
                 PROVE  waiting[a] = NoDev
      BY DEF WaitersTold
    <2>1. agents[a] \in Conns
      BY DEF HubInv, TypeOK, ConnsTyped
    <2>2. ~Takes(agents[a])
      BY <2>1 DEF Quiescent, Takes
    <2> QED BY <2>2 DEF WaitersServed
  <1> QED BY <1>1, <1>2, NextKeeps, ServedKept, PTL DEF Spec, ArmedInTime

-----------------------------------------------------------------------------
(* What follows for clients and codes.                                     *)

\* The session of a client that has left ends: when the last connection of its client is
\* gone (detach), no session is in the table.  The safety half of EndsWithClient.
ClientIsThere ==
    \A s \in sessions : \E c \in Conns : Dev[c] = parties[s].client /\ at[c] \notin {"new", "gone"}

THEOREM SessionsLeaveWithClient == Spec => []ClientIsThere
  <1>1. HubInv => ClientIsThere
    <2> SUFFICES ASSUME HubInv, NEW s \in sessions
                 PROVE  \E c \in Conns : Dev[c] = parties[s].client /\ at[c] \notin {"new", "gone"}
      BY DEF ClientIsThere
    <2>1. s \in Sids /\ parties[s].client \in Clients
      BY DEF HubInv, TypeOK, TablesTyped, SessionsNamed
    <2>2. PICK c \in Conns : Dev[c] = parties[s].client /\ AnswersFor(c, s)
      BY DEF HubInv, SessionOwned
    <2>3. c \in ClientConns
      BY <2>1, <2>2, HubAssumption DEF ClientConns, AgentConns
    <2>4. at[c] = "new" => held[c] = {}
      BY <2>3 DEF HubInv, PointsMean, LocalsMean
    <2> QED BY <2>2, <2>4 DEF AnswersFor
  <1> QED BY <1>1, HubInvariant, PTL

\* What the goroutine of a connection does to the windows.
LEMMA HubMovesWindows ==
    ASSUME HubInv, NEW c \in Conns, Step(c) \/ Environment(c)
    PROVE  Pairs!Next \/ UNCHANGED pairVars
  <1> DEFINE Own == {d \in Pairs!Held(phase) : holder[d] = Dev[c]}
  <1>1. Own \in SUBSET Codes
    BY DEF Pairs!Held
  <1>2. ASSUME Pairs!Close(Own) PROVE Pairs!Next
    BY <1>1, <1>2 DEF Pairs!Next
  <1>3. CASE SweepDone(c) \/ PairPublishRefused(c) \/ PairRevoke(c)
    BY <1>2, <1>3 DEF SweepDone, PairPublishRefused, PairRevoke
  <1>4. ASSUME NEW d \in Codes, PairPublish(c, d) PROVE Pairs!Next
    <2>1. Dev[c] \in Agents /\ Pairs!Open(Dev[c], d, "open")
      BY <1>4 DEF PairPublish, AgentConns
    <2> QED BY <2>1 DEF Pairs!Next
  <1>5. ASSUME NEW d \in Codes, PairSubmit(c, d) PROVE Pairs!Next
    BY <1>5 DEF PairSubmit, Pairs!Next
  <1>6. ASSUME NEW k \in Clients, NEW ok \in BOOLEAN, PairResult(c, k, ok)
        PROVE  Pairs!Next \/ UNCHANGED pairVars
    BY <1>2, <1>6 DEF PairResult
  <1>7. CASE Step(c) /\ ~SweepDone(c)
    BY <1>7 DEF Step, Detach, Snapshot, Sweep, Announce, Introduce, NoSession, BindAgent, OfferAgent,
       ReplyClient, Relay, Compute, Present, TakeWake, Arm, ForgetTell
  <1>8. CASE Environment(c)
    BY <1>3, <1>4, <1>5, <1>6, <1>8 DEF Environment, AttachAgent, AttachClient, ReadEnds, Cancel,
       CloseReplaced, Connect, Signal, SessionEnd, Register, Update, Wake, Forget
  <1> QED BY <1>3, <1>7, <1>8

\* Through the hub too a code is opened once, tried once and then closed for good
\* (onPairPublish, onPairSubmit, onPairResult, detach): the hub implements OneShotCode,
\* whatever connections come and go.
THEOREM HubCodesAreOneShot == Spec => Pairs!Spec
  <1>1. Init => Pairs!Init
    BY DEF Init
  <1>2. ASSUME HubInv, [Next]_vars PROVE [Pairs!Next]_(Pairs!abstractVars)
    <2>1. scenario.conns \subseteq Conns
      BY <1>2, HubAssumption DEF HubInv, TypeOK
    <2>2. ASSUME NEW d \in Codes, PairExpires(d) PROVE Pairs!Next
      <3>1. {d} \in SUBSET Codes /\ Pairs!Close({d})
        BY <2>2 DEF PairExpires
      <3> QED BY <3>1 DEF Pairs!Next
    <2>3. CASE (\E a \in Agents : WakeExpires(a)) \/ UNCHANGED vars
      BY <2>3 DEF WakeExpires, vars, pairVars, Pairs!abstractVars
    <2> QED BY <1>2, <2>1, <2>2, <2>3, HubMovesWindows DEF Next, pairVars, Pairs!abstractVars
  <1> QED BY <1>1, <1>2, HubInvariant, PTL DEF Spec, Pairs!Spec
=============================================================================
