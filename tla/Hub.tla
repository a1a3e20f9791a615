-------------------------------- MODULE Hub --------------------------------
(***************************************************************************)
(* The rendezvous hub, internal/rendezvous/signal/{hub,conn,wake}.go.      *)
(*                                                                         *)
(* Every websocket connection is served by one goroutine that reads a      *)
(* message, runs its handler to the end and reads the next (readPump), and *)
(* at last detaches itself.  A handler takes and releases the locks of the *)
(* hub, of connections, of the registry and of the pairing store several   *)
(* times; between two of those it can be overtaken by the handlers of any  *)
(* other connection.  at[c] says where the goroutine of connection c is,   *)
(* loc[c] holds the local variables it carries from one step to the next.  *)
(*                                                                         *)
(* Outgoing queues are kept as the set of frames that were accepted for a  *)
(* live connection (told) and the last presence it was sent (shown): a     *)
(* frame for a connection whose context is done is lost, and an overflow   *)
(* of the 64-frame queue cancels the connection, as Cancel may at any time.*)
(* Error replies, list replies and rate-limited requests change no state   *)
(* and are left out.  The pairing store is the one-shot code it implements *)
(* (PairStore).                                                            *)
(***************************************************************************)
EXTENDS Integers, FiniteSets

CONSTANTS Agents, Clients,   \* device identities
          Conns, Dev,        \* connections, and the device each belongs to
          Sids,              \* session ids newSessionID can draw
          Codes,             \* code handles of pairing windows
          MaxClientConns,    \* connections one client may have (8 in attach)
          MaxOpenWindows,    \* pairing.MaxOpenWindows
          Scenarios,         \* bounds: which connections open, which messages are sent
          NoConn, NoDev, NoSid

ASSUME HubAssumption ==
    /\ Agents \cap Clients = {}
    /\ Dev \in [Conns -> Agents \cup Clients]
    /\ MaxClientConns \in Nat \ {0}
    /\ \A s \in Scenarios : s.conns \subseteq Conns
    /\ NoConn \notin Conns /\ NoSid \notin Sids
    /\ NoDev \notin Agents \cup Clients

VARIABLES
    at,        \* control point of each connection's goroutine
    loc,       \* its local variables
    alive,     \* connections whose context is not done
    held,      \* c.sessions
    busy,      \* c.busy
    told,      \* frames accepted for each connection
    shown,     \* last presence of each PC sent to each connection
    agents,    \* h.agents
    clients,   \* h.clients
    sessions,  \* keys of h.sessions
    parties,   \* the Session record of every id ever drawn
    ender,     \* history: who ended a session
    waiting,   \* h.wake.pending
    asked,     \* history: wake requests that were armed
    paired,    \* h.reg: the clients paired with each PC
    known,     \* h.reg: the PCs that have a record
    registered,\* history: agent connections that have registered
    phase, holder, attempts,  \* h.pairs
    scenario   \* the bound this behaviour keeps to; it never changes

connVars == <<at, loc, alive, held, busy, told, shown, registered>>
hubVars == <<agents, clients, sessions, parties, ender>>
wakeVars == <<waiting, asked>>
regVars == <<paired, known>>
pairVars == <<phase, holder, attempts>>
vars == <<connVars, hubVars, wakeVars, regVars, pairVars, scenario>>

Pairs == INSTANCE OneShotCode WITH NoAgent <- NoDev

-----------------------------------------------------------------------------
Devices == Agents \cup Clients
AgentConns == {c \in Conns : Dev[c] \in Agents}
ClientConns == Conns \ AgentConns

Points == {"new", "serve", "relay", "announce", "introduce", "bind", "offer",
           "reply", "forget", "arm", "compute", "present", "take",
           "leaving", "snapshot", "sweep", "gone"}

Presences == {"none", "offline", "idle", "busy"}

Frames == ({"offer", "reply", "end"} \X Sids)
          \cup ({"signal"} \X Sids \X Devices)
          \cup ({"submit", "verdict"} \X Devices)
          \cup ({"awake", "stayAwake", "forget"} \X Devices)

Locals == [sid : Sids \cup {NoSid}, peer : Conns \cup {NoConn},
           dev : Devices \cup {NoDev}, info : Presences,
           to : SUBSET Clients, todo : SUBSET Sids, then : Points]

NoLocals == [sid |-> NoSid, peer |-> NoConn, dev |-> NoDev, info |-> "none",
             to |-> {}, todo |-> {}, then |-> "serve"]

NoParties == [client |-> NoDev, agent |-> NoDev]

ConnsTyped ==
    /\ at \in [Conns -> Points]
    /\ loc \in [Conns -> Locals]
    /\ alive \in SUBSET Conns
    /\ held \in [Conns -> SUBSET Sids]
    /\ busy \in [Conns -> BOOLEAN]
    /\ registered \in SUBSET Conns

SentTyped ==
    /\ told \in [Conns -> SUBSET Frames]
    /\ shown \in [Conns -> [Agents -> Presences]]

TablesTyped ==
    /\ agents \in [Agents -> Conns \cup {NoConn}]
    /\ clients \in [Clients -> SUBSET Conns]
    /\ sessions \in SUBSET Sids
    /\ parties \in [Sids -> [client : Clients \cup {NoDev}, agent : Agents \cup {NoDev}]]
    /\ ender \in [Sids -> Devices \cup {NoDev}]

RegistryTyped ==
    /\ waiting \in [Agents -> Clients \cup {NoDev}]
    /\ asked \in SUBSET (Clients \X Agents)
    /\ paired \in [Agents -> SUBSET Clients]
    /\ known \in SUBSET Agents

WindowsTyped ==
    /\ phase \in [Codes -> Pairs!Phases]
    /\ holder \in [Codes -> Agents \cup {NoDev}]
    /\ attempts \in [Codes -> Nat]

\* Every variable has its type.
TypeOK ==
    /\ ConnsTyped
    /\ SentTyped
    /\ TablesTyped
    /\ RegistryTyped
    /\ WindowsTyped
    /\ scenario \in Scenarios

\* The bound of this behaviour; "restored" is the registry file of an earlier
\* run of the server.
Sent(message) == message \in scenario.messages

Init ==
    /\ at = [c \in Conns |-> "new"]
    /\ loc = [c \in Conns |-> NoLocals]
    /\ alive = Conns
    /\ held = [c \in Conns |-> {}]
    /\ busy = [c \in Conns |-> FALSE]
    /\ told = [c \in Conns |-> {}]
    /\ shown = [c \in Conns |-> [a \in Agents |-> "none"]]
    /\ agents = [a \in Agents |-> NoConn]
    /\ clients = [k \in Clients |-> {}]
    /\ sessions = {}
    /\ parties = [s \in Sids |-> NoParties]
    /\ ender = [s \in Sids |-> NoDev]
    /\ waiting = [a \in Agents |-> NoDev]
    /\ asked = {}
    /\ scenario \in Scenarios
    /\ known = IF Sent("restored") THEN Agents ELSE {}
    /\ paired = [a \in Agents |-> IF Sent("restored") THEN Clients ELSE {}]
    /\ registered = {}
    /\ Pairs!Init

-----------------------------------------------------------------------------
\* The frames each connection has been handed once those of "sent" are queued.
Enqueue(sent) ==
    [x \in Conns |-> IF x \in alive THEN told[x] \cup {f[2] : f \in {g \in sent : g[1] = x}}
                     ELSE told[x]]

ToAgent(a, frame) == IF agents[a] = NoConn THEN {} ELSE {<<agents[a], frame>>}
ToClient(k, frame) == {<<x, frame>> : x \in clients[k]}

GoTo(c, point, locals) ==
    /\ at' = [at EXCEPT ![c] = point]
    /\ loc' = [loc EXCEPT ![c] = locals]

Finish(c) == GoTo(c, "serve", NoLocals)

\* What deviceInfo reports of a PC.
Presence(a) ==
    IF agents[a] = NoConn THEN "offline"
    ELSE IF busy[agents[a]] THEN "busy" ELSE "idle"

\* Session ids some peer has been told, and so can name in a message.
Disclosed == {s \in Sids : \E c \in Conns : <<"offer", s>> \in told[c] \/ <<"reply", s>> \in told[c]}

Serving(c) == at[c] = "serve" /\ c \in alive

-----------------------------------------------------------------------------
(* Connections come and go.                                                *)

AttachAgent(c) ==
    /\ at[c] = "new" /\ c \in AgentConns
    /\ agents' = [agents EXCEPT ![Dev[c]] = c]
    /\ at' = [at EXCEPT ![c] = "serve"]
    /\ UNCHANGED <<loc, alive, held, busy, told, shown, registered, clients, sessions,
                   parties, ender, wakeVars, regVars, pairVars>>

AttachClient(c) ==
    /\ at[c] = "new" /\ c \in ClientConns
    /\ IF Cardinality(clients[Dev[c]]) >= MaxClientConns
       THEN at' = [at EXCEPT ![c] = "gone"] /\ UNCHANGED clients
       ELSE /\ at' = [at EXCEPT ![c] = "serve"]
            /\ clients' = [clients EXCEPT ![Dev[c]] = @ \cup {c}]
    /\ UNCHANGED <<loc, alive, held, busy, told, shown, registered, agents, sessions,
                   parties, ender, wakeVars, regVars, pairVars>>

\* A connection the agents table no longer names is closed by attach's
\* goroutine; any connection may also fail a ping or a write or overflow.
Replaced(c) ==
    c \in AgentConns /\ at[c] \notin {"new", "gone"} /\ agents[Dev[c]] # c

Cancel(c) ==
    /\ at[c] \notin {"new", "gone"} /\ c \in alive
    /\ alive' = alive \ {c}
    /\ UNCHANGED <<at, loc, held, busy, told, shown, registered, hubVars, wakeVars,
                   regVars, pairVars>>

\* A mutant of CloseReplaced: attach leaves the old connection to itself.
CloseReplaced_Never(c) == Cancel(c) /\ FALSE

CloseReplaced(c) == Replaced(c) /\ Cancel(c)

\* The next read fails: the peer closed, or the context is done.
ReadEnds(c) ==
    /\ at[c] = "serve"
    /\ at' = [at EXCEPT ![c] = "leaving"]
    /\ UNCHANGED <<loc, alive, held, busy, told, shown, registered, hubVars, wakeVars,
                   regVars, pairVars>>

\* detach, under h.mu.
Detach(c) ==
    /\ at[c] = "leaving"
    /\ alive' = alive \ {c}
    /\ agents' = [a \in Agents |-> IF agents[a] = c THEN NoConn ELSE agents[a]]
    /\ clients' = [k \in Clients |-> clients[k] \ {c}]
    /\ at' = [at EXCEPT ![c] = "snapshot"]
    /\ UNCHANGED <<loc, held, busy, told, shown, registered, sessions, parties, ender,
                   wakeVars, regVars, pairVars>>

\* detach: c.sessionIDs().
Snapshot(c) ==
    /\ at[c] = "snapshot"
    /\ GoTo(c, "sweep", [NoLocals EXCEPT !.todo = held[c]])
    /\ UNCHANGED <<alive, held, busy, told, shown, registered, hubVars, wakeVars,
                   regVars, pairVars>>

\* endSession up to the unlock: "by" is the requester, NoDev the server itself.
MayEnd(s, by) ==
    /\ s \in sessions
    /\ by \in {NoDev, parties[s].client, parties[s].agent}

EndSession(s, by) ==
    /\ sessions' = sessions \ {s}
    /\ ender' = [ender EXCEPT ![s] = by]

\* One turn of detach's loop over its sessions.
Sweep(c) ==
    /\ at[c] = "sweep"
    /\ \E s \in loc[c].todo :
         LET rest == [NoLocals EXCEPT !.todo = loc[c].todo \ {s}]
         IN IF MayEnd(s, Dev[c])
            THEN /\ EndSession(s, Dev[c])
                 /\ GoTo(c, "announce",
                         [rest EXCEPT !.sid = s, !.dev = Dev[c], !.then = "sweep"])
            ELSE GoTo(c, "sweep", rest) /\ UNCHANGED <<sessions, ender>>
    /\ UNCHANGED <<alive, held, busy, told, shown, registered, agents, clients, parties,
                   wakeVars, regVars, pairVars>>

\* A mutant of SweepDone: no presence is broadcast.
SweepDone_Silent(c) ==
    /\ at[c] = "sweep" /\ loc[c].todo = {}
    /\ IF c \in AgentConns
       THEN Pairs!Close({d \in Pairs!Held(phase) : holder[d] = Dev[c]})
       ELSE UNCHANGED pairVars
    /\ GoTo(c, "gone", NoLocals)
    /\ UNCHANGED <<alive, held, busy, told, shown, registered, hubVars, wakeVars, regVars>>

\* A mutant of SweepDone: the window is left to its expiry.
SweepDone_KeepsWindow(c) ==
    /\ at[c] = "sweep" /\ loc[c].todo = {}
    /\ IF c \in AgentConns
       THEN GoTo(c, "compute", [NoLocals EXCEPT !.dev = Dev[c], !.then = "gone"])
       ELSE GoTo(c, "gone", NoLocals)
    /\ UNCHANGED <<alive, held, busy, told, shown, registered, hubVars, wakeVars, regVars,
                   pairVars>>

\* The end of detach: a PC's window is revoked, whoever opened it, and its
\* presence broadcast.
SweepDone(c) ==
    /\ at[c] = "sweep" /\ loc[c].todo = {}
    /\ IF c \in AgentConns
       THEN /\ Pairs!Close({d \in Pairs!Held(phase) : holder[d] = Dev[c]})
            /\ GoTo(c, "compute", [NoLocals EXCEPT !.dev = Dev[c], !.then = "gone"])
       ELSE GoTo(c, "gone", NoLocals) /\ UNCHANGED pairVars
    /\ UNCHANGED <<alive, held, busy, told, shown, registered, hubVars, wakeVars, regVars>>

-----------------------------------------------------------------------------
(* Sessions.                                                               *)

\* A mutant of EndTargets that forgets the client's side.
EndTargets_AgentOnly(s, by) ==
    {x \in Conns : parties[s].agent # by /\ agents[parties[s].agent] = x}

\* The connections of the parties of s other than the requester.
EndTargets(s, by) ==
    {x \in Conns : \/ parties[s].agent # by /\ agents[parties[s].agent] = x
                   \/ parties[s].client # by /\ x \in clients[parties[s].client]}

\* endSession after the unlock: tell each party but the requester.
Announce(c) ==
    /\ at[c] = "announce"
    /\ LET s == loc[c].sid
           targets == EndTargets(s, loc[c].dev)
       IN /\ told' = Enqueue({<<x, <<"end", s>>>> : x \in targets})
          /\ held' = [x \in Conns |-> IF x \in targets THEN held[x] \ {s} ELSE held[x]]
    /\ GoTo(c, loc[c].then, [NoLocals EXCEPT !.todo = loc[c].todo])
    /\ UNCHANGED <<alive, busy, shown, registered, hubVars, wakeVars, regVars, pairVars>>

\* onConnect: the registry is read, then the agent's connection.
Connect(c, a) ==
    /\ Serving(c) /\ c \in ClientConns
    /\ a \in known /\ Dev[c] \in paired[a]
    /\ agents[a] # NoConn
    /\ GoTo(c, "introduce", [NoLocals EXCEPT !.peer = agents[a], !.dev = a])
    /\ UNCHANGED <<alive, held, busy, told, shown, registered, hubVars, wakeVars,
                   regVars, pairVars>>

\* A mutant of Introduce: the client's connection does not hold the session.
Introduce_NotHeld(c, s) ==
    /\ at[c] = "introduce"
    /\ parties[s] = NoParties
    /\ sessions' = sessions \cup {s}
    /\ parties' = [parties EXCEPT ![s] = [client |-> Dev[c], agent |-> loc[c].dev]]
    /\ GoTo(c, "bind", [loc[c] EXCEPT !.sid = s])
    /\ UNCHANGED <<alive, held, busy, told, shown, registered, agents, clients, ender,
                   wakeVars, regVars, pairVars>>

\* A mutant of Introduce: an id is free again once its session has ended.
Introduce_Reuses(c, s) ==
    /\ at[c] = "introduce"
    /\ s \notin sessions
    /\ sessions' = sessions \cup {s}
    /\ parties' = [parties EXCEPT ![s] = [client |-> Dev[c], agent |-> loc[c].dev]]
    /\ held' = [held EXCEPT ![c] = @ \cup {s}]
    /\ GoTo(c, "bind", [loc[c] EXCEPT !.sid = s])
    /\ UNCHANGED <<alive, busy, told, shown, registered, agents, clients, ender,
                   wakeVars, regVars, pairVars>>

\* A session appears, and with it c.addSession: nobody else can name the
\* fresh id yet.
Introduce(c, s) ==
    /\ at[c] = "introduce"
    /\ parties[s] = NoParties
    /\ sessions' = sessions \cup {s}
    /\ parties' = [parties EXCEPT ![s] = [client |-> Dev[c], agent |-> loc[c].dev]]
    /\ held' = [held EXCEPT ![c] = @ \cup {s}]
    /\ GoTo(c, "bind", [loc[c] EXCEPT !.sid = s])
    /\ UNCHANGED <<alive, busy, told, shown, registered, agents, clients, ender,
                   wakeVars, regVars, pairVars>>

\* newSessionID fails.
NoSession(c) ==
    /\ at[c] = "introduce"
    /\ Finish(c)
    /\ UNCHANGED <<alive, held, busy, told, shown, registered, hubVars, wakeVars,
                   regVars, pairVars>>

BindAgent(c) ==
    /\ at[c] = "bind"
    /\ held' = [held EXCEPT ![loc[c].peer] = @ \cup {loc[c].sid}]
    /\ GoTo(c, "offer", loc[c])
    /\ UNCHANGED <<alive, busy, told, shown, registered, hubVars, wakeVars, regVars, pairVars>>

OfferAgent(c) ==
    /\ at[c] = "offer"
    /\ told' = Enqueue({<<loc[c].peer, <<"offer", loc[c].sid>>>>})
    /\ GoTo(c, "reply", [NoLocals EXCEPT !.sid = loc[c].sid])
    /\ UNCHANGED <<alive, held, busy, shown, registered, hubVars, wakeVars, regVars, pairVars>>

ReplyClient(c) ==
    /\ at[c] = "reply"
    /\ told' = Enqueue({<<c, <<"reply", loc[c].sid>>>>})
    /\ Finish(c)
    /\ UNCHANGED <<alive, held, busy, shown, registered, hubVars, wakeVars, regVars, pairVars>>

\* onSignal: the session is read under the lock ...
Signal(c, s) ==
    /\ Serving(c) /\ s \in Disclosed
    /\ s \in sessions
    /\ Dev[c] \in {parties[s].client, parties[s].agent}
    /\ GoTo(c, "relay", [NoLocals EXCEPT !.sid = s])
    /\ UNCHANGED <<alive, held, busy, told, shown, registered, hubVars, wakeVars,
                   regVars, pairVars>>

\* A mutant of Recipients that takes every sender for the agent.
Recipients_ToClient(from, s, frame) == ToClient(parties[s].client, frame)

Recipients(from, s, frame) ==
    IF from = parties[s].client THEN ToAgent(parties[s].agent, frame)
    ELSE ToClient(parties[s].client, frame)

\* ... and used after it: to the other party, or, when that one has no
\* connection, the session is ended.
Relay(c) ==
    /\ at[c] = "relay"
    /\ LET s == loc[c].sid
           sent == Recipients(Dev[c], s, <<"signal", s, Dev[c]>>)
       IN \/ /\ sent # {}
             /\ told' = Enqueue(sent)
             /\ Finish(c)
             /\ UNCHANGED <<sessions, ender>>
          \/ /\ sent = {} /\ MayEnd(s, NoDev)
             /\ EndSession(s, NoDev)
             /\ GoTo(c, "announce", [NoLocals EXCEPT !.sid = s])
             /\ UNCHANGED told
          \/ /\ sent = {} /\ ~MayEnd(s, NoDev)
             /\ Finish(c)
             /\ UNCHANGED <<told, sessions, ender>>
    /\ UNCHANGED <<alive, held, busy, shown, registered, agents, clients, parties,
                   wakeVars, regVars, pairVars>>

\* onSessionEnd.
SessionEnd(c, s) ==
    /\ Serving(c) /\ s \in Disclosed
    /\ MayEnd(s, Dev[c])
    /\ EndSession(s, Dev[c])
    /\ GoTo(c, "announce", [NoLocals EXCEPT !.sid = s, !.dev = Dev[c]])
    /\ UNCHANGED <<alive, held, busy, told, shown, registered, agents, clients, parties,
                   wakeVars, regVars, pairVars>>

-----------------------------------------------------------------------------
(* Registration, presence and wake.                                        *)

\* A mutant of Register: the role is not checked.
Register_AnyRole(c, list, b) ==
    /\ Serving(c)
    /\ known' = known \cup {Dev[c]}
    /\ paired' = IF c \in AgentConns THEN [paired EXCEPT ![Dev[c]] = list] ELSE paired
    /\ busy' = [busy EXCEPT ![c] = b]
    /\ registered' = registered \cup {c}
    /\ GoTo(c, "compute", [NoLocals EXCEPT !.dev = Dev[c], !.then = "take"])
    /\ UNCHANGED <<alive, held, told, shown, hubVars, wakeVars, pairVars>>

\* onAgentRegister: reg.Upsert and setBusy, then broadcastPresence, then
\* noteAgentOnline.
Register(c, list, b) ==
    /\ Serving(c) /\ c \in AgentConns
    /\ known' = known \cup {Dev[c]}
    /\ paired' = [paired EXCEPT ![Dev[c]] = list]
    /\ busy' = [busy EXCEPT ![c] = b]
    /\ registered' = registered \cup {c}
    /\ GoTo(c, "compute", [NoLocals EXCEPT !.dev = Dev[c], !.then = "take"])
    /\ UNCHANGED <<alive, held, told, shown, hubVars, wakeVars, pairVars>>

\* onAgentUpdate.
Update(c, b) ==
    /\ Serving(c) /\ c \in AgentConns
    /\ busy' = [busy EXCEPT ![c] = b]
    /\ GoTo(c, "compute", [NoLocals EXCEPT !.dev = Dev[c], !.then = "serve"])
    /\ UNCHANGED <<alive, held, told, shown, registered, hubVars, wakeVars, regVars, pairVars>>

AfterPresence(c, keep) ==
    GoTo(c, loc[c].then,
         IF loc[c].then = "take" THEN [NoLocals EXCEPT !.dev = keep] ELSE NoLocals)

\* broadcastPresence: deviceInfo is read ...
Compute(c) ==
    /\ at[c] = "compute"
    /\ IF loc[c].dev \in known
       THEN GoTo(c, "present", [loc[c] EXCEPT !.info = Presence(loc[c].dev),
                                              !.to = paired[loc[c].dev]])
       ELSE AfterPresence(c, loc[c].dev)
    /\ UNCHANGED <<alive, held, busy, told, shown, registered, hubVars, wakeVars,
                   regVars, pairVars>>

\* ... and then queued for every connection of every paired client.
Present(c) ==
    /\ at[c] = "present"
    /\ LET a == loc[c].dev
       IN shown' = [x \in Conns |->
                      IF x \in alive /\ \E k \in loc[c].to : x \in clients[k]
                      THEN [shown[x] EXCEPT ![a] = loc[c].info] ELSE shown[x]]
    /\ AfterPresence(c, loc[c].dev)
    /\ UNCHANGED <<alive, held, busy, told, registered, hubVars, wakeVars, regVars, pairVars>>

\* A mutant of TakeWake: every paired client is told, as in a broadcast.
TakeWake_Everyone(c) ==
    /\ at[c] = "take"
    /\ LET a == loc[c].dev
           k == waiting[a]
       IN /\ told' = IF k = NoDev THEN told
                     ELSE Enqueue(UNION {ToClient(j, <<"awake", a>>) : j \in paired[a]})
          /\ waiting' = [waiting EXCEPT ![a] = NoDev]
    /\ Finish(c)
    /\ UNCHANGED <<alive, held, busy, shown, registered, hubVars, asked, regVars, pairVars>>

\* noteAgentOnline.
TakeWake(c) ==
    /\ at[c] = "take"
    /\ LET a == loc[c].dev
           k == waiting[a]
       IN /\ told' = IF k = NoDev THEN told
                     ELSE Enqueue(ToAgent(a, <<"stayAwake", k>>) \cup ToClient(k, <<"awake", a>>))
          /\ waiting' = [waiting EXCEPT ![a] = NoDev]
    /\ Finish(c)
    /\ UNCHANGED <<alive, held, busy, shown, registered, hubVars, asked, regVars, pairVars>>

\* onWake: the PC has no connection and some method to wake it exists ...
Wake(c, a) ==
    /\ Serving(c) /\ c \in ClientConns
    /\ a \in known /\ Dev[c] \in paired[a]
    /\ agents[a] = NoConn
    /\ GoTo(c, "arm", [NoLocals EXCEPT !.dev = a])
    /\ UNCHANGED <<alive, held, busy, told, shown, registered, hubVars, wakeVars,
                   regVars, pairVars>>

\* ... so the request is armed, in the place of anyone else's.
Arm(c) ==
    /\ at[c] = "arm"
    /\ waiting' = [waiting EXCEPT ![loc[c].dev] = Dev[c]]
    /\ asked' = asked \cup {<<Dev[c], loc[c].dev>>}
    /\ Finish(c)
    /\ UNCHANGED <<alive, held, busy, told, shown, registered, hubVars, regVars, pairVars>>

\* A pending wake outlives wakeRequestTTL.
WakeExpires(a) ==
    /\ waiting[a] # NoDev
    /\ waiting' = [waiting EXCEPT ![a] = NoDev]
    /\ UNCHANGED <<connVars, hubVars, asked, regVars, pairVars>>

\* onForgetDevice: the registry first, the PC itself after.
Forget(c, a) ==
    /\ Serving(c) /\ c \in ClientConns
    /\ paired' = [paired EXCEPT ![a] = @ \ {Dev[c]}]
    /\ GoTo(c, "forget", [NoLocals EXCEPT !.dev = a])
    /\ UNCHANGED <<alive, held, busy, told, shown, registered, hubVars, wakeVars,
                   known, pairVars>>

ForgetTell(c) ==
    /\ at[c] = "forget"
    /\ told' = Enqueue(ToAgent(loc[c].dev, <<"forget", Dev[c]>>))
    /\ Finish(c)
    /\ UNCHANGED <<alive, held, busy, shown, registered, hubVars, wakeVars, regVars, pairVars>>

-----------------------------------------------------------------------------
(* Pairing.                                                                *)

\* A mutant of PairPublish: the role is not checked.
PairPublish_AnyRole(c, d) ==
    /\ Serving(c)
    /\ Pairs!Open(Dev[c], d, "open")
    /\ UNCHANGED <<connVars, hubVars, wakeVars, regVars>>

PairPublish(c, d) ==
    /\ Serving(c) /\ c \in AgentConns
    /\ Pairs!Open(Dev[c], d, "open")
    /\ UNCHANGED <<connVars, hubVars, wakeVars, regVars>>

\* Too many windows are open: the PC loses the one it had and gets none.
PairPublishRefused(c) ==
    /\ Serving(c) /\ c \in AgentConns
    /\ Cardinality({d \in Pairs!Held(phase) : holder[d] # Dev[c]}) >= MaxOpenWindows
    /\ Pairs!Close({d \in Pairs!Held(phase) : holder[d] = Dev[c]})
    /\ UNCHANGED <<connVars, hubVars, wakeVars, regVars>>

PairRevoke(c) ==
    /\ Serving(c) /\ c \in AgentConns
    /\ Pairs!Close({d \in Pairs!Held(phase) : holder[d] = Dev[c]})
    /\ UNCHANGED <<connVars, hubVars, wakeVars, regVars>>

\* onPairSubmit: the code is spent before the PC is even looked for.
PairSubmit(c, d) ==
    /\ Serving(c) /\ c \in ClientConns
    /\ Pairs!Try(d)
    /\ told' = Enqueue(ToAgent(holder[d], <<"submit", Dev[c]>>))
    /\ UNCHANGED <<at, loc, alive, held, busy, shown, registered, hubVars, wakeVars, regVars>>

\* onPairResult: the verdict goes to the client; a success closes the window.
PairResult(c, k, ok) ==
    /\ Serving(c) /\ c \in AgentConns
    /\ <<"submit", k>> \in told[c]
    /\ told' = Enqueue(ToClient(k, <<"verdict", Dev[c]>>))
    /\ IF ok THEN Pairs!Close({d \in Pairs!Held(phase) : holder[d] = Dev[c]})
       ELSE UNCHANGED pairVars
    /\ UNCHANGED <<at, loc, alive, held, busy, shown, registered, hubVars, wakeVars, regVars>>

\* A window runs out of time.
PairExpires(d) ==
    /\ d \in Pairs!Held(phase)
    /\ Pairs!Close({d})
    /\ UNCHANGED <<connVars, hubVars, wakeVars, regVars>>

-----------------------------------------------------------------------------
\* The steps a goroutine takes once its handler has begun.
Step(c) ==
    \/ Detach(c) \/ Snapshot(c) \/ Sweep(c) \/ SweepDone(c) \/ Announce(c)
    \/ \E s \in Sids : Introduce(c, s)
    \/ NoSession(c) \/ BindAgent(c) \/ OfferAgent(c) \/ ReplyClient(c) \/ Relay(c)
    \/ Compute(c) \/ Present(c) \/ TakeWake(c) \/ Arm(c) \/ ForgetTell(c)

\* Bounds of this behaviour.
Lists == IF Sent("anyList") THEN SUBSET Clients ELSE {Clients}
BusyFlags == IF Sent("update") THEN BOOLEAN ELSE {FALSE}

\* What peers, the network and time may do.
Environment(c) ==
    \/ AttachAgent(c) \/ AttachClient(c) \/ ReadEnds(c)
    \/ CloseReplaced(c)
    \/ Sent("drop") /\ Cancel(c)
    \/ Sent("connect") /\ \E a \in Agents : Connect(c, a)
    \/ Sent("signal") /\ \E s \in Sids : Signal(c, s)
    \/ Sent("sessionEnd") /\ \E s \in Sids : SessionEnd(c, s)
    \/ Sent("register") /\ \E list \in Lists, b \in BusyFlags : Register(c, list, b)
    \/ Sent("update") /\ \E b \in BusyFlags : Update(c, b)
    \/ Sent("wake") /\ \E a \in Agents : Wake(c, a)
    \/ Sent("forget") /\ \E a \in Agents : Forget(c, a)
    \/ Sent("pair") /\ \E d \in Codes : PairPublish(c, d) \/ PairSubmit(c, d)
    \/ Sent("pair") /\ (PairPublishRefused(c) \/ PairRevoke(c))
    \/ Sent("pair") /\ \E k \in Clients, ok \in BOOLEAN : PairResult(c, k, ok)

Next ==
    /\ \/ \E c \in scenario.conns : Step(c) \/ Environment(c)
       \/ \E a \in Agents : WakeExpires(a)
       \/ \E d \in Codes : PairExpires(d)
    /\ UNCHANGED scenario

Spec == Init /\ [][Next]_vars

\* Goroutines are scheduled, a replaced connection's close is, and a read on a
\* connection whose context is done returns.
Fairness ==
    \A c \in Conns :
        /\ WF_vars(Step(c) /\ UNCHANGED scenario)
        /\ WF_vars(CloseReplaced(c) /\ UNCHANGED scenario)
        /\ WF_vars(c \notin alive /\ ReadEnds(c) /\ UNCHANGED scenario)

FairSpec == Spec /\ Fairness

-----------------------------------------------------------------------------
\* No handler is under way and every open connection is a live one that the
\* hub's tables name.
Quiescent ==
    \A c \in Conns : /\ at[c] \in {"new", "serve", "gone"}
                     /\ at[c] = "serve" => c \in alive /\ ~Replaced(c)

\* Connection c still has the sessions it holds to answer for.
AnswersFor(c, s) ==
    IF at[c] \in {"sweep", "gone"} \/ (at[c] = "announce" /\ loc[c].then = "sweep")
    THEN s \in loc[c].todo /\ at[c] # "gone"
    ELSE s \in held[c]

\* "Losing the client connection must tear the session down" (hub_test.go):
\* every session in the table is still on the list of a connection of its
\* client, so once all of them are gone the session is too.
SessionOwned ==
    \A s \in sessions :
        \E c \in Conns : Dev[c] = parties[s].client /\ AnswersFor(c, s)

\* A signal reaches only connections of the other party of its session.
Routing ==
    \A x \in Conns, s \in Sids, from \in Devices :
        <<"signal", s, from>> \in told[x] =>
            {from, Dev[x]} = {parties[s].client, parties[s].agent}

\* "Session IDs are random and single-use" (docs/security.md): an id that has
\* left the table never returns to it, and never names other parties.
SingleUse ==
    [][\A s \in Sids : parties[s] # NoParties =>
          /\ parties'[s] = parties[s]
          /\ s \notin sessions => s \notin sessions']_vars

\* When everything is still, whoever was told of a session that has since
\* ended, and did not end it, has been told of its end.
EndIsTold ==
    Quiescent =>
        \A s \in Sids \ sessions, x \in Conns :
            /\ at[x] = "serve"
            /\ {<<"offer", s>>, <<"reply", s>>} \cap told[x] # {}
            /\ ender[s] # Dev[x]
            => <<"end", s>> \in told[x]

\* The presence a client was last sent is the true one when everything is
\* still and the PC has registered or is away.
PresenceTrue(a) ==
    Quiescent =>
        \A x \in ClientConns :
            /\ at[x] = "serve" /\ shown[x][a] # "none"
            /\ Dev[x] \in paired[a]
            /\ agents[a] = NoConn \/ agents[a] \in registered
            => shown[x][a] = Presence(a)

\* That is so as long as a PC has opened no second connection: the last
\* broadcast of a replaced one may be sent after that of its successor.
PresenceAccurateOnce ==
    \A a \in Agents :
        Cardinality({c \in Conns : Dev[c] = a /\ at[c] # "new"}) <= 1 => PresenceTrue(a)

\* A PC without a connection has no window open when everything is still.
NoDeadWindows ==
    Quiescent =>
        \A d \in Codes : phase[d] \in {"open", "tried"} => agents[holder[d]] # NoConn

\* A connection that has been replaced takes no window with it: the window
\* was opened, and can be used, over the connection that replaced it.
WindowKept ==
    [][\A c \in AgentConns :
          /\ at[c] = "sweep" /\ at'[c] = "compute"
          /\ agents[Dev[c]] \notin {NoConn, c}
          => phase' = phase]_vars

\* Nobody waits for a PC that is online when everything is still: the waiter
\* was told, and the PC asked to stay awake.
WaitersTold ==
    Quiescent => \A a \in Agents : agents[a] \in registered => waiting[a] = NoDev

\* Only a client that asked for a wake is told that its PC is awake, and a PC
\* is asked to stay awake only for such a client.
AwakeWasAsked ==
    \A x \in Conns, d \in Devices :
        /\ <<"awake", d>> \in told[x] => <<Dev[x], d>> \in asked
        /\ <<"stayAwake", d>> \in told[x] => <<d, Dev[x]>> \in asked

\* A connection that is cancelled or replaced is detached in the end.
LeavesInTheEnd ==
    \A c \in Conns : (Replaced(c) \/ c \notin alive) ~> at[c] = "gone"

\* "Losing the client connection must tear the session down" (hub_test.go):
\* a session whose client has no live connection left ends.
EndsWithClient ==
    \A s \in Sids, k \in Clients :
        /\ parties[s].client = k
        /\ \A c \in Conns : Dev[c] = k => at[c] = "new" \/ c \notin alive
        ~> s \notin sessions
=============================================================================
