------------------------------ MODULE RvClient ------------------------------
(***************************************************************************)
(* The reconnecting client of the server, shared/rvclient/client.go.  Run  *)
(* keeps one connection after another (session, handshake, the reading     *)
(* loop); Request may be called at any time by any goroutine and waits in  *)
(* a channel of one place; Close may be called at any time.                *)
(*                                                                         *)
(* c.ws is set before the handshake, so a request can be the first thing   *)
(* the server hears.  A reference is used once: reqSeq only grows.  The    *)
(* lengths of time are left out: a wait may end whenever it can.  Messages *)
(* that nobody waits for, and the callbacks onUp and onDown, change nothing*)
(* here.                                                                   *)
(***************************************************************************)
EXTENDS Naturals, Sequences

CONSTANTS Requests,        \* calls of Request, by their reference
          MaxConnections,  \* bound: connections that are dialled
          MaxAnswers       \* bound: answers the server gives to one request

Idle == "none"

ASSUME RvClientAssumption ==
    Idle \notin Requests /\ MaxConnections \in Nat /\ MaxAnswers \in Nat

NoConnection == 0

VARIABLES
    runs,        \* where Run is
    ws,         \* Client.ws: the number of a connection, or none
    last,       \* the number of the last connection that was dialled
    alive,      \* it still carries messages
    connected,  \* Client.connected
    closer,     \* where Close is
    outbound, inbound,   \* messages on their way to the server and from it
    server,     \* what the server knows of the connection
    answers,    \* counter of the bound
    waiters,    \* the references in Client.waiters
    box,        \* the channel of each request
    delivering, \* what deliverToWaiter has taken from the map
    failing,    \* what failAllWaiters has taken from it
    at,         \* where each request is
    on          \* the connection SendRef has read

rvConnVars == <<runs, ws, last, alive, connected, closer, outbound, inbound, server>>
rvWaitVars == <<waiters, box, delivering, failing>>
rvCallVars == <<at, on>>
rvVars == <<rvConnVars, rvWaitVars, rvCallVars, answers>>

Hellos == {"hello", "auth"}
Greetings == {"challenge", "authOK", "error"}

RvTypeOK ==
    /\ runs \in {"checking", "dialling", "greeting", "proving", "up", "ending", "failing",
                "returned", "backoff", "ended"}
    /\ ws \in {NoConnection, last} /\ last \in 0..MaxConnections
    /\ alive \in BOOLEAN /\ connected \in BOOLEAN
    /\ closer \in {"no", "closing", "done"}
    /\ outbound \in Seq(Hellos \cup Requests) /\ inbound \in Seq(Greetings \cup Requests)
    /\ server \in {"new", "greeted", "known", "refusing"}
    /\ answers \in [Requests -> 0..MaxAnswers]
    /\ waiters \subseteq Requests /\ delivering \in Requests \cup {Idle} /\ failing \subseteq Requests
    /\ box \in [Requests -> Seq({"answer", "closed"})]
    /\ at \in [Requests -> {"new", "registered", "writing", "waiting", "leaving", "over"}]
    /\ on \in [Requests -> 0..MaxConnections]

RvInit ==
    /\ runs = "checking" /\ ws = NoConnection /\ last = 0 /\ alive = FALSE
    /\ connected = FALSE /\ closer = "no"
    /\ outbound = <<>> /\ inbound = <<>> /\ server = "new"
    /\ answers = [r \in Requests |-> 0]
    /\ waiters = {} /\ box = [r \in Requests |-> <<>>] /\ delivering = Idle /\ failing = {}
    /\ at = [r \in Requests |-> "new"] /\ on = [r \in Requests |-> NoConnection]

-----------------------------------------------------------------------------
\* Run, and session with its deferred calls.

\* The checks of closeCh before a connection and after it; the pause ends with Close.
Check ==
    /\ \/ runs = "checking" /\ runs' = IF closer = "no" THEN "dialling" ELSE "ended"
       \/ runs = "returned" /\ runs' = IF closer = "no" THEN "backoff" ELSE "ended"
       \/ runs = "backoff" /\ runs' \in {"checking", IF closer = "no" THEN "checking" ELSE "ended"}
    /\ UNCHANGED <<ws, last, alive, connected, closer, outbound, inbound, server,
                   rvWaitVars, rvCallVars, answers>>

\* The connection is there, c.ws is set, and hello is written.
DialSucceeds ==
    /\ runs = "dialling" /\ last < MaxConnections
    /\ runs' = "greeting"
    /\ last' = last + 1 /\ ws' = last + 1 /\ alive' = TRUE
    /\ outbound' = <<>> /\ inbound' = <<>> /\ server' = "new"
    /\ UNCHANGED <<connected, closer, rvWaitVars, rvCallVars, answers>>

DialFails ==
    /\ runs = "dialling" /\ runs' = "returned" /\ connected' = FALSE
    /\ UNCHANGED <<ws, last, alive, closer, outbound, inbound, server,
                   rvWaitVars, rvCallVars, answers>>

\* handshake writes hello, and auth when the challenge has come.
SendHello ==
    /\ runs = "greeting" /\ alive
    /\ outbound' = Append(outbound, "hello") /\ runs' = "proving"
    /\ UNCHANGED <<ws, last, alive, connected, closer, inbound, server,
                   rvWaitVars, rvCallVars, answers>>

SendAuth ==
    /\ runs = "proving" /\ alive /\ inbound # <<>> /\ Head(inbound) = "challenge"
    /\ inbound' = Tail(inbound) /\ outbound' = Append(outbound, "auth")
    /\ UNCHANGED <<runs, ws, last, alive, connected, closer, server,
                   rvWaitVars, rvCallVars, answers>>

Connects ==
    /\ runs = "proving" /\ alive /\ inbound # <<>> /\ Head(inbound) = "authOK"
    /\ inbound' = Tail(inbound)
    /\ runs' = "up" /\ connected' = TRUE
    /\ UNCHANGED <<ws, last, alive, closer, outbound, server, rvWaitVars, rvCallVars, answers>>

\* The handshake is refused, or a read or a write fails or times out: session
\* returns, and its first deferred call puts c.ws back.
SessionEnds ==
    /\ runs \in {"greeting", "proving", "up"} /\ delivering = Idle
    /\ runs' = "ending" /\ ws' = NoConnection
    /\ UNCHANGED <<last, alive, connected, closer, outbound, inbound, server,
                   rvWaitVars, rvCallVars, answers>>

\* failAllWaiters takes the whole map and answers each; then the socket is closed.
FailAll ==
    /\ runs = "ending" /\ runs' = "failing"
    /\ failing' = waiters /\ waiters' = {}
    /\ UNCHANGED <<ws, last, alive, connected, closer, outbound, inbound, server, box, delivering,
                   rvCallVars, answers>>

FailOne(r) ==
    /\ r \in failing /\ box[r] = <<>>
    /\ box' = [box EXCEPT ![r] = <<"closed">>]
    /\ failing' = failing \ {r}
    /\ UNCHANGED <<rvConnVars, waiters, delivering, rvCallVars, answers>>

Returns ==
    /\ runs = "failing" /\ failing = {}
    /\ runs' = "returned" /\ connected' = FALSE /\ alive' = FALSE
    /\ UNCHANGED <<ws, last, closer, outbound, inbound, server, rvWaitVars, rvCallVars, answers>>

\* Mutant: the entry stays in the map when its answer is delivered.
Read_KeepsWaiter ==
    /\ runs = "up" /\ delivering = Idle /\ inbound # <<>> /\ Head(inbound) \in Requests
    /\ inbound' = Tail(inbound)
    /\ delivering' = IF Head(inbound) \in waiters THEN Head(inbound) ELSE Idle
    /\ UNCHANGED <<runs, ws, last, alive, connected, closer, outbound, server, waiters, box, failing,
                   rvCallVars, answers>>

\* The reading loop takes an answer.  deliverToWaiter takes the waiter from the map
\* under the lock; without a waiter the answer goes to a handler of its type, if any.
Read ==
    /\ runs = "up" /\ delivering = Idle /\ inbound # <<>> /\ Head(inbound) \in Requests
    /\ inbound' = Tail(inbound)
    /\ delivering' = IF Head(inbound) \in waiters THEN Head(inbound) ELSE Idle
    /\ waiters' = waiters \ {Head(inbound)}
    /\ UNCHANGED <<runs, ws, last, alive, connected, closer, outbound, server, box, failing,
                   rvCallVars, answers>>

\* ... and fills its channel, outside the lock.
DeliverAnswer ==
    /\ delivering # Idle /\ box[delivering] = <<>>
    /\ box' = [box EXCEPT ![delivering] = <<"answer">>]
    /\ delivering' = Idle
    /\ UNCHANGED <<rvConnVars, waiters, failing, rvCallVars, answers>>

\* Close: closeCh, and then the connection there is.
CloseBegins ==
    /\ closer = "no" /\ closer' = "closing"
    /\ UNCHANGED <<runs, ws, last, alive, connected, outbound, inbound, server,
                   rvWaitVars, rvCallVars, answers>>

CloseEnds ==
    /\ closer = "closing" /\ closer' = "done"
    /\ alive' = (alive /\ ws = NoConnection)
    /\ UNCHANGED <<runs, ws, last, connected, outbound, inbound, server,
                   rvWaitVars, rvCallVars, answers>>

-----------------------------------------------------------------------------
\* Request.

Calls(r, from, to) == at[r] = from /\ at' = [at EXCEPT ![r] = to]

\* Mutant: the request is sent first and then registered.
Register_Late(r) ==
    /\ Calls(r, "new", "registered")
    /\ UNCHANGED <<rvConnVars, rvWaitVars, on, answers>>

Register(r) ==
    /\ Calls(r, "new", "registered")
    /\ waiters' = waiters \cup {r}
    /\ UNCHANGED <<rvConnVars, box, delivering, failing, on, answers>>

\* SendRef reads c.ws under the lock: an error without a connection.
LoadWs(r) ==
    /\ Calls(r, "registered", IF ws = NoConnection THEN "leaving" ELSE "writing")
    /\ on' = [on EXCEPT ![r] = ws]
    /\ UNCHANGED <<rvConnVars, rvWaitVars, answers>>

\* The write succeeds: the message is on its way if the connection still carries it.
WriteSucceeds(r) ==
    /\ Calls(r, "writing", "waiting")
    /\ on[r] = last /\ runs # "returned"
    /\ outbound' = IF alive THEN Append(outbound, r) ELSE outbound
    /\ UNCHANGED <<runs, ws, last, alive, connected, closer, inbound, server,
                   rvWaitVars, on, answers>>

WriteErrs(r) ==
    /\ Calls(r, "writing", "leaving")
    /\ UNCHANGED <<rvConnVars, rvWaitVars, on, answers>>

TakeAnswer(r) ==
    /\ box[r] # <<>>
    /\ Calls(r, "waiting", "leaving")
    /\ box' = [box EXCEPT ![r] = <<>>]
    /\ UNCHANGED <<rvConnVars, waiters, delivering, failing, on, answers>>

\* The caller's context ends: the request gives up.
GiveUp(r) ==
    /\ Calls(r, "waiting", "leaving")
    /\ UNCHANGED <<rvConnVars, rvWaitVars, on, answers>>

\* The deferred removal from the map.
Leave(r) ==
    /\ Calls(r, "leaving", "over")
    /\ waiters' = waiters \ {r}
    /\ UNCHANGED <<rvConnVars, box, delivering, failing, on, answers>>

-----------------------------------------------------------------------------
\* The server and the network (internal/rendezvous/signal/conn.go): hello and auth
\* are to come first, each request is answered, perhaps more than once, or never.
ServerHears ==
    /\ alive /\ outbound # <<>>
    /\ LET said == Head(outbound)
       IN  \/ server = "new" /\ said = "hello" /\ server' = "greeted" /\ inbound' = Append(inbound, "challenge")
           \/ server = "greeted" /\ said = "auth" /\ server' = "known" /\ inbound' = Append(inbound, "authOK")
           \/ server \in {"new", "greeted"} /\ said \in Requests
                 /\ server' = "refusing" /\ inbound' = Append(inbound, "error")
           \/ server \in {"known", "refusing"} /\ UNCHANGED <<server, inbound>>
    /\ outbound' = Tail(outbound)
    /\ UNCHANGED <<runs, ws, last, alive, connected, closer, rvWaitVars, rvCallVars, answers>>

ServerAnswers(r) ==
    /\ alive /\ server = "known" /\ at[r] # "new" /\ on[r] = last
    /\ \A i \in DOMAIN outbound : outbound[i] # r
    /\ at[r] \in {"waiting", "leaving", "over"} /\ answers[r] < MaxAnswers
    /\ answers' = [answers EXCEPT ![r] = @ + 1]
    /\ inbound' = Append(inbound, r)
    /\ UNCHANGED <<runs, ws, last, alive, connected, closer, outbound, server,
                   rvWaitVars, rvCallVars>>

Drop ==
    /\ alive /\ alive' = FALSE
    /\ UNCHANGED <<runs, ws, last, connected, closer, outbound, inbound, server,
                   rvWaitVars, rvCallVars, answers>>

RvNext ==
    \/ Check \/ DialSucceeds \/ DialFails \/ SendHello \/ SendAuth \/ Connects \/ SessionEnds
    \/ FailAll \/ Returns \/ Read \/ DeliverAnswer \/ CloseBegins \/ CloseEnds
    \/ ServerHears \/ Drop
    \/ \E r \in Requests :
          \/ FailOne(r) \/ Register(r) \/ LoadWs(r) \/ WriteSucceeds(r) \/ WriteErrs(r)
          \/ TakeAnswer(r) \/ GiveUp(r) \/ Leave(r) \/ ServerAnswers(r)

RvSpec == RvInit /\ [][RvNext]_rvVars

-----------------------------------------------------------------------------
\* Nobody is stuck.  The goroutine that reads never blocks in a request's channel, which
\* holds one answer (client.go:425, 450-475), whatever the server repeats, and whether the
\* answer, the timeout or the loss of the connection comes first.  And a request waits
\* only while an answer can still come: its connection is in use, or somebody is about to
\* tell it that the connection is gone (client.go:379-380: "a caller never hangs on a
\* rejection").
NobodyIsStuck ==
    /\ delivering # Idle => box[delivering] = <<>>
    /\ \A r \in failing : box[r] = <<>>
    /\ \A r \in Requests : at[r] = "waiting" =>
          \/ box[r] # <<>> \/ delivering = r \/ r \in failing
          \/ r \in waiters /\ (on[r] = ws \/ runs = "ending")
=============================================================================
