# ALL SHARE in TLA+

ALL SHARE shows and drives a Windows PC from a browser.  A *server* (the
rendezvous) introduces the two, an *agent* runs on the PC, a *client* runs in
the browser; pictures and input go over a peer connection that the server never
sees.  This directory holds TLA+ models of the parts of that system in which
several goroutines, processes or machines act on common state, TLC runs that
check them on small instances, and TLAPS proofs for every size of instance.

Run a model with `tlc -config X.cfg M` (the pairs are under *Runs*) and check a
proof with `tlapm M.tla`.  `PROJECT.json` lists components, runs, mutants, the
lines of source each definition stands for, hazards, findings and theorems.

## 1. The system

| Component | Source | State | Operations | Modelled in |
|---|---|---|---|---|
| Pairing window store | `internal/rendezvous/pairing/store.go` | `byCode`, `byAgent` | Publish, Lookup, Consume, Revoke, sweep | `PairStore`, `OneShotCode` |
| Hub, connections | `internal/rendezvous/signal/hub.go`, `conn.go` | agents, clients, sessions, each connection's session list, busy flag, queue | attach, detach, one handler per message, presence | `Hub` |
| Server wake | `.../signal/wake.go` | pending wakes | onWake, noteAgentOnline, expiry | `Hub` |
| Rate limiter | `.../signal/ratelimit.go` | token buckets | AllowN, sweep, cap | `Limiter` |
| Device registry | `internal/rendezvous/registry/registry.go` | devices, dirty mark, token, file | Upsert, Touch, UpdateWake, Forget, Reset, Flush, load, Close | `Registry` |
| Server process | `server/cmd/allshare-server/main.go`, `turnsvc.go` | none of its own | shutdown | end of `run()` in `Registry` |
| Agent | `internal/agentcore/agent.go` | map of sessions, pairing window, last status | connect request, signal, end, DisconnectAll, register, pairing | `AgentSessions`, `AgentPairing` |
| Session | `internal/session/session.go` | closeOnce, capture, peer connection, timer, pumps | New, callbacks, Close, control messages | `AgentSessions` and, a pump each, `Cursor`, `Displays`, `Clipboard`, `Video`, `Quality` |
| Quality controller | `internal/session/quality.go` | rung, bitrate, frame rate, hold times | observe, apply, viewport | `Quality` |
| Link client | `shared/rvclient/client.go` | socket, waiters | Run, Send, Request, Close | `RvClient`; what a lost link costs in `AgentSessions` |
| Paired list | `internal/config/config.go`, `agent/cmd/allshare-agent/main.go` | `config.json`, a copy in each process | AddPairedClient, RemovePairedClient, TouchClient, Update, Load | `PairedList` |
| Pairing exchange | `shared/pair/pair.go` | none | derive, confirm | `AgentPairing` |
| Browser client | `client/js/net/*.js`, `client/js/app.js` | session, link | connect, signal, reconnect, pair | sending of input, pairing; the rest is not |
| Input path | `client/js/input/input.js`, `session.go`, `internal/input` | keys and buttons on both sides | events, packets, injection | `InputChannel` |
| Capture on the PC | `internal/capture/windows.go` | queues, list of displays | Open, pumps, settings | `Video`, `Cursor`, `Displays` |
| Native capture library | `agent/native/*.cpp` | duplication, encoder, flags, published frames | the capture thread | `Video`, `Cursor`, `Displays` |
| Clipboard on the PC | `internal/clipboard/*.go` | last number and text written, changes | Read, Write, watch | `Clipboard` |
| Waking on the PC | `internal/wake/*.go` | schedule, hold against sleep | Apply, Capability, StayAwake | `Wake` |
| Windows service | `agent/cmd/allshare-agent/service_windows.go` | helper, restart requests | session change, run, stop | `Supervisor` |
| Key map, identity keys, wire protocol | `keymap.js`, `idkey.go`, `wire.go` | none | tables, signatures, layouts | not (`KeyBitmap.Diff` is in `InputChannel`) |
| User interface, build, installer | `client/js/ui/*.js`, `build`, `installer` | presentation | | what takes part in pairing and in the pointer |

How they meet:

- The agent and the browser each hold one websocket to the hub.  The hub calls
  the pairing store and the registry with none of its own locks held.
- A browser's `connect` makes the hub draw a session id, put it on the lists of
  both connections and send the agent a connect request.  The agent answers
  with an offer; signals are relayed until the peer connection stands.
- The session calls back into the agent (`OnClosed`) when it ends, from whatever
  goroutine ended it, and the agent reports to the hub whether the PC is busy.
- Pictures and the pointer go from the capture thread (C++) over bounded queues to
  pumps (Go), and from there to the browser.  Control messages come back on the same
  peer connection and change the capture, the injector, the clipboard and the ladder.
- The browser's input goes over an unordered channel without retransmission to
  the session, which keeps its own view of what is held and drives the injector.
- The agent and the commands `pair`, `forget`, `config` and the check-in are separate
  processes that share one file; the Windows service starts the agent in the session
  that owns the console.

### What is hard

Handlers release locks between steps, so that connections, sessions and wake
requests are used after they have changed (hub, wake); replaced connections clean
up late; sessions start goroutines before they are listed; a `Close` runs once
while others wait in it; statuses are counted and then sent; packets are lost and
overtake one another; processes overwrite each other's file; queues drop what does
not fit, and a keyframe or a bitmap that was dropped must come some other way; a flag
is cleared before the work it asks for, which may fail; five parts each remember the
displays as of another moment.  `PROJECT.json` lists each at its line under
"hazards", with the properties that would notice.

### What makes each part correct

- Pairing store: a code gets one attempt while it lives; the two maps agree; the
  cap holds; nobody's call closes another PC's window.
- Hub: every session is held by a connection that will end it; messages reach
  only the parties; whoever was told of a session is told of its end; presence
  is right in the end; ids are used once.
- Limiter: dropping buckets is never seen.  Registry: what has changed is written.
- Agent: one device at a time; requests are answered; sessions that do not
  connect end; DisconnectAll ends what there is; the busy status is right at rest;
  a client that keeps the PC is trusted by it; the server's list settles on the PC's.
- Paired list: what the user was told survives crashes and failed saves.
- Link client: neither a request nor the goroutine that reads waits for ever.
- Session: a keyframe that was asked for comes; the stream does not pump; the client
  has the bitmap of every pointer it is named; clicks land on the display that is
  shown; the text copied last is on the clipboard.
- Input: the agent knows which keys it holds; what is held on the client is held
  on the PC in the end, and what is not held is not; nothing is held after the session.
- PC: it wakes and stays awake as it has said; one helper runs, where the user is.

## 2. The modules

### The server

**`OneShotCode`** is the abstract specification of pairing codes: a handle is
opened once, tried at most once, and closed for good; a PC has one and the
server at most `MaxOpenWindows`.  No maps, no clock, no sweeps.

**`PairStore`** is `store.go`: `byCode` and `byAgent` as functions, `gcLocked` as
a pair of operators applied first by every call that sweeps, a clock that ticks
to `MaxTime`.  One action per method.  `Publish` deletes the previous window
before it looks at the cap, as the code does, so `PublishRefused` loses a window.
The refinement mapping sends `byCode`, the clock and the history variables
`issued` and `tries` (the confirmations `Consume` let through) to `phase`, `holder`
and `attempts`; the counter is what makes a second `Consume` of a code visible.

**`Hub`** is `hub.go`, `conn.go` and `wake.go`.  Each connection is one goroutine
with a control point `at[c]` and local variables `loc[c]`; a handler is cut into a
step for each critical section (`Connect`, `Introduce`, `BindAgent`, `OfferAgent`,
`ReplyClient` are one `onConnect`).  Outgoing queues are the set of frames a live
connection accepted (`told`) and the last presence (`shown`); a frame to a
connection whose context is done is lost.  The pairing store is used through
`OneShotCode`, which `PairStore` implements.  Replies that report an error change
nothing and are left out.

**`Limiter`** is `ratelimit.go` in whole tokens and ticks.  A caller reads the clock
before it takes the lock, so calls come with times up to `Skew` old.  Beside every
bucket (`buckets`) runs the one that is never dropped (`promised`): the limiter is
checked against what it promises rather than against itself.

**`Registry`** is `registry.go` and the end of `run()`: the devices, the dirty mark and
the token in the channel of the flush loop.  `TakeCopy` is the first critical section
of `Flush`, `Installed` and `WriteFails` the rename; the loop and `run()` are the
two writers.  Processes end by `Exit` or `Crash` and start again from the file.

### The agent

**`AgentSessions`** is the agent's table of sessions and the life of a session.
`handler[s]` is the goroutine of a connect request, `life[s]` how far `Close` has
come, `source[s]` the goroutine that opens the capture, `watch[s]` the connect
timer, `reader` the goroutine that reads the link (it runs handlers itself, so it
can be stuck in a `Close`), `user` a caller of `DisconnectAll`.  `Close` is split
at `OnClosed`'s critical sections; callers that wait for `closeOnce` wait for
`Closed`.  `shutdown` calls `DisconnectAll` and then ends the process, so it adds
nothing.  A failure of `buildChannelsAndTracks` is taken with the other failures of
`New` that leave nothing behind (`BuildFails`).

**`AgentPairing`** is the other half of `agent.go`: `BeginPairing`, `CancelPairing`,
`handlePairSubmit` in a goroutine per submission, removal, and `register`, which all
of them and a new connection call.  `routine[g]` is where a goroutine is.  The server
is what `PairStore` and `Hub` promise: one window for a PC, gone when it was tried,
replaced, revoked or when the PC leaves.  A tag verifies iff both sides saw the same
window, names and keys.  The clients whose label `sanitizeLabel` alters (`OddLabels`)
compute another tag than the PC, so their right code fails; that is in the model.

**`PairedList`** is the list of trusted devices: `disk`, a copy `mem[p]` in each
process, and what each process is saving.  The change in memory and the rename are
separate steps, with crashes and failed writes between them.

**`RvClient`** is `client.go`: `Run` with its dial, two-step handshake and read loop, and
requests that register a waiter, send, wait, time out or are told of the loss.  The
waiter is registered, and the message sent, on either side of a loss; the server may
repeat an answer.  A connection is a number, so that a request can belong to an old one.

**`Wake`** is `wake.go` and `platform_windows.go`: `Apply` deletes the scheduled task and
makes another, `Capability` reports a method, `StayAwake` takes or extends a hold that
looks at its deadline at each tick.  The PC sleeps when nothing holds it.

**`Supervisor`** is `service_windows.go`: `Execute` turns session changes into requests
to restart (dropped when the channel is full), `run` launches a helper in the session it
read before, ends it, waits and launches again, with its backoff as a choice.

### The session

**`Quality`** is `quality.go` over a ladder given as a constant, with bitrates in the
units of the ladder and time in calls of `Update`: presets, the policies of `observe`,
hysteresis and dwell, the viewport, and the encoder that may refuse to change size
(`rescales` is false) until it is made again.  `went` and `still` are history: which way it went
since something last changed outside, and how long ago the size changed.

**`Cursor`** follows bitmaps, and the positions after them, through four stages: the
native queue that keeps the newest, the channel of the source, `pumpCursor` with its
list of bitmaps still owed and of those sent, and the page that decodes and evicts.
`pumpCursor` takes one update and then tries its bitmaps one by one, then the position
(`TakeUpdate`, `SendShape`, `SendPosition`): the native queue fills meanwhile.

**`Displays`** has the displays of Windows and five memories of them: `listed` by the
source, `captured` by the thread, `rect` of the injector, `compared` by `pumpStats` and
`picker` of the client; a rebuild and a selection are two steps each.

**`Video`** is the capture thread (`session.cpp`), its flags for keyframe and geometry, a
picture being encoded, the queue of the source that drops the newer, and the sender
with its RTCP reader.

**`Clipboard`** is the watcher and `Write` of `clipboard_windows.go` with the handlers in
`session.go` and `input.js`; other programs copy between any two steps.

**`InputChannel`** is the path of keys and buttons.  A packet says for which
inputs it speaks (`covers`) and which of those are held (`state`); a button packet
injects one button only (`only`) and takes over the whole mask, as the code does.
`view` is the agent's idea of what is held, `held` what the injector holds.

### The instances

`MCPairStore` (with `Registry` and `Limiter`), `MCHub`, `MCAgentSessions`,
`MCAgentParts` (`PairedList`, `Quality`, `Cursor`, `RvClient`, `AgentPairing`,
`Clipboard`, `Wake`, `Video`, `Displays`), `MCInputChannel` (with `Supervisor`) and
`MCPairedList` instantiate them.  Where several modules that share no variable are
in one instance, a variable chooses one part and the others rest: one run explores the
union of their state spaces, never the product.  `Hub` and `AgentSessions` take a
constant `Scenarios`: each behaviour keeps to one scenario, which says which
connections open or which requests come and what else may happen.

## 3. Runs

| Run | Module, cfg | Checks |
|---|---|---|
| `store` | MCPairStore, MCPairStore | `TypesOK` `OneShotSpec` `ClosesOnlyOwn`; registry: `NothingForgotten` `SameAfterRestart`; limiter: `SweepIsUnseen` |
| `hub` | MCHub, MCHub | `TypeOK` `SessionOwned` `Routing` `EndIsTold` `PresenceAccurateOnce` `AwakeWasAsked` `NoDeadWindows` |
| `hub_live` | MCHub, MCHubLive | `EndsWithClient` `LeavesInTheEnd` |
| `agent` | MCAgentSessions, MCAgentSessions | `TypeOK` `OneDevice` `BusyAtRest` `ListedAreClosed` `RequestsAreAnswered` `UnconnectedEnd` `DisconnectIsOver` |
| `agent_parts` | MCAgentParts, MCAgentParts | `TypesOK` `PairedIsSaved` `ForgottenIsGone` `NoPumping` `SentIsThere` `NobodyIsStuck` `TrustIsMutual` `ServerListAgrees` `ClipboardsAgree` `WakeIsHonest` `KeyframeOnItsWay` `DisplaysAgree` |
| `input` | MCInputChannel, MCInputChannel | `TypesOK` `KeysAreAsBelieved` `SettledAgree` `NothingHeldAtEnd` `HeldKeyArrives`; service: `HelperFollows` |

The following runs end in a counterexample: each shows one place where the code
does not do what its comment or its documentation says.

| Run | Module, cfg | Property | What happens |
|---|---|---|---|
| `hub_wake_race` | MCHub, MCHubWake | `WaitersTold` | `performWake` sees the PC offline; the PC comes online and takes the (empty) pending wake; the request is then armed and nobody is told. |
| `hub_window_lost` | MCHub, MCHubWindow | `WindowKept` | A PC reconnects and opens a window; the late `detach` of the old connection revokes it by device. |
| `agent_refusal` | MCAgentSessions, MCAgentRefusal | `RefusedOnlyIfInUse` | The capture fails before `handleConnectRequest` lists the session; the closed session is then listed for good and other devices are refused. |
| `agent_disconnect` | MCAgentSessions, MCAgentDisconnect | `DisconnectEndsAll` | A session made by `session.New` and not yet listed survives `DisconnectAll`. |
| `forget_running` | MCPairedList, MCPairedForget | `ForgetTakesEffect` | `forget` edits the file; the running agent keeps its copy, and writes it back later. |
| `input_stuck` | MCInputChannel, MCInputStuck | `ReleasedKeyArrives` | The packet that releases the last key is lost; nothing repeats it. |

Several properties have exceptions, each named by a history variable, because the code
does not keep the property in those cases:

- `PresenceAccurateOnce` is stated for PCs that have opened one connection: presence
  is read and sent in two steps, so the last broadcast of a replaced connection can be
  sent after its successor's.
- `OneDevice` excludes overlapping requests (`overlapped`) and closed sessions left in
  the table; `BusyAtRest` statuses that crossed (`crossed`); `PairedIsSaved` and
  `ForgottenIsGone` saves by a process while another holds a copy (`shared`).
- `ServerListAgrees` excludes registrations that overlap (the list is read and sent in
  two steps) and a device that could not be saved.
- `NothingForgotten` and `SameAfterRestart` exclude a failed write of the newest state
  (the mark was cleared before it) and two writes side by side at a shutdown.
- `SettledAgree` excludes packets that were lost, skipped or overtaken (`disturbed`).
- `NothingHeldAtEnd` excludes a packet that `Close` finds half applied, or that comes before
  the channels are closed (`late`): `Close` does not take `inputMu`, so what such a packet
  presses stays down, although `docs/security.md:279` and the comment at
  `session.go:1377` promise that nothing does.  It is the only exception.
- `KeyframeOnItsWay` excludes a key picture that a full queue dropped: the comment at
  `windows.go:340` says that the stale one is dropped, the code drops the newer.
- `DisplaysAgree` excludes a list that is older than the displays (it is taken once, at
  `Open`), a selection that falls into a rebuild (which clears the mark at its end) and
  dropped messages.
- `ClipboardsAgree` excludes a text still on its way when a paste goes the other way, a
  failed read and a dropped change.  `WakeIsHonest` excludes an `Apply` that failed, which
  is only logged, and settings another process applied since.
- `HelperFollows` excludes a `run` that needs longer than the five seconds `Wait` gives it.

Every property of a passing run has a mutant, a definition of the module that is
off by a plausible mistake (a dropped guard, a missing reset, an early return) and
with which TLC finds the property violated.  The mutants stand beside the
definitions they replace.

### Bounds, and why they suffice

- Sessions, requests, windows: two of a kind are what it takes for one to be in
  the other's way; three PCs and three codes let a dangling entry in `byAgent` point
  at a code of which another PC could be the holder.
- Connections: two of one device show replacement (PC) and two tabs (client); a
  third, of the other device, is there to be told.  The limit of 8 connections per
  client is `MaxClientConns`, 2 or 1 in the runs, where it is reached.
- `Scenarios`: pairs of hazards that share no state (pairing and presence, say) are
  not combined.  The proofs about `Hub` do not depend on scenarios.
- `Registry`: 3 changes meet 2 writers; one failed write; a start after the first one
  reads what the first one left.  One trusted client per device (`MaxPaired`) is cut off.
- `Limiter`: three keys with one bucket allowed, so that the cap is reached; time runs
  twice past `KeepFor`, so that a bucket is dropped, made again and dropped.
- `PairedList`: 3 processes, 2 devices, limit 1 (`MaxClients` is 64 in the code), reached.
- `Quality`: three rungs, so that one can be left either way; three estimates, for each
  of them one; 3 events from outside.  Twice `Dwell` fits between them.  Frame rates: none
  configured, one below the lowest of the presets, and 120.
- `Cursor`: every queue holds one or two and the fourth shape overruns each of them.
- `RvClient`: two connections and one request, which can outlive the first; one
  repeated answer fills the channel of the request.
- `AgentPairing`: two clients, one with an odd label, race for two windows; the link is
  lost once.  `Displays`: two displays change places, or one goes; two selections.
- `Video`: three pictures overrun the two a queue holds; a lock, a fault and a second
  request can fall between any two of them.
- `Clipboard`: two texts, one too long to be read whole, and four copies overrun the two
  slots.  `Wake`: 0, 1 and 3 minutes lie on, below and within the limits 2 and 4.
- `MaxInFlight` is the backlog at which `sendInput` skips; two packets can overtake
  one another.  An event that sends two packets is skipped whole when they do not fit.
- `Supervisor`: four changes of session against two slots, one helper that ends by
  itself, one crash of the service, which leaves its helper behind.

### Fairness

- `Hub`: a handler that has begun runs to its end (goroutines are scheduled and
  queues never block: `enqueue` drops); the goroutine that closes a replaced
  connection runs; a read on a connection whose context is done returns.  Nothing is
  assumed of peers.
- `AgentSessions`: goroutines that can run do: request handlers, `Close`, the opening
  of the capture, the reader and its redialling, and `DisconnectAll`.  A peer
  connection that was interrupted recovers or fails (the peer connection's own
  timeout).  The connect timer fires.  Requests, answers, byes and drops of the link
  may never come.
- `Registry`: the flush loop takes its token or its tick, a write ends one way or the
  other, and a shutdown that has begun ends.  Changes, crashes and starts may not come.
- `InputChannel`: the agent applies what it has received; a packet is delivered or
  lost in the end; the heartbeat is sent again and again while something is held and
  there is room; if infinitely many full snapshots are under way, infinitely many
  arrive.  The last is the least one can ask of a channel that loses packets.
- `Supervisor`: the goroutine of `run` goes on; a session change is handed to `Execute`
  in the end; the service manager starts a service that crashed (its recovery actions).
  Strong fairness of `Launch`: a launch in a session
  may fail, but not every time it is tried.

## 4. Proofs

All proofs are for every value of the constants that satisfies the module's
`ASSUME`: any sets of devices, connections, ids, texts, displays, any limits.  The
assumptions say only that kinds of things are disjoint, that numbers are natural, and:
`Limiter`, that a bucket unused for `KeepFor` is full again, which `DefaultLimits` and
the 5 minutes make true; `Quality`, that a ladder goes down in its bitrates, that frame
rates are those `config.go` lets through, and that the margin to climb is at least 100 %.

**`PairStoreProofs`.** Invariant `IInv`: types, `IndexAgrees`, every entry of
`byAgent` names a code that this PC published, the cap, and `BoundedLife`.
`IndexAgrees` alone is not inductive: `Publish` may leave a dangling entry, which is
harmless only because its code belongs to the same PC.  From it: `MapsAgree`,
`LimitHolds`, the action property `OthersUntouched`, and `StoreIsOneShot`, the
refinement: every action maps to `Open`, `Try`, `Close` or a stutter.  The cap is
carried over by a bijection between windows and codes that are held.

**`HubProofs`.** Invariant `HubInv`: types; what the local variables mean at each
control point (`PointsMean`); what the tables may name (`TablesOwn`); a session in
the table has parties, and has been introduced (`SessionsNamed`); who may hold a
window (`WindowsHeld`); `SessionOwned`; `Routing`.  `SessionOwned` needs the control
points: between its removal from the tables and its last `endSession` a connection
answers for the sessions it copied, not for its list.  On top of it stand an invariant
each for the other properties: `NoWindowIsDead` (a window of a PC that has left is owed
a revocation by a goroutine that is on its way), `AwakeForWhoAsked`,
`PresenceIsAccurateOnce` (whoever shows something else is owed a presence by a goroutine
that has yet to compute or send it) and `EndsAreTold` (a session that is gone has been
told, or the goroutine that took it out has yet to tell).  `HubCodesAreOneShot` composes:
the hub, which uses the windows through their abstract specification, keeps to it
(`Pairs!Spec`) whatever connections come and go.

**`PairedListProofs`.** Invariant `ListInv`: types and the limit on disk and in
every copy; what a process is saving is consistent with its copy; and, as long as
no process saved while another held a copy, every copy has all trusted devices and
no removed one.  The file's properties follow since a save writes a copy.

When nothing was shared the copies of running agents are right as well
(`ForgettingAloneTakesEffect`).

**`StoresProofs`.**  Limiter: a bucket in use is the promised one; one that was dropped had
not been used for `KeepFor`, so the promised one is full for any caller that can still
come; from it `SweepStaysUnseen`.  Registry: each writer has at most one copy; without an
overlap there is one writer; when nothing is marked the newest state is installed or being
written; from it `NothingIsForgotten`, and `ExitsAreClean`: a server that stops in order
has the newest state on disk.  `StoresTyped` is about the instance that TLC explores.

**`AgentSessionsProofs`.** A session is made once, by the handler started for it
(`MadeOnce`), so one that is closed stays so.  For `OneDeviceAtATime` what a handler has
found in the list must stay true until it stores its session; for `BusyIsTold` a status
that is counted and not sent is tied to the table as it was counted.  A second part says
what liveness rests on: `NobodyWaitsInVain` (a handler, the reader or `DisconnectAll`
waits only for a `Close` that somebody has begun) and `OpenStayWatched` (an open session is
being offered, has its timer running, or has come up).  A third names what the code lacks
(see below).

**`InputProofs`.** While a packet is applied, a key it speaks of and that has been dealt
with is as the packet says, any other as the agent believes.  This needs that no packet
of a button speaks of keys, which it would not inject.  For `SettledStaysAgreed` the
packets on the way, applied in order to what the agent is coming to, lead to what the
client holds.  `NothingStaysHeld` needs only that a step of injection belongs to a packet.
Of the Windows service: the process that `run` holds is the only helper there is
(`OneHelper`), and when the service has stopped there is none (`StoppedLeavesNone`).

**`AgentPartsProofs`.** Seven parts with an invariant each, after the types of all eight
(`PartsTyped`), which those invariants and the arithmetic of `Quality` need.  Trust: a
window is submitted once, and a client that may still hear that it paired is already on the list.  The
server's list: what it has, what is registered and what the mail will cause meet in the
PC's list.  Waking: the deadline is never before the latest one promised, and the task
is that of the settings applied last.  Displays: one part for each memory.  Quality: the
thresholds of climbing and leaving a rung are apart by the margin.  Link client: a waiter
that is not registered has been answered, or the goroutine that took it out will answer.
Clipboard: what the watcher has yet to see is newer than what it has sent.  Video: a
keyframe that is asked for is at one of the places it can be.

**`CursorProofs`.** The limits of the queues and of the two memories of the session
(`CursorTyped`); then, from the elements of the sequences, that the session remembers as
sent only what is with the client, on its way, or let go (`SentStaysThere`).

**What the counterexamples lack.** For a property that a run refutes there is, where it
can be said, a theorem that the property holds under one condition, stated of the steps
of the behaviour, which the counterexample breaks.  So the condition is enough, and the
order it forbids is the whole of the problem:

| Property | Condition | Theorem |
|---|---|---|
| `WaitersTold` | `ArmedInTime`: no request is armed for a PC that has come back since it was looked up | `WaitersAreToldInTime` |
| `RefusedOnlyIfInUse` | `StoredInTime`: no session is over before it is stored | `RefusalsAreTrue`, and `OneDeviceStrictly` |
| `DisconnectEndsAll` | `CalmDisconnect`: every open session is listed, with its capture opened, as `DisconnectAll` begins | `CalmDisconnectEndsAll` |
| `ForgetTakesEffect` | `~shared`: no process saves while another holds a copy | `ForgettingAloneTakesEffect` |

`WindowKept` has no such theorem, as the only condition that saves it is that no
replaced connection has a window to lose; nor has `ReleasedKeyArrives`, which is liveness.

**What is proved of liveness** is its safety half, the states in which it would be lost:

| Liveness (model-checked) | Safety half (proved) |
|---|---|
| `EndsWithClient` | `SessionsLeaveWithClient` |
| `RequestsAreAnswered`, `DisconnectIsOver` | `NobodyWaitsInVain` |
| `UnconnectedEnd` | `OpenStayWatched` |
| `HeldKeyArrives` | `OneSnapshotHeals`: a snapshot that arrives sets all keys right |
| `HelperFollows` | `OneHelper`, `StoppedLeavesNone` |
| `SameAfterRestart` | `NothingIsForgotten`, `ExitsAreClean` |

Every invariant and every action property of a passing run is stated by a theorem.
Only model-checked is the liveness itself (the left column and `LeavesInTheEnd`), since
neither fairness nor `ENABLED` can be reasoned about with the prover at hand.  The properties of the counterexample runs are false as they stand.

## 5. Not modelled

Cryptography (signatures, key derivation, confirmation tags, relay credentials) is taken
to work.  Audio, statistics and notices move data and keep no state that others rely on.
The wire formats, the key map, HTTP set-up, installing the service, the installer and
the looks of the interface have no behaviour in time.  Direct3D, Windows and the encoders
are calls that succeed or fail.  The peer connection (ICE, DTLS, RTP) is a library: its
states and its channels are modelled by what the code expects of them.

Things the models leave out although the code has them:

- The set-up and reconnection of the page (`client/js/net/session.js`): it awaits
  between steps and looks at `_closed` after most of them.  `Hub` and `AgentSessions` let a
  client send any message at any time instead.
- A peer connection that is interrupted and recovers makes `onConnected` start its pumps
  a second time (`session.go:329-333`); the pumps are modelled once.
- Sequence numbers of input wrap at 2^32; they are used for statistics and decide
  nothing.
- The buttons the agent believes it holds: a button packet injects its own button and
  takes over the whole mask, so after a loss the two differ.  The model does as the code
  does, and `KeysAreAsBelieved` speaks of keys only.
- Of the quality controller, the models show but no property forbids: a frame rate
  lowered on the desktop at the top rung is never restored, the viewport and the ladder may
  alternate between two sizes a dwell apart, and `Apply` may set a maximum below the minimum.
- Position updates of the pointer name no bitmap (`session.go:816`), a text of the PC is cut
  at 32768 units though `session.go:899` speaks of a refusal, and the same text copied
  again is not sent: the models do the same.
- A helper that outlives a crashed service (`orphans`) is counted and excluded from
  `helpers`, as the service knows nothing of it.

## 6. Plan

1. `BrowserSession`: the awaits of `session.js`, `_closed`, reconnection and the nonce
   set of `rendezvous.js`, composed with `Hub` through what a client may send.
2. The second run of `onConnected`: two pumps of one kind over `Clipboard` and `Quality`.
3. Several adapters in `Displays` (indexes repeat over adapters) and a list that is
   taken again.
4. Proof: that what `Supervisor`, `Video` and `Clipboard` cannot lose step by step is also
   what their liveness needs, as for the sessions.
