---------------------------- MODULE InputChannel ----------------------------
(***************************************************************************)
(* What is held down on the client and what is held down on the PC:        *)
(* client/js/input/input.js sends, session.go (onInputMessage) applies to  *)
(* the injector, and Close lets everything go.                             *)
(*                                                                         *)
(* Packets travel on an unordered data channel without retransmission.     *)
(* Every packet that says what is held says it for the keys, for the mouse *)
(* buttons, or for both (covers), and what is held of those (state).  A    *)
(* button packet is applied by injecting its own button only (only).       *)
(* Wheel, text and ping packets say nothing of what is held, and the       *)
(* sequence numbers do not decide what is applied: both are left out.      *)
(***************************************************************************)
EXTENDS Naturals, Sequences, SequencesExt

CONSTANTS Keys, Buttons,  \* what can be held: HID usages, mouse buttons
          MaxInFlight     \* bound: packets in the channel; more are skipped (sendInput)

Inputs == Keys \cup Buttons

ASSUME InputAssumption ==
    /\ Keys \cap Buttons = {}
    /\ MaxInFlight \in Nat \ {0}

Packets == [covers : {Keys, Buttons, Inputs}, state : SUBSET Inputs,
            only : {{}} \cup {{b} : b \in Buttons}]

VARIABLES
    pressed,   \* client: this._keys and this._buttons
    attached,  \* client: the controller sends
    net,       \* packets on the way, the oldest first
    job,       \* agent: the packet onInputMessage is applying, if any
    todo,      \* agent: what it has still to inject
    view,      \* agent: s.keyState and s.buttonState
    held,      \* injector: heldKeys and heldButtons
    phase,     \* session: open, input released by Close, channels closed
    disturbed, \* history: a packet was lost, skipped or overtaken
    late       \* history: a packet was being applied when Close let go, or was received since

clientVars == <<pressed, attached>>
agentVars == <<job, todo, view, held>>
vars == <<clientVars, net, agentVars, phase, disturbed, late>>

TypeOK ==
    /\ pressed \subseteq Inputs /\ attached \in BOOLEAN
    /\ net \in Seq(Packets) /\ Len(net) <= MaxInFlight
    /\ job \in {<<>>} \cup {<<p>> : p \in Packets}
    /\ todo \subseteq Inputs /\ (job = <<>> => todo = {})
    /\ view \subseteq Inputs /\ held \subseteq Inputs
    /\ phase \in {"open", "released", "gone"}
    /\ disturbed \in BOOLEAN /\ late \in BOOLEAN

Init ==
    /\ pressed = {} /\ attached = TRUE
    /\ net = <<>>
    /\ job = <<>> /\ todo = {} /\ view = {} /\ held = {}
    /\ phase = "open" /\ disturbed = FALSE /\ late = FALSE

-----------------------------------------------------------------------------
(* The client.                                                             *)

Packet(covers, now, only) == [covers |-> covers, state |-> now \cap covers, only |-> only]
KeyPacket(now) == Packet(Keys, now, {})
MovePacket(now) == Packet(Buttons, now, {})
ButtonPacket(b, now) == Packet(Buttons, now, {b})
SyncPacket(now) == Packet(Inputs, now, {})

\* sendInput, for the packets of one event: skipped when there is a backlog.
SendInput(packets) ==
    IF Len(net) + Len(packets) <= MaxInFlight
    THEN net' = net \o packets /\ UNCHANGED disturbed
    ELSE disturbed' = TRUE /\ UNCHANGED net

Event(now, packets) ==
    /\ attached
    /\ pressed' = now
    /\ SendInput(packets)
    /\ UNCHANGED <<attached, agentVars, phase, late>>

\* event.repeat is filtered, so a key goes down once.
OnKeyDown(k) ==
    /\ k \notin pressed
    /\ Event(pressed \cup {k}, <<KeyPacket(pressed \cup {k})>>)

OnKeyUp(k) == Event(pressed \ {k}, <<KeyPacket(pressed \ {k})>>)

\* One button goes down or up; the position may go first, in a packet of its own.
Button(b, now) ==
    \/ Event(now, <<ButtonPacket(b, now)>>)
    \/ Event(now, <<MovePacket(pressed), ButtonPacket(b, now)>>)

\* pointerdown and touchstart, which a touch both causes.
OnPointerDown(b) == Button(b, pressed \cup {b})

\* pointerup and touchend.
OnPointerUp(b) == Button(b, pressed \ {b})

OnPointerMove == Event(pressed, <<MovePacket(pressed)>>)

\* Mutant: nothing is said when the window loses the focus.
ReleaseAll_Silent == Event({}, <<>>)

\* blur, a hidden tab, the end of the pointer lock, the panic chord.
ReleaseAll == Event({}, <<SyncPacket({})>>)

\* detach: the last packet the controller sends.
Detach ==
    /\ attached /\ attached' = FALSE
    /\ pressed' = {}
    /\ SendInput(<<SyncPacket({})>>)
    /\ UNCHANGED <<agentVars, phase, late>>

\* Mutant: the heartbeat runs only while a mouse button is held.
Heartbeat_Buttons ==
    /\ pressed \cap Buttons # {}
    /\ Event(pressed, <<SyncPacket(pressed)>>)

\* Every KEY_HEARTBEAT_MS, while anything is held.
Heartbeat ==
    /\ pressed # {}
    /\ Event(pressed, <<SyncPacket(pressed)>>)

-----------------------------------------------------------------------------
(* The channel and the agent.                                              *)

Lose(i) ==
    /\ i \in DOMAIN net
    /\ net' = RemoveAt(net, i)
    /\ disturbed' = TRUE
    /\ UNCHANGED <<clientVars, agentVars, phase, late>>

\* KeyBitmap.Diff, and the loop of applyButtons.
Changes(p) == {x \in p.covers : (x \in view) # (x \in p.state)}

\* onInputMessage takes inputMu and one packet.
Receive(i) ==
    /\ phase # "gone" /\ job = <<>>
    /\ i \in DOMAIN net
    /\ net' = RemoveAt(net, i)
    /\ disturbed' = (disturbed \/ i # 1)
    /\ job' = <<net[i]>>
    /\ todo' = IF net[i].only # {} THEN net[i].only ELSE Changes(net[i])
    /\ late' = (late \/ phase = "released")
    /\ UNCHANGED <<clientVars, view, held, phase>>

\* Injector.Key or Injector.MouseButton: one transition.
Inject(x) ==
    /\ x \in todo
    /\ held' = IF x \in job[1].state THEN held \cup {x} ELSE held \ {x}
    /\ todo' = todo \ {x}
    /\ UNCHANGED <<clientVars, net, job, view, phase, disturbed, late>>

\* Mutant: the state is noted before everything is injected.
Applied_Early ==
    /\ job # <<>>
    /\ view' = (view \ job[1].covers) \cup job[1].state
    /\ job' = <<>>
    /\ UNCHANGED <<clientVars, net, todo, held, phase, disturbed, late>>

\* Mutant: what is released is not noted as released.
Applied_Presses ==
    /\ job # <<>> /\ todo = {}
    /\ view' = view \cup job[1].state
    /\ job' = <<>>
    /\ UNCHANGED <<clientVars, net, todo, held, phase, disturbed, late>>

\* s.keyState = *next and s.buttonState = mask, when all is injected.
Applied ==
    /\ job # <<>> /\ todo = {}
    /\ view' = (view \ job[1].covers) \cup job[1].state
    /\ job' = <<>>
    /\ UNCHANGED <<clientVars, net, todo, held, phase, disturbed, late>>

\* Mutant: heldButtons is forgotten.
CloseReleases_Keys ==
    /\ phase = "open" /\ phase' = "released"
    /\ held' = held \ Keys
    /\ late' = (job # <<>>)
    /\ UNCHANGED <<clientVars, net, job, todo, view, disturbed>>

\* Close: Injector.ReleaseAll, not under inputMu: a packet may be half applied.
CloseReleases ==
    /\ phase = "open" /\ phase' = "released"
    /\ held' = {}
    /\ late' = (job # <<>>)
    /\ UNCHANGED <<clientVars, net, job, todo, view, disturbed>>

\* Close: the channels are closed; a packet being applied is applied to the end.
CloseChannels ==
    /\ phase = "released" /\ phase' = "gone"
    /\ UNCHANGED <<clientVars, net, agentVars, disturbed, late>>

-----------------------------------------------------------------------------
Client ==
    \/ \E k \in Keys : OnKeyDown(k) \/ OnKeyUp(k)
    \/ \E b \in Buttons : OnPointerDown(b) \/ OnPointerUp(b)
    \/ OnPointerMove \/ ReleaseAll \/ Detach \/ Heartbeat

Handler == Applied \/ \E x \in Inputs : Inject(x)

Slots == 1..MaxInFlight

Next ==
    \/ Client \/ Handler
    \/ \E i \in Slots : Receive(i) \/ Lose(i)
    \/ CloseReleases \/ CloseChannels

Spec == Init /\ [][Next]_vars

\* A packet that says what is held of everything.
ReceiveSync == \E i \in DOMAIN net : net[i].covers = Inputs /\ Receive(i)
SyncUnderway == \E i \in DOMAIN net : net[i].covers = Inputs

\* The agent applies what it has received and nothing stays in the channel for
\* ever; the heartbeat is not skipped for a backlog every time, and of its packets,
\* sent again and again, not all are lost.
Fairness ==
    /\ WF_vars(Handler)
    /\ WF_vars(\E i \in Slots : Receive(i) \/ Lose(i))
    /\ SF_vars(Len(net) < MaxInFlight /\ Heartbeat)
    /\ []<>SyncUnderway => []<><<ReceiveSync>>_vars

FairSpec == Spec /\ Fairness

-----------------------------------------------------------------------------
AtRest == phase = "open" /\ job = <<>>

\* Between two packets of an open session the keys the agent believes are down
\* are the keys the injector holds down, whatever was lost or reordered.
KeysAreAsBelieved == AtRest => held \cap Keys = view \cap Keys

\* When nothing was lost, skipped or overtaken and everything has arrived, the PC
\* holds exactly what the client holds, keys and buttons.
SettledAgree == AtRest /\ ~disturbed /\ net = <<>> => held = pressed

\* A key that stays down on the client comes down on the PC, again and again if
\* need be, whatever is lost (the heartbeat, input.js:357-362).
HeldKeyArrives ==
    \A k \in Keys : []<>(k \in held \/ k \notin pressed \/ ~attached \/ phase # "open")

\* A key that is no longer down on the client does not stay down on the PC.
ReleasedKeyArrives ==
    \A k \in Keys : []<>(k \notin held \/ k \in pressed \/ ~attached \/ phase # "open")

\* Disconnect, for any reason, lets go of every key and button (docs/security.md:279):
\* nothing is held down when the session is gone, whatever was lost on the way and
\* whatever the session believes.  Not so for a packet that was half applied when
\* Close let go, or received before the channels were closed: what it presses stays.
NothingHeldAtEnd == phase = "gone" /\ job = <<>> /\ ~late => held = {}
=============================================================================
