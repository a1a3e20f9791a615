----------------------------- MODULE InputProofs ----------------------------
(***************************************************************************)
(* That the agent always knows which keys it holds down (KeysAreAsBelieved *)
(* of InputChannel), for any keys, buttons and number of packets on the    *)
(* way, whatever is lost, overtaken or skipped; and that it holds what the *)
(* client holds when nothing was lost and all has arrived (SettledAgree),  *)
(* and nothing when the session is gone (NothingHeldAtEnd).  And of        *)
(* Supervisor: there is one helper at most, and none when it has stopped.  *)
(*                                                                         *)
(* While a packet is applied the two differ: a key that the packet speaks  *)
(* of and that has been dealt with is as the packet says, every other one  *)
(* is as the agent believes.  For this, no packet of a mouse button may    *)
(* speak of keys, for it would not inject them.                            *)
(***************************************************************************)
EXTENDS MCInputChannel, SequenceTheorems, TLAPS

\* What the client makes: nothing is said to be held that is not spoken of, and a
\* packet with a button of its own speaks of buttons.
WellFormed ==
    {p \in Packets : p.state \subseteq p.covers /\ (p.only # {} => p.covers = Buttons)}

PacketsOK ==
    /\ net \in Seq(WellFormed)
    /\ job = <<>> \/ \E p \in WellFormed : job = <<p>>

TodoOK ==
    /\ job = <<>> => todo = {}
    /\ job # <<>> => todo \cap Keys \subseteq job[1].covers

\* A key the packet has been applied to, of the keys it speaks of.
Dealt(k) == job # <<>> /\ k \in job[1].covers /\ k \notin todo

KeysFollow ==
    phase = "open" =>
        \A k \in Keys : IF Dealt(k) THEN k \in held <=> k \in job[1].state
                                    ELSE k \in held <=> k \in view

InputInv == PacketsOK /\ TodoOK /\ KeysFollow

-----------------------------------------------------------------------------
\* Keys and buttons are told apart.
LEMMA Apart == \A k \in Keys : k \notin Buttons
  BY InputAssumption

LEMMA PacketIsWellFormed ==
    ASSUME NEW now, NEW covers \in {Keys, Buttons, Inputs},
           NEW only \in {{}} \cup {{b} : b \in Buttons}, only # {} => covers = Buttons
    PROVE  Packet(covers, now, only) \in WellFormed
<1>1. now \cap covers \in SUBSET Inputs
  BY DEF Inputs
<1>2. Packet(covers, now, only) \in Packets
  BY <1>1 DEF Packet, Packets
<1> QED BY <1>2 DEF Packet, WellFormed

\* What the client sends joins what is on the way, or is skipped.
LEMMA EventKeepsInv ==
    ASSUME InputInv, NEW now, NEW packets \in Seq(WellFormed), Event(now, packets)
    PROVE  InputInv'
<1>1. net' \in Seq(WellFormed)
  BY ConcatProperties DEF InputInv, PacketsOK, Event, SendInput
<1>2. UNCHANGED <<job, todo, view, held, phase>>
  BY DEF Event, agentVars
<1> QED BY <1>1, <1>2 DEF InputInv, PacketsOK, TodoOK, KeysFollow, Dealt

LEMMA ClientKeepsInv == ASSUME InputInv, Client PROVE InputInv'
<1> USE PacketIsWellFormed
<1>1. \A now : <<KeyPacket(now)>> \in Seq(WellFormed)
  BY DEF KeyPacket
<1>2. \A now : MovePacket(now) \in WellFormed
  BY DEF MovePacket
<1>3. \A now : <<SyncPacket(now)>> \in Seq(WellFormed)
  BY DEF SyncPacket
<1>4. \A now : \A b \in Buttons : ButtonPacket(b, now) \in WellFormed
  BY DEF ButtonPacket
<1>5. CASE \E k \in Keys : OnKeyDown(k) \/ OnKeyUp(k)
  BY <1>1, <1>5, EventKeepsInv DEF OnKeyDown, OnKeyUp
<1>6. ASSUME NEW b \in Buttons, NEW now, Button(b, now) PROVE InputInv'
  <2>1. <<ButtonPacket(b, now)>> \in Seq(WellFormed)
        /\ <<MovePacket(pressed), ButtonPacket(b, now)>> \in Seq(WellFormed)
    BY <1>2, <1>4
  <2> QED BY <1>6, <2>1, EventKeepsInv DEF Button
<1>7. CASE \E b \in Buttons : OnPointerDown(b) \/ OnPointerUp(b)
  BY <1>6, <1>7 DEF OnPointerDown, OnPointerUp
<1>8. CASE OnPointerMove
  <2>1. <<MovePacket(pressed)>> \in Seq(WellFormed)
    BY <1>2
  <2> QED BY <1>8, <2>1, EventKeepsInv DEF OnPointerMove
<1>9. CASE ReleaseAll \/ Heartbeat
  BY <1>3, <1>9, EventKeepsInv DEF ReleaseAll, Heartbeat
<1>10. CASE Detach
  <2>1. net' \in Seq(WellFormed)
    BY <1>3, <1>10, ConcatProperties DEF Detach, SendInput, InputInv, PacketsOK
  <2>2. UNCHANGED <<job, todo, view, held, phase>>
    BY <1>10 DEF Detach, agentVars
  <2> QED BY <2>1, <2>2 DEF InputInv, PacketsOK, TodoOK, KeysFollow, Dealt
<1> QED BY <1>5, <1>7, <1>8, <1>9, <1>10 DEF Client

-----------------------------------------------------------------------------
\* The rest of what is on the way is what was on the way.
LEMMA RemovedIsSeq ==
    ASSUME NEW S, NEW s \in Seq(S), NEW i \in DOMAIN s
    PROVE  RemoveAt(s, i) \in Seq(S) /\ s[i] \in S
<1>1. i \in 1..Len(s) /\ Len(s) \in Nat
  BY LenProperties
<1>2. SubSeq(s, 1, i - 1) \in Seq(S)
  BY <1>1, SubSeqProperties
<1>3. SubSeq(s, i + 1, Len(s)) \in Seq(S)
  BY <1>1, SubSeqProperties
<1> QED BY <1>1, <1>2, <1>3, ConcatProperties, ElementOfSeq DEF RemoveAt

LEMMA LoseKeepsInv == ASSUME InputInv, NEW i \in Slots, Lose(i) PROVE InputInv'
<1>1. net' \in Seq(WellFormed)
  BY RemovedIsSeq DEF Lose, InputInv, PacketsOK
<1>2. UNCHANGED <<job, todo, view, held, phase>>
  BY DEF Lose, agentVars
<1> QED BY <1>1, <1>2 DEF InputInv, PacketsOK, TodoOK, KeysFollow, Dealt

\* Nothing of a packet that has just come has been applied but what need not be.
LEMMA ReceiveKeepsInv == ASSUME InputInv, NEW i \in Slots, Receive(i) PROVE InputInv'
<1>1. /\ job = <<>> /\ i \in DOMAIN net /\ job' = <<net[i]>>
      /\ net' = RemoveAt(net, i)
      /\ todo' = IF net[i].only # {} THEN net[i].only ELSE Changes(net[i])
      /\ UNCHANGED <<view, held, phase>>
  BY DEF Receive
<1>2. net \in Seq(WellFormed)
  BY DEF InputInv, PacketsOK
<1>3. net' \in Seq(WellFormed) /\ net[i] \in WellFormed
  BY <1>1, <1>2, RemovedIsSeq
<1>4. PICK p \in WellFormed : p = net[i]
  BY <1>3
<1>5. job' = <<p>> /\ job' # <<>> /\ job'[1] = p
  BY <1>1, <1>4
<1>6. PacketsOK'
  BY <1>3, <1>5 DEF PacketsOK
<1>7. \A k \in Keys : k \in todo' <=> k \in p.covers /\ ((k \in view) # (k \in p.state))
  <2>1. CASE p.only # {}
    <3>1. p.covers = Buttons /\ p.only \subseteq Buttons
      BY <2>1 DEF WellFormed, Packets
    <3> QED BY <1>1, <1>4, <2>1, <3>1, Apart
  <2>2. CASE p.only = {}
    BY <1>1, <1>4, <2>2 DEF Changes
  <2> QED BY <2>1, <2>2
<1>8. TodoOK'
  BY <1>5, <1>7 DEF TodoOK
<1>9. KeysFollow'
  <2> SUFFICES ASSUME phase = "open", NEW k \in Keys
               PROVE  IF Dealt(k)' THEN k \in held <=> k \in p.state
                                   ELSE k \in held <=> k \in view
    BY <1>1, <1>5 DEF KeysFollow
  <2>1. k \in held <=> k \in view
    BY <1>1 DEF InputInv, KeysFollow, Dealt
  <2>2. Dealt(k)' => (k \in view <=> k \in p.state)
    BY <1>5, <1>7 DEF Dealt
  <2> QED BY <2>1, <2>2
<1> QED BY <1>6, <1>8, <1>9 DEF InputInv

\* One key more is as the packet says.
LEMMA InjectKeepsInv == ASSUME InputInv, NEW x \in Inputs, Inject(x) PROVE InputInv'
<1>1. /\ x \in todo
      /\ held' = IF x \in job[1].state THEN held \cup {x} ELSE held \ {x}
      /\ todo' = todo \ {x}
      /\ UNCHANGED <<net, job, view, phase>>
  BY DEF Inject
<1>2. job # <<>> /\ todo \cap Keys \subseteq job[1].covers
  BY <1>1 DEF InputInv, TodoOK
<1>3. PacketsOK' /\ TodoOK'
  BY <1>1, <1>2 DEF InputInv, PacketsOK, TodoOK
<1>4. KeysFollow'
  <2> SUFFICES ASSUME phase = "open", NEW k \in Keys
               PROVE  IF Dealt(k)' THEN k \in held' <=> k \in job[1].state
                                   ELSE k \in held' <=> k \in view
    BY <1>1 DEF KeysFollow
  <2>1. IF Dealt(k) THEN k \in held <=> k \in job[1].state
                    ELSE k \in held <=> k \in view
    BY DEF InputInv, KeysFollow
  <2>2. CASE k = x
    BY <1>1, <1>2, <2>2 DEF Dealt
  <2>3. CASE k # x
    <3>1. (Dealt(k)' <=> Dealt(k)) /\ (k \in held' <=> k \in held)
      BY <1>1, <2>3 DEF Dealt
    <3> QED BY <2>1, <3>1
  <2> QED BY <2>2, <2>3
<1> QED BY <1>3, <1>4 DEF InputInv

\* When all has been dealt with, what the packet says is what the agent believes.
LEMMA AppliedKeepsInv == ASSUME InputInv, Applied PROVE InputInv'
<1>1. /\ job # <<>> /\ todo = {} /\ job' = <<>>
      /\ view' = (view \ job[1].covers) \cup job[1].state
      /\ UNCHANGED <<net, todo, held, phase>>
  BY DEF Applied
<1>2. PICK p \in WellFormed : job = <<p>>
  BY <1>1 DEF InputInv, PacketsOK
<1>3. job[1] = p /\ p.state \subseteq p.covers
  BY <1>2 DEF WellFormed
<1>4. PacketsOK' /\ TodoOK'
  BY <1>1 DEF InputInv, PacketsOK, TodoOK
<1>5. KeysFollow'
  BY <1>1, <1>3 DEF InputInv, KeysFollow, Dealt
<1> QED BY <1>4, <1>5 DEF InputInv

LEMMA InputStep == InputInv /\ [Next]_vars => InputInv'
<1> SUFFICES ASSUME InputInv, [Next]_vars PROVE InputInv'
  OBVIOUS
<1>1. CASE Client
  BY <1>1, ClientKeepsInv
<1>2. CASE Handler
  BY <1>2, AppliedKeepsInv, InjectKeepsInv DEF Handler
<1>3. CASE \E i \in Slots : Receive(i) \/ Lose(i)
  BY <1>3, ReceiveKeepsInv, LoseKeepsInv
<1>4. CASE CloseReleases \/ CloseChannels
  BY <1>4 DEF CloseReleases, CloseChannels, agentVars, InputInv, PacketsOK, TodoOK, KeysFollow, Dealt
<1>5. CASE UNCHANGED vars
  BY <1>5 DEF vars, clientVars, agentVars, InputInv, PacketsOK, TodoOK, KeysFollow, Dealt
<1> QED BY <1>1, <1>2, <1>3, <1>4, <1>5 DEF Next

LEMMA InputInitInv == Init => InputInv
<1> SUFFICES ASSUME Init PROVE InputInv
  OBVIOUS
<1>1. net \in Seq(WellFormed)
  BY EmptySeq DEF Init
<1> QED BY <1>1 DEF Init, InputInv, PacketsOK, TodoOK, KeysFollow, Dealt

\* The inductive invariant holds always.
THEOREM InputInvariant == Spec => []InputInv
  BY InputInitInv, InputStep, PTL DEF Spec

\* Between two packets the agent holds down exactly the keys it believes it holds
\* (session.go:1238-1364), for any keys and any loss, reordering or skipping.
THEOREM KeysStayAsBelieved == Spec => []KeysAreAsBelieved
<1>1. InputInv => KeysAreAsBelieved
  BY DEF InputInv, KeysFollow, Dealt, KeysAreAsBelieved, AtRest
<1> QED BY <1>1, InputInvariant, PTL

\* What HeldKeyArrives rests on: one packet that speaks of the keys and is applied to the
\* end sets them all right, whatever was lost, skipped or overtaken before it
\* (session.go: onInputMessage, KeyBitmap.Diff; input.js: the heartbeat).
SnapshotsHeal ==
    [][phase = "open" /\ Applied /\ Keys \subseteq job[1].covers
        => held' \cap Keys = job[1].state \cap Keys]_vars

THEOREM OneSnapshotHeals == Spec => SnapshotsHeal
<1>1. ASSUME InputInv, phase = "open", Applied, Keys \subseteq job[1].covers
      PROVE  held' \cap Keys = job[1].state \cap Keys
  <2>1. held' = held /\ job # <<>> /\ todo = {}
    BY <1>1 DEF Applied
  <2>2. \A k \in Keys : Dealt(k)
    BY <1>1, <2>1 DEF Dealt
  <2> QED BY <1>1, <2>1, <2>2 DEF InputInv, KeysFollow
<1>2. InputInv =>
        [phase = "open" /\ Applied /\ Keys \subseteq job[1].covers
            => held' \cap Keys = job[1].state \cap Keys]_vars
  BY <1>1
<1> QED BY <1>2, InputInvariant, PTL DEF SnapshotsHeal

-----------------------------------------------------------------------------
(* What is held once all has arrived (SettledAgree).  As long as nothing   *)
(* was lost, skipped or overtaken the packets on the way tell, one after   *)
(* the other, how what the PC holds becomes what the client holds: each    *)
(* tells of all that changed since the one before it.                      *)

\* What a packet changes when it is applied to the end.
Touches(p) == IF p.only # {} THEN p.only ELSE p.covers

\* Packet p says what is held when that goes from "before" to "now".
Says(p, before, now) ==
    /\ p.state = now \cap p.covers
    /\ \A x \in Inputs \ Touches(p) : x \in now <=> x \in before

\* The packets of s lead from what is held first to what is held last.
Leads(s, first, last) ==
    \E h \in [Nat -> SUBSET Inputs] :
        /\ h[0] = first /\ h[Len(s)] = last
        /\ \A i \in 1..Len(s) : Says(s[i], h[i - 1], h[i])

\* The agent holds S, or will when the packet it applies has been applied.
AgentComesTo(S) ==
    /\ view \subseteq Inputs /\ held \subseteq Inputs
    /\ IF job = <<>> THEN held = S /\ view = S
       ELSE /\ job[1].state = S \cap job[1].covers
            /\ todo \subseteq job[1].covers
            /\ \A x \in Inputs : /\ x \notin todo => (x \in held <=> x \in S)
                                 /\ x \notin job[1].covers => (x \in view <=> x \in S)

Follows ==
    phase = "open" /\ ~disturbed =>
        \E S \in SUBSET Inputs : AgentComesTo(S) /\ Leads(net, S, pressed)

SettledInv == InputInv /\ Follows

\* One packet more on the way.
LEMMA LeadsFurther ==
    ASSUME NEW s \in Seq(WellFormed), NEW p \in WellFormed,
           NEW first, NEW last, NEW now \in SUBSET Inputs,
           Leads(s, first, last), Says(p, last, now)
    PROVE  Leads(s \o <<p>>, first, now)
<1>1. PICK h \in [Nat -> SUBSET Inputs] :
         /\ h[0] = first /\ h[Len(s)] = last
         /\ \A i \in 1..Len(s) : Says(s[i], h[i - 1], h[i])
  BY DEF Leads
<1> DEFINE t == s \o <<p>>
           g == [i \in Nat |-> IF i = Len(s) + 1 THEN now ELSE h[i]]
<1>2. /\ Len(s) \in Nat /\ Len(t) = Len(s) + 1 /\ t[Len(s) + 1] = p
      /\ \A i \in 1..Len(s) : t[i] = s[i]
  OBVIOUS
<1>3. g \in [Nat -> SUBSET Inputs]
  BY <1>1
<1>4. g[0] = first /\ g[Len(t)] = now
  BY <1>1, <1>2
<1>5. ASSUME NEW i \in 1..Len(t) PROVE Says(t[i], g[i - 1], g[i])
  <2>1. CASE i = Len(s) + 1
    <3>1. g[i - 1] = last /\ g[i] = now
      BY <1>1, <1>2, <2>1
    <3> QED BY <1>2, <2>1, <3>1
  <2>2. CASE i \in 1..Len(s)
    <3>1. g[i - 1] = h[i - 1] /\ g[i] = h[i]
      BY <1>2, <2>2
    <3> QED BY <1>1, <1>2, <2>2, <3>1
  <2> QED BY <1>2, <2>1, <2>2
<1> HIDE DEF g, t
<1>6. Leads(t, first, now)
  BY <1>3, <1>4, <1>5 DEF Leads
<1> QED BY <1>6 DEF t

\* The oldest packet arrives.
LEMMA LeadsOn ==
    ASSUME NEW s \in Seq(WellFormed), 1 \in DOMAIN s, NEW first, NEW last, Leads(s, first, last)
    PROVE  \E now \in SUBSET Inputs : Says(s[1], first, now) /\ Leads(RemoveAt(s, 1), now, last)
<1>1. PICK h \in [Nat -> SUBSET Inputs] :
         /\ h[0] = first /\ h[Len(s)] = last
         /\ \A i \in 1..Len(s) : Says(s[i], h[i - 1], h[i])
  BY DEF Leads
<1> DEFINE t == RemoveAt(s, 1)
           g == [i \in Nat |-> h[i + 1]]
<1>2. Len(s) \in Nat \ {0} /\ 1 \in 1..Len(s)
  OBVIOUS
<1>3. Len(t) = Len(s) - 1 /\ \A i \in 1..Len(t) : t[i] = s[i + 1]
  <2> DEFINE rest == SubSeq(s, 2, Len(s))
  <2>1. t = <<>> \o rest
    <3>1. SubSeq(s, 1, 1 - 1) = <<>>
      BY <1>2, SubSeqProperties, EmptySeq
    <3>2. 1 + 1 = 2
      OBVIOUS
    <3> QED BY <3>1, <3>2 DEF RemoveAt
  <2>2. rest \in Seq(WellFormed) /\ Len(rest) = Len(s) - 1 /\ \A i \in 1..Len(s) - 1 : rest[i] = s[i + 1]
    <3>1. \A i \in 2..Len(s) : s[i] \in WellFormed
      BY <1>2, ElementOfSeq
    <3>2. 2 \in Int /\ Len(s) \in Int /\ Len(s) >= 1
      BY <1>2
    <3>3. /\ rest \in Seq(WellFormed)
          /\ Len(rest) = IF 2 <= Len(s) THEN Len(s) - 2 + 1 ELSE 0
          /\ \A i \in 1..Len(s) - 2 + 1 : rest[i] = s[2 + i - 1]
      BY <3>1, <3>2, SubSeqProperties
    <3> HIDE DEF rest
    <3>4. Len(rest) = Len(s) - 1
      <4>1. CASE 2 <= Len(s)
        BY <3>2, <3>3, <4>1
      <4>2. CASE ~(2 <= Len(s))
        <5>1. Len(rest) = 0
          BY <3>3, <4>2, Zenon
        <5>2. Len(s) - 1 = 0
          BY <3>2, <4>2
        <5> QED BY <5>1, <5>2
      <4> QED BY <4>1, <4>2
    <3>5. ASSUME NEW i \in 1..Len(s) - 1 PROVE rest[i] = s[i + 1]
      <4>1. i \in 1..Len(s) - 2 + 1 /\ 2 + i - 1 = i + 1
        BY <3>2
      <4> QED BY <3>3, <4>1
    <3> QED BY <3>3, <3>4, <3>5
  <2>3. t = rest
    BY <2>1, <2>2, ConcatEmptySeq
  <2> QED BY <2>2, <2>3
<1>4. g \in [Nat -> SUBSET Inputs] /\ g[0] = h[1] /\ h[1] \in SUBSET Inputs
  <2>1. \A i \in Nat : i + 1 \in Nat /\ h[i + 1] \in SUBSET Inputs
    BY <1>1
  <2>2. 0 + 1 = 1 /\ 0 \in Nat
    OBVIOUS
  <2> QED BY <2>1, <2>2
<1>5. g[Len(t)] = last
  <2>1. Len(t) \in Nat /\ Len(t) + 1 = Len(s)
    BY <1>2, <1>3
  <2>2. g[Len(t)] = h[Len(t) + 1]
    BY <2>1
  <2> QED BY <1>1, <2>1, <2>2
<1>6. ASSUME NEW i \in 1..Len(t) PROVE Says(t[i], g[i - 1], g[i])
  <2>1. g[i - 1] = h[i] /\ g[i] = h[i + 1] /\ i + 1 \in 1..Len(s) /\ (i + 1) - 1 = i
    <3>1. i - 1 \in Nat /\ i \in Nat /\ (i - 1) + 1 = i /\ i + 1 \in 1..Len(s) /\ (i + 1) - 1 = i
      BY <1>2, <1>3
    <3>2. \A n \in Nat : g[n] = h[n + 1]
      OBVIOUS
    <3>3. g[i - 1] = h[(i - 1) + 1] /\ g[i] = h[i + 1]
      BY <3>1, <3>2, Zenon
    <3> QED BY <3>1, <3>3, Zenon
  <2>2. Says(s[i + 1], h[(i + 1) - 1], h[i + 1])
    BY <1>1, <2>1
  <2> QED BY <1>3, <2>1, <2>2
<1>7. Says(s[1], first, h[1])
  <2>1. Says(s[1], h[1 - 1], h[1])
    BY <1>1, <1>2
  <2> QED BY <1>1, <2>1
<1> HIDE DEF g, t
<1>8. Leads(t, h[1], last)
  BY <1>4, <1>5, <1>6 DEF Leads
<1> QED BY <1>4, <1>7, <1>8 DEF t

\* An event whose packet says what it changed.
LEMMA EventFollows ==
    ASSUME SettledInv, NEW now, NEW p \in WellFormed, Event(now, <<p>>),
           pressed \subseteq Inputs => now \subseteq Inputs /\ Says(p, pressed, now)
    PROVE  Follows'
<1> SUFFICES ASSUME phase = "open", ~disturbed'
             PROVE  \E S \in SUBSET Inputs : AgentComesTo(S)' /\ Leads(net', S, pressed')
  BY DEF Follows, Event
<1>1. net' = net \o <<p>> /\ pressed' = now /\ ~disturbed /\ UNCHANGED <<job, todo, view, held>>
  BY DEF Event, SendInput, agentVars
<1>2. PICK S \in SUBSET Inputs : AgentComesTo(S) /\ Leads(net, S, pressed)
  BY <1>1 DEF SettledInv, Follows
<1>3. pressed \subseteq Inputs
  BY <1>2 DEF Leads, SettledInv, InputInv, PacketsOK
<1>4. net \in Seq(WellFormed)
  BY DEF SettledInv, InputInv, PacketsOK
<1>5. Leads(net', S, pressed')
  BY <1>1, <1>2, <1>3, <1>4, LeadsFurther
<1>6. AgentComesTo(S)'
  BY <1>1, <1>2 DEF AgentComesTo
<1> QED BY <1>5, <1>6

\* What each packet of the client says of the inputs that an event changed.
LEMMA EachSays ==
    ASSUME NEW now \in SUBSET Inputs
    PROVE  /\ \A k \in Keys : /\ Says(KeyPacket(pressed \cup {k}), pressed, pressed \cup {k})
                              /\ Says(KeyPacket(pressed \ {k}), pressed, pressed \ {k})
           /\ Says(MovePacket(pressed), pressed, pressed)
           /\ Says(SyncPacket(now), pressed, now)
           /\ \A b \in Buttons : (\A x \in Inputs \ {b} : x \in now <=> x \in pressed)
                                 => Says(ButtonPacket(b, now), pressed, now)
  BY Apart DEF Says, Touches, KeyPacket, MovePacket, SyncPacket, ButtonPacket, Packet, Inputs

LEMMA ClientFollows == ASSUME SettledInv, Client PROVE Follows'
<1>1. /\ \A now : KeyPacket(now) \in WellFormed /\ MovePacket(now) \in WellFormed
                  /\ SyncPacket(now) \in WellFormed
      /\ \A now : \A b \in Buttons : ButtonPacket(b, now) \in WellFormed
  BY PacketIsWellFormed DEF KeyPacket, MovePacket, SyncPacket, ButtonPacket
<1>2. CASE \E k \in Keys : OnKeyDown(k) \/ OnKeyUp(k)
  BY <1>1, <1>2, EachSays, EventFollows DEF OnKeyDown, OnKeyUp, Inputs
<1>3. CASE OnPointerMove \/ ReleaseAll \/ Heartbeat
  BY <1>1, <1>3, EachSays, EventFollows DEF OnPointerMove, ReleaseAll, Heartbeat
<1>4. ASSUME NEW b \in Buttons, NEW now, Button(b, now),
             pressed \subseteq Inputs =>
                 now \subseteq Inputs /\ \A x \in Inputs \ {b} : x \in now <=> x \in pressed
      PROVE  Follows'
  <2>1. CASE Event(now, <<ButtonPacket(b, now)>>)
    BY <1>1, <1>4, <2>1, EachSays, EventFollows
  <2>2. CASE Event(now, <<MovePacket(pressed), ButtonPacket(b, now)>>)
    <3> SUFFICES ASSUME phase = "open", ~disturbed'
                 PROVE  \E S \in SUBSET Inputs : AgentComesTo(S)' /\ Leads(net', S, pressed')
      BY <2>2 DEF Follows, Event
    <3>1. /\ net' = net \o <<MovePacket(pressed), ButtonPacket(b, now)>>
          /\ pressed' = now /\ ~disturbed /\ UNCHANGED <<job, todo, view, held>>
      BY <2>2 DEF Event, SendInput, agentVars
    <3>2. PICK S \in SUBSET Inputs : AgentComesTo(S) /\ Leads(net, S, pressed)
      BY <3>1 DEF SettledInv, Follows
    <3>3. pressed \subseteq Inputs /\ net \in Seq(WellFormed)
      BY <3>2 DEF Leads, SettledInv, InputInv, PacketsOK
    <3>4. Leads(net \o <<MovePacket(pressed)>>, S, pressed)
      BY <1>1, <3>2, <3>3, EachSays, LeadsFurther
    <3>5. net \o <<MovePacket(pressed)>> \in Seq(WellFormed)
      BY <1>1, <3>3
    <3>6. Leads((net \o <<MovePacket(pressed)>>) \o <<ButtonPacket(b, now)>>, S, now)
      BY <1>1, <1>4, <3>3, <3>4, <3>5, EachSays, LeadsFurther
    <3>7. net' = (net \o <<MovePacket(pressed)>>) \o <<ButtonPacket(b, now)>>
      <4>1. ASSUME NEW p \in WellFormed, NEW q \in WellFormed PROVE <<p, q>> = <<p>> \o <<q>>
        <5>1. <<p, q>> \in Seq(WellFormed) /\ Len(<<p, q>>) = 2
          OBVIOUS
        <5>2. <<p>> \o <<q>> \in Seq(WellFormed) /\ Len(<<p>> \o <<q>>) = 2
          OBVIOUS
        <5>3. (<<p>> \o <<q>>)[1] = p /\ (<<p>> \o <<q>>)[2] = q
          OBVIOUS
        <5>4. \A i \in 1..2 : <<p, q>>[i] = (<<p>> \o <<q>>)[i]
          <6>1. \A i \in 1..2 : i = 1 \/ i = 2
            OBVIOUS
          <6> QED BY <5>3, <6>1
        <5> QED BY <5>1, <5>2, <5>4, SeqEqual
      <4> QED BY <1>1, <3>1, <3>3, <4>1, ConcatAssociative
    <3>8. AgentComesTo(S)'
      BY <3>1, <3>2 DEF AgentComesTo
    <3> QED BY <3>1, <3>6, <3>7, <3>8
  <2> QED BY <1>4, <2>1, <2>2 DEF Button
<1>5. CASE \E b \in Buttons : OnPointerDown(b) \/ OnPointerUp(b)
  BY <1>4, <1>5 DEF OnPointerDown, OnPointerUp, Inputs
<1>6. CASE Detach
  <2> SUFFICES ASSUME phase = "open", ~disturbed'
               PROVE  \E S \in SUBSET Inputs : AgentComesTo(S)' /\ Leads(net', S, pressed')
    BY <1>6 DEF Follows, Detach, agentVars
  <2>1. net' = net \o <<SyncPacket({})>> /\ pressed' = {} /\ ~disturbed /\ UNCHANGED <<job, todo, view, held>>
    BY <1>6 DEF Detach, SendInput, agentVars
  <2>2. PICK S \in SUBSET Inputs : AgentComesTo(S) /\ Leads(net, S, pressed)
    BY <2>1 DEF SettledInv, Follows
  <2>3. pressed \subseteq Inputs /\ net \in Seq(WellFormed)
    BY <2>2 DEF Leads, SettledInv, InputInv, PacketsOK
  <2>4. Leads(net', S, pressed')
    BY <1>1, <2>1, <2>2, <2>3, EachSays, LeadsFurther
  <2>5. AgentComesTo(S)'
    BY <2>1, <2>2 DEF AgentComesTo
  <2> QED BY <2>4, <2>5
<1> QED BY <1>2, <1>3, <1>5, <1>6 DEF Client

\* The agent takes the oldest packet; what it does not touch is as the packet says.
LEMMA ReceiveFollows == ASSUME SettledInv, NEW i \in Slots, Receive(i) PROVE Follows'
<1> SUFFICES ASSUME phase = "open", ~disturbed'
             PROVE  \E S \in SUBSET Inputs : AgentComesTo(S)' /\ Leads(net', S, pressed')
  BY DEF Follows, Receive
<1>1. /\ i = 1 /\ 1 \in DOMAIN net /\ job = <<>> /\ ~disturbed
      /\ net' = RemoveAt(net, 1) /\ job' = <<net[1]>>
      /\ todo' = IF net[1].only # {} THEN net[1].only ELSE Changes(net[1])
      /\ UNCHANGED <<view, held, pressed>>
  BY DEF Receive, clientVars
<1>2. PICK S \in SUBSET Inputs : AgentComesTo(S) /\ Leads(net, S, pressed)
  BY <1>1 DEF SettledInv, Follows
<1>3. net \in Seq(WellFormed)
  BY DEF SettledInv, InputInv, PacketsOK
<1>4. PICK p \in WellFormed : p = net[1]
  BY <1>1, <1>3, RemovedIsSeq
<1>5. PICK T \in SUBSET Inputs : Says(p, S, T) /\ Leads(RemoveAt(net, 1), T, pressed)
  BY <1>1, <1>2, <1>3, <1>4, LeadsOn
<1>6. held = S /\ view = S
  BY <1>1, <1>2 DEF AgentComesTo
<1>7. job' = <<p>> /\ job' # <<>> /\ job'[1] = p
  BY <1>1, <1>4
<1>8. p.state = T \cap p.covers /\ \A x \in Inputs \ Touches(p) : x \in T <=> x \in S
  BY <1>5 DEF Says
<1>9. /\ todo' \subseteq p.covers
      /\ \A x \in Inputs : (x \notin todo' => (x \in S <=> x \in T)) /\ (x \notin p.covers => (x \in S <=> x \in T))
  <2>1. CASE p.only # {}
    <3>1. p.covers = Buttons /\ p.only \subseteq Buttons /\ todo' = p.only
      BY <1>1, <1>4, <2>1 DEF WellFormed, Packets
    <3> QED BY <1>8, <2>1, <3>1 DEF Touches
  <2>2. CASE p.only = {}
    <3>1. todo' = {x \in p.covers : (x \in S) # (x \in p.state)}
      BY <1>1, <1>4, <1>6, <2>2 DEF Changes
    <3>2. \A x \in p.covers : x \in p.state <=> x \in T
      BY <1>8
    <3> QED BY <1>8, <2>2, <3>1, <3>2 DEF Touches
  <2> QED BY <2>1, <2>2
<1>10. AgentComesTo(T)'
  BY <1>1, <1>6, <1>7, <1>8, <1>9 DEF AgentComesTo
<1> QED BY <1>1, <1>5, <1>10

\* What the agent injects and notes is what it is to come to.
LEMMA HandlerFollows == ASSUME SettledInv, Handler PROVE Follows'
<1> SUFFICES ASSUME phase = "open", ~disturbed'
             PROVE  \E S \in SUBSET Inputs : AgentComesTo(S)' /\ Leads(net', S, pressed')
  BY DEF Follows, Handler, Applied, Inject
<1>1. UNCHANGED <<net, pressed>> /\ ~disturbed
  BY DEF Handler, Applied, Inject, clientVars
<1>2. PICK S \in SUBSET Inputs : AgentComesTo(S) /\ Leads(net, S, pressed)
  BY <1>1 DEF SettledInv, Follows
<1>3. ASSUME NEW x \in Inputs, Inject(x) PROVE AgentComesTo(S)'
  <2>1. /\ x \in todo /\ todo' = todo \ {x} /\ UNCHANGED <<job, view>>
        /\ held' = IF x \in job[1].state THEN held \cup {x} ELSE held \ {x}
    BY <1>3 DEF Inject
  <2>2. job # <<>>
    BY <2>1 DEF SettledInv, InputInv, TodoOK
  <2>3. x \in job[1].covers /\ (x \in job[1].state <=> x \in S)
    BY <1>2, <2>1, <2>2 DEF AgentComesTo
  <2> QED BY <1>2, <2>1, <2>2, <2>3 DEF AgentComesTo
<1>4. ASSUME Applied PROVE AgentComesTo(S)'
  <2>1. /\ job # <<>> /\ todo = {} /\ job' = <<>> /\ UNCHANGED held
        /\ view' = (view \ job[1].covers) \cup job[1].state
    BY <1>4 DEF Applied
  <2>2. /\ view \subseteq Inputs /\ held \subseteq Inputs /\ job[1].state = S \cap job[1].covers
        /\ \A x \in Inputs : /\ x \in held <=> x \in S
                             /\ x \notin job[1].covers => (x \in view <=> x \in S)
    BY <1>2, <2>1 DEF AgentComesTo
  <2>3. held = S
    BY <2>2
  <2>4. view' = S
    BY <2>1, <2>2
  <2> QED BY <2>1, <2>3, <2>4 DEF AgentComesTo
<1>5. AgentComesTo(S)'
  BY <1>3, <1>4 DEF Handler
<1> QED BY <1>1, <1>2, <1>5

LEMMA SettledStep == SettledInv /\ [Next]_vars => SettledInv'
<1> SUFFICES ASSUME SettledInv, [Next]_vars PROVE Follows'
  BY InputStep DEF SettledInv
<1>1. CASE Client
  BY <1>1, ClientFollows
<1>2. CASE Handler
  BY <1>2, HandlerFollows
<1>3. CASE \E i \in Slots : Receive(i)
  BY <1>3, ReceiveFollows
<1>4. CASE (\E i \in Slots : Lose(i)) \/ CloseReleases \/ CloseChannels
  BY <1>4 DEF Lose, CloseReleases, CloseChannels, Follows
<1>5. CASE UNCHANGED vars
  BY <1>5 DEF vars, clientVars, agentVars, SettledInv, Follows, AgentComesTo
<1> QED BY <1>1, <1>2, <1>3, <1>4, <1>5 DEF Next

LEMMA SettledInit == Init => SettledInv
<1> SUFFICES ASSUME Init PROVE Follows
  BY InputInitInv DEF SettledInv
<1>1. AgentComesTo({})
  BY DEF Init, AgentComesTo
<1>2. Leads(net, {}, pressed)
  <2> DEFINE h == [i \in Nat |-> {}]
  <2>1. h \in [Nat -> SUBSET Inputs] /\ h[0] = {} /\ Len(net) = 0 /\ pressed = {}
    BY DEF Init
  <2>2. 1..Len(net) = {}
    BY <2>1
  <2> HIDE DEF h
  <2> QED BY <2>1, <2>2 DEF Leads
<1> QED BY <1>1, <1>2 DEF Follows

\* When nothing was lost, skipped or overtaken and all has arrived, the PC holds exactly
\* what the client holds, keys and buttons, for any of them and any number of packets.
THEOREM SettledStaysAgreed == Spec => []SettledAgree
<1>1. SettledInv => SettledAgree
  <2> SUFFICES ASSUME SettledInv, phase = "open", job = <<>>, ~disturbed, net = <<>>
               PROVE  held = pressed
    BY DEF SettledAgree, AtRest
  <2>1. PICK S \in SUBSET Inputs : AgentComesTo(S) /\ Leads(net, S, pressed)
    BY DEF SettledInv, Follows
  <2>2. Len(net) = 0
    OBVIOUS
  <2> QED BY <2>1, <2>2 DEF AgentComesTo, Leads
<1> QED BY <1>1, SettledInit, SettledStep, PTL DEF Spec

-----------------------------------------------------------------------------
\* A session that is ending holds nothing and applies nothing, unless something came late.
EndQuiet ==
    /\ phase \in {"open", "released", "gone"}
    /\ phase # "open" /\ ~late => held = {} /\ job = <<>>

LEMMA EndStep == InputInv /\ EndQuiet /\ [Next]_vars => EndQuiet'
<1> SUFFICES ASSUME InputInv, EndQuiet, [Next]_vars PROVE EndQuiet'
  OBVIOUS
<1>1. CASE Client
  <2>1. UNCHANGED <<job, held, phase, late>>
    BY <1>1 DEF Client, OnKeyDown, OnKeyUp, OnPointerDown, OnPointerUp, Button, OnPointerMove,
                ReleaseAll, Detach, Heartbeat, Event, agentVars
  <2> QED BY <2>1 DEF EndQuiet
<1>2. CASE Applied
  BY <1>2 DEF Applied, EndQuiet
<1>3. ASSUME NEW x \in Inputs, Inject(x) PROVE EndQuiet'
  <2>1. job # <<>>
    BY <1>3 DEF Inject, InputInv, TodoOK
  <2> QED BY <1>3, <2>1 DEF Inject, EndQuiet
<1>4. ASSUME NEW i \in Slots, Receive(i) PROVE EndQuiet'
  BY <1>4 DEF Receive, EndQuiet
<1>5. ASSUME NEW i \in Slots, Lose(i) PROVE EndQuiet'
  BY <1>5 DEF Lose, agentVars, EndQuiet
<1>6. CASE CloseReleases \/ CloseChannels
  BY <1>6 DEF CloseReleases, CloseChannels, agentVars, EndQuiet
<1>7. CASE UNCHANGED vars
  BY <1>7 DEF vars, agentVars, EndQuiet
<1> QED BY <1>1, <1>2, <1>3, <1>4, <1>5, <1>6, <1>7 DEF Next, Handler

\* Disconnect lets go of every key and button (docs/security.md:279), for any of them and
\* whatever was lost, unless a packet is applied while the session closes.
THEOREM NothingStaysHeld == Spec => []NothingHeldAtEnd
<1>1. Init => EndQuiet
  BY DEF Init, EndQuiet
<1>2. EndQuiet => NothingHeldAtEnd
  BY DEF EndQuiet, NothingHeldAtEnd
<1> QED BY <1>1, <1>2, EndStep, InputInvariant, PTL DEF Spec

-----------------------------------------------------------------------------
(* The types of InputChannel: the channel never holds more than it has     *)
(* room for, and nothing unheard of is held or about to be injected.       *)

\* A sequence without one of its elements is shorter.
LEMMA RemovedIsShorter ==
    ASSUME NEW S, NEW s \in Seq(S), NEW i \in DOMAIN s
    PROVE  Len(RemoveAt(s, i)) \in Nat /\ Len(RemoveAt(s, i)) <= Len(s)
<1>1. i \in 1..Len(s) /\ Len(s) \in Nat
  BY LenProperties
<1>2. SubSeq(s, 1, i - 1) \in Seq(S) /\ Len(SubSeq(s, 1, i - 1)) = i - 1
  BY <1>1, SubSeqProperties
<1>3. SubSeq(s, i + 1, Len(s)) \in Seq(S) /\ Len(SubSeq(s, i + 1, Len(s))) = Len(s) - i
  BY <1>1, SubSeqProperties
<1> QED BY <1>1, <1>2, <1>3, ConcatProperties DEF RemoveAt

LEMMA InputTypeInit == Init => TypeOK
<1> SUFFICES ASSUME Init PROVE TypeOK
  OBVIOUS
<1>1. net \in Seq(Packets) /\ Len(net) = 0
  BY EmptySeq DEF Init
<1>2. Len(net) <= MaxInFlight
  BY <1>1, InputAssumption
<1>3. /\ pressed = {} /\ attached = TRUE /\ job = <<>> /\ todo = {} /\ view = {} /\ held = {}
      /\ phase = "open" /\ disturbed = FALSE /\ late = FALSE
  BY DEF Init
<1> QED BY <1>1, <1>2, <1>3 DEF TypeOK

\* The events of the client add no more packets than there is room for.
LEMMA SendInputFits ==
    ASSUME TypeOK, NEW packets \in Seq(Packets), SendInput(packets)
    PROVE  net' \in Seq(Packets) /\ Len(net') <= MaxInFlight /\ disturbed' \in BOOLEAN
<1>1. net \in Seq(Packets) /\ Len(net) <= MaxInFlight /\ disturbed \in BOOLEAN
  BY DEF TypeOK
<1>2. net \o packets \in Seq(Packets) /\ Len(net \o packets) = Len(net) + Len(packets)
  BY <1>1, ConcatProperties
<1>3. CASE Len(net) + Len(packets) <= MaxInFlight
  BY <1>1, <1>2, <1>3 DEF SendInput
<1>4. CASE ~(Len(net) + Len(packets) <= MaxInFlight)
  BY <1>1, <1>4 DEF SendInput
<1> QED BY <1>3, <1>4

LEMMA EventKeepsType ==
    ASSUME TypeOK, NEW now \in SUBSET Inputs, NEW packets \in Seq(Packets), Event(now, packets)
    PROVE  TypeOK'
<1>1. net' \in Seq(Packets) /\ Len(net') <= MaxInFlight /\ disturbed' \in BOOLEAN
  BY SendInputFits DEF Event
<1>2. pressed' \subseteq Inputs /\ UNCHANGED <<attached, job, todo, view, held, phase, late>>
  BY DEF Event, agentVars
<1> QED BY <1>1, <1>2 DEF TypeOK

LEMMA ClientKeepsType == ASSUME TypeOK, Client PROVE TypeOK'
<1>1. /\ \A now : KeyPacket(now) \in Packets /\ MovePacket(now) \in Packets /\ SyncPacket(now) \in Packets
      /\ \A now : \A b \in Buttons : ButtonPacket(b, now) \in Packets
  <2>1. \A p \in WellFormed : p \in Packets
    BY DEF WellFormed
  <2> QED BY <2>1, PacketIsWellFormed DEF KeyPacket, MovePacket, SyncPacket, ButtonPacket
<1>2. /\ \A p \in Packets : <<p>> \in Seq(Packets)
      /\ \A p1, p2 \in Packets : <<p1, p2>> \in Seq(Packets)
  OBVIOUS
<1>3. pressed \in SUBSET Inputs /\ {} \in SUBSET Inputs
  BY DEF TypeOK
<1>4. ASSUME NEW k \in Keys, OnKeyDown(k) \/ OnKeyUp(k) PROVE TypeOK'
  <2>1. pressed \cup {k} \in SUBSET Inputs /\ pressed \ {k} \in SUBSET Inputs
    BY <1>3 DEF Inputs
  <2>2. <<KeyPacket(pressed \cup {k})>> \in Seq(Packets) /\ <<KeyPacket(pressed \ {k})>> \in Seq(Packets)
    BY <1>1, <1>2
  <2> QED BY <1>4, <2>1, <2>2, EventKeepsType DEF OnKeyDown, OnKeyUp
<1>5. ASSUME NEW b \in Buttons, NEW now \in SUBSET Inputs, Button(b, now) PROVE TypeOK'
  <2>1. <<ButtonPacket(b, now)>> \in Seq(Packets) /\ <<MovePacket(pressed), ButtonPacket(b, now)>> \in Seq(Packets)
    BY <1>1, <1>2
  <2> QED BY <1>5, <2>1, EventKeepsType DEF Button
<1>6. CASE \E b \in Buttons : OnPointerDown(b) \/ OnPointerUp(b)
  <2>1. \A b \in Buttons : pressed \cup {b} \in SUBSET Inputs /\ pressed \ {b} \in SUBSET Inputs
    BY <1>3 DEF Inputs
  <2> QED BY <1>5, <1>6, <2>1 DEF OnPointerDown, OnPointerUp
<1>7. CASE OnPointerMove \/ ReleaseAll \/ Heartbeat
  <2>1. <<MovePacket(pressed)>> \in Seq(Packets) /\ \A now : <<SyncPacket(now)>> \in Seq(Packets)
    BY <1>1, <1>2
  <2> QED BY <1>3, <1>7, <2>1, EventKeepsType DEF OnPointerMove, ReleaseAll, Heartbeat
<1>8. CASE Detach
  <2>1. <<SyncPacket({})>> \in Seq(Packets)
    BY <1>1, <1>2
  <2>2. net' \in Seq(Packets) /\ Len(net') <= MaxInFlight /\ disturbed' \in BOOLEAN
    BY <1>8, <2>1, SendInputFits DEF Detach
  <2>3. attached' = FALSE /\ pressed' = {} /\ UNCHANGED <<job, todo, view, held, phase, late>>
    BY <1>8 DEF Detach, agentVars
  <2> QED BY <2>2, <2>3 DEF TypeOK
<1> QED BY <1>4, <1>6, <1>7, <1>8 DEF Client

LEMMA ReceiveKeepsType ==
    ASSUME InputInv, TypeOK, NEW i \in Slots, Receive(i) \/ Lose(i) PROVE TypeOK'
<1>1. net \in Seq(Packets) /\ Len(net) <= MaxInFlight /\ Len(net) \in Nat /\ MaxInFlight \in Nat
  BY LenProperties, InputAssumption DEF TypeOK
<1>2. i \in DOMAIN net /\ net' = RemoveAt(net, i)
  BY DEF Receive, Lose
<1>3. net' \in Seq(Packets) /\ net[i] \in Packets
  BY <1>1, <1>2, RemovedIsSeq
<1>4. Len(net') <= MaxInFlight
  BY <1>1, <1>2, RemovedIsShorter
<1>5. CASE Lose(i)
  <2>1. disturbed' = TRUE /\ UNCHANGED <<pressed, attached, job, todo, view, held, phase, late>>
    BY <1>5 DEF Lose, clientVars, agentVars
  <2> QED BY <1>3, <1>4, <2>1 DEF TypeOK
<1>6. CASE Receive(i)
  <2>1. /\ job' = <<net[i]>> /\ UNCHANGED <<pressed, attached, view, held, phase>>
        /\ todo' = IF net[i].only # {} THEN net[i].only ELSE Changes(net[i])
    BY <1>6 DEF Receive, clientVars
  <2>2. disturbed' \in BOOLEAN /\ late' \in BOOLEAN
    BY <1>6 DEF Receive, TypeOK
  <2>3. net[i].only \subseteq Inputs /\ net[i].covers \subseteq Inputs
    BY <1>3 DEF Packets, Inputs
  <2>4. todo' \subseteq Inputs
    BY <2>1, <2>3 DEF Changes
  <2>5. job' \in {<<>>} \cup {<<p>> : p \in Packets} /\ job' # <<>>
    BY <1>3, <2>1
  <2> QED BY <1>3, <1>4, <2>1, <2>2, <2>4, <2>5 DEF TypeOK
<1> QED BY <1>5, <1>6

LEMMA HandlerKeepsType == ASSUME InputInv, TypeOK, Handler PROVE TypeOK'
<1>1. CASE Applied
  <2>1. /\ job # <<>> /\ todo = {} /\ job' = <<>> /\ view' = (view \ job[1].covers) \cup job[1].state
        /\ UNCHANGED <<pressed, attached, net, todo, held, phase, disturbed, late>>
    BY <1>1 DEF Applied, clientVars
  <2>2. PICK p \in WellFormed : job = <<p>>
    BY <2>1 DEF InputInv, PacketsOK
  <2>3. job[1] = p /\ p.state \subseteq Inputs
    BY <2>2 DEF WellFormed, Packets
  <2>4. view' \subseteq Inputs
    BY <2>1, <2>3 DEF TypeOK
  <2> QED BY <2>1, <2>4 DEF TypeOK
<1>2. ASSUME NEW x \in Inputs, Inject(x) PROVE TypeOK'
  <2>1. /\ held' \subseteq Inputs /\ todo' \subseteq Inputs /\ job # <<>>
        /\ UNCHANGED <<pressed, attached, net, job, view, phase, disturbed, late>>
    BY <1>2 DEF Inject, TypeOK, clientVars
  <2> QED BY <2>1 DEF TypeOK
<1> QED BY <1>1, <1>2 DEF Handler

LEMMA InputTypeStep == InputInv /\ TypeOK /\ [Next]_vars => TypeOK'
<1> SUFFICES ASSUME InputInv, TypeOK, [Next]_vars PROVE TypeOK'
  OBVIOUS
<1>1. CASE CloseReleases
  <2>1. /\ phase' = "released" /\ held' = {} /\ late' \in BOOLEAN
        /\ UNCHANGED <<pressed, attached, net, job, todo, view, disturbed>>
    BY <1>1 DEF CloseReleases, clientVars
  <2> QED BY <2>1 DEF TypeOK
<1>2. CASE CloseChannels
  <2>1. phase' = "gone" /\ UNCHANGED <<pressed, attached, net, job, todo, view, held, disturbed, late>>
    BY <1>2 DEF CloseChannels, clientVars, agentVars
  <2> QED BY <2>1 DEF TypeOK
<1>3. CASE UNCHANGED vars
  BY <1>3 DEF vars, clientVars, agentVars, TypeOK
<1> QED BY <1>1, <1>2, <1>3, ClientKeepsType, ReceiveKeepsType, HandlerKeepsType DEF Next

\* The channel takes no packet more than it has room for, and what is held or about to be
\* injected are keys and buttons (input.js:340-380, session.go:1238-1364), for any of them
\* (TypeOK of InputChannel).
THEOREM InputTyped == Spec => []TypeOK
  BY InputInitInv, InputStep, InputTypeInit, InputTypeStep, PTL DEF Spec

-----------------------------------------------------------------------------
(* The service: Supervisor.  Run starts a helper only when the last one    *)
(* was killed: between a launch and the kill there is one, and none at any *)
(* other place of the loop.                                                *)
SupervisorInv ==
    /\ SupervisorTypeOK
    /\ run \in {"top", "launching", "leaving", "pausing"} => helpers = {}
    /\ run = "over" /\ ~hurried => helpers = {}
    /\ hurried => service = "stopped"
    /\ service \in {"stopped", "dead"} => run = "over"
    /\ reports <= changed /\ orphans <= crashes

LEMMA SupervisorBegins == SupervisorInit => SupervisorInv
<1> SUFFICES ASSUME SupervisorInit PROVE SupervisorInv
  OBVIOUS
<1>1. /\ changed \in 0..MaxChanges /\ reports \in 0..MaxChanges /\ restart \in 0..RestartSlots
      /\ exits \in 0..MaxExits /\ crashes \in 0..MaxCrashes /\ orphans \in 0..MaxCrashes
  BY SupervisorAssumption DEF SupervisorInit
<1>2. SupervisorTypeOK
  BY <1>1 DEF SupervisorInit, SupervisorTypeOK, Consoles
<1> QED BY <1>2 DEF SupervisorInit, SupervisorInv

\* Windows: sessions and helpers come and go.
LEMMA WindowsStep == SupervisorInv /\ (DesktopChanges \/ HelperExits) => SupervisorInv'
<1> SUFFICES ASSUME SupervisorInv, DesktopChanges \/ HelperExits PROVE SupervisorInv'
  OBVIOUS
<1>1. UNCHANGED <<restart, run, target, process, service, crashes, orphans, hurried>> /\ helpers' \subseteq helpers
  BY DEF DesktopChanges, HelperExits
<1>2. console' \in Consoles
  BY DEF DesktopChanges, HelperExits, SupervisorInv, SupervisorTypeOK
<1>3. changed' \in 0..MaxChanges /\ reports' \in 0..MaxChanges /\ reports' <= changed'
  BY SupervisorAssumption DEF DesktopChanges, HelperExits, SupervisorInv, SupervisorTypeOK
<1>4. exits' \in 0..MaxExits
  BY SupervisorAssumption DEF DesktopChanges, HelperExits, SupervisorInv, SupervisorTypeOK
<1>5. SupervisorTypeOK'
  BY <1>1, <1>2, <1>3, <1>4 DEF SupervisorInv, SupervisorTypeOK
<1>6. helpers = {} => helpers' = {}
  BY <1>1
<1> QED BY <1>1, <1>3, <1>5, <1>6 DEF SupervisorInv

\* The service dies, is started again, takes a report, or is told to stop.
LEMMA ServiceStep ==
    SupervisorInv /\ (ServiceDies \/ ServiceStarts \/ SessionChange \/ Stop \/ WaitReturns) => SupervisorInv'
<1> SUFFICES ASSUME SupervisorInv, ServiceDies \/ ServiceStarts \/ SessionChange \/ Stop \/ WaitReturns
             PROVE  SupervisorInv'
  OBVIOUS
<1> USE DEF SupervisorInv, SupervisorTypeOK
<1>1. CASE ServiceDies
  <2>1. /\ service' = "dead" /\ run' = "over" /\ helpers' = {} /\ process' = NoDesktop
        /\ restart' = 0 /\ reports' = 0 /\ UNCHANGED <<console, changed, target, exits, hurried>>
        /\ ~hurried
    BY <1>1 DEF ServiceDies, Alive
  <2>2. crashes' \in 0..MaxCrashes /\ orphans' \in 0..MaxCrashes /\ orphans' <= crashes'
    BY <1>1, SupervisorAssumption DEF ServiceDies
  <2>3. 0 \in 0..MaxChanges /\ 0 \in 0..RestartSlots /\ 0 <= changed
    BY SupervisorAssumption
  <2> QED BY <2>1, <2>2, <2>3 DEF Consoles
<1>2. CASE ServiceStarts
  BY <1>2 DEF ServiceStarts
<1>3. CASE SessionChange
  <2>1. UNCHANGED <<console, changed, run, target, helpers, process, service, exits, crashes, orphans, hurried>>
    BY <1>3 DEF SessionChange
  <2>2. reports' \in 0..MaxChanges /\ reports' <= changed /\ restart' \in 0..RestartSlots
    BY <1>3, SupervisorAssumption DEF SessionChange
  <2> QED BY <2>1, <2>2
<1>4. CASE Stop
  BY <1>4 DEF Stop
<1>5. CASE WaitReturns
  BY <1>5 DEF WaitReturns
<1> QED BY <1>1, <1>2, <1>3, <1>4, <1>5

\* Run: one step of its loop.
LEMMA RunStep == SupervisorInv /\ SupervisorRun => SupervisorInv'
<1> SUFFICES ASSUME SupervisorInv, SupervisorRun PROVE SupervisorInv'
  OBVIOUS
<1> USE DEF SupervisorInv, SupervisorTypeOK
<1>1. CASE Top
  BY <1>1 DEF Top, Alive
<1>2. CASE Launch
  <2>1. /\ helpers' = {target} /\ target \in Desktops /\ process' = target /\ run' = "waiting"
        /\ service \in {"running", "stopping"}
        /\ UNCHANGED <<console, changed, reports, restart, target, service, exits, crashes, orphans, hurried>>
    BY <1>2 DEF Launch, Alive, Consoles
  <2> QED BY <2>1
<1>3. CASE LaunchFails
  BY <1>3 DEF LaunchFails, Alive
<1>4. CASE WaitEnds
  <2>1. /\ run' = "killing" /\ service \in {"running", "stopping"}
        /\ UNCHANGED <<console, changed, reports, target, helpers, process, service, exits, crashes, orphans, hurried>>
    BY <1>4 DEF WaitEnds, Alive
  <2>2. restart' \in 0..RestartSlots
    BY <1>4, SupervisorAssumption DEF WaitEnds
  <2> QED BY <2>1, <2>2
<1>5. CASE Kill
  <2>1. /\ helpers' = {} /\ process' = NoDesktop /\ run' \in {"over", "pausing"}
        /\ service \in {"running", "stopping"}
        /\ UNCHANGED <<console, changed, reports, restart, target, service, exits, crashes, orphans, hurried>>
    BY <1>5 DEF Kill, Alive
  <2> QED BY <2>1 DEF Consoles
<1>6. CASE Pause
  <2>1. /\ run = "pausing" /\ run' \in {"over", "top"} /\ service \in {"running", "stopping"}
        /\ UNCHANGED <<console, changed, reports, target, helpers, process, service, exits, crashes, orphans, hurried>>
    BY <1>6 DEF Pause, Alive
  <2>2. restart' \in 0..RestartSlots
    BY <1>6, SupervisorAssumption DEF Pause
  <2> QED BY <2>1, <2>2
<1> QED BY <1>1, <1>2, <1>3, <1>4, <1>5, <1>6 DEF SupervisorRun

LEMMA SupervisorStep == SupervisorInv /\ [SupervisorNext]_supervisorVars => SupervisorInv'
<1> SUFFICES ASSUME SupervisorInv, [SupervisorNext]_supervisorVars PROVE SupervisorInv'
  OBVIOUS
<1>1. CASE UNCHANGED supervisorVars
  BY <1>1 DEF supervisorVars, SupervisorInv, SupervisorTypeOK
<1> QED BY <1>1, WindowsStep, ServiceStep, RunStep DEF SupervisorNext

LEMMA SupervisorInvariant == SupervisorSpec => []SupervisorInv
  BY SupervisorBegins, SupervisorStep, PTL DEF SupervisorSpec

\* Run never has two helpers, and the one it has is the one it will kill
\* (service_windows.go:206-292): whatever the sessions, the requests to restart, and the
\* moments at which the service stops or dies (SupervisorTypeOK).
THEOREM OneHelper == SupervisorSpec => []SupervisorTypeOK
<1>1. SupervisorInv => SupervisorTypeOK
  BY DEF SupervisorInv
<1> QED BY <1>1, SupervisorInvariant, PTL

\* A service that has stopped has left no helper behind, unless Wait gave up before Run had
\* ended (service_windows.go:124-131): the half of HelperFollows that is about safety.
NoHelperLeft == service = "stopped" /\ ~hurried => helpers = {}

THEOREM StoppedLeavesNone == SupervisorSpec => []NoHelperLeft
<1>1. SupervisorInv => NoHelperLeft
  BY DEF SupervisorInv, NoHelperLeft
<1> QED BY <1>1, SupervisorInvariant, PTL

-----------------------------------------------------------------------------
(* Both parts, as TLC explores them.                                       *)

LEMMA BothBegin == MCInit => Init /\ SupervisorInit
  BY DEF MCInit

LEMMA BothStep == [MCNext]_<<vars, supervisorVars, part>> => [Next]_vars /\ [SupervisorNext]_supervisorVars
  BY DEF MCNext

\* Every variable of the input channel and of the service keeps its type
\* (session.go:1238-1364, service_windows.go:106-292), for any keys, buttons, bounds and
\* sessions (TypesOK of MCInputChannel).
THEOREM BothTyped == MCSpec => []TypesOK
<1>1. MCInit => InputInv /\ TypeOK /\ SupervisorInv
  BY BothBegin, InputInitInv, InputTypeInit, SupervisorBegins
<1>2. InputInv /\ TypeOK /\ SupervisorInv /\ [MCNext]_<<vars, supervisorVars, part>>
        => InputInv' /\ TypeOK' /\ SupervisorInv'
  BY BothStep, InputStep, InputTypeStep, SupervisorStep
<1>3. SupervisorInv /\ TypeOK => TypesOK
  BY DEF SupervisorInv, TypesOK
<1> QED BY <1>1, <1>2, <1>3, PTL DEF MCSpec
=============================================================================
