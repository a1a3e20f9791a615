----------------------------- MODULE PairStore -----------------------------
(***************************************************************************)
(* internal/rendezvous/pairing/store.go: the rendezvous server's table of  *)
(* open pairing windows.  Every method takes the store's mutex for its     *)
(* whole body, so each is one action.                                      *)
(*                                                                         *)
(* The two Go maps are total functions with NoWindow and NoCode for an     *)
(* absent key.  Code handles are hashes of fresh random secrets made by    *)
(* the PC (agentcore.BeginPairing), so no handle is published twice:       *)
(* "issued" remembers the ones that have been.                             *)
(***************************************************************************)
EXTENDS Integers, FiniteSets

CONSTANTS Agents,          \* identities of PCs
          Codes,           \* code handles
          MaxOpenWindows,  \* cap on open windows over the whole server
          PairWindow,      \* pair.Window, the longest life of a window
          AskedExpiries,   \* the expiry times PCs ask for, by their own clocks
          MaxTime,         \* bound on the clock, for TLC
          NoWindow, NoCode, NoAgent

ASSUME StoreAssumption ==
    /\ IsFiniteSet(Codes)
    /\ MaxOpenWindows \in Nat \ {0}
    /\ PairWindow \in Nat \ {0}
    /\ AskedExpiries \subseteq Int
    /\ MaxTime \in Nat
    /\ NoCode \notin Codes
    /\ NoAgent \notin Agents

VARIABLES byCode,   \* code handle -> window
          byAgent,  \* PC -> the code handle it last published
          clock,    \* s.now()
          issued,   \* history: the PC that published each code handle
          tries     \* history: the confirmations each handle has let through

vars == <<byCode, byAgent, clock, issued, tries>>

Window == [agent : Agents, expires : Int, consumed : BOOLEAN]

ASSUME NoWindowAssumption == NoWindow \notin Window

TypeOK ==
    /\ byCode \in [Codes -> Window \cup {NoWindow}]
    /\ byAgent \in [Agents -> Codes \cup {NoCode}]
    /\ clock \in Nat
    /\ issued \in [Codes -> Agents \cup {NoAgent}]
    /\ tries \in [Codes -> Nat]

Init ==
    /\ byCode = [c \in Codes |-> NoWindow]
    /\ byAgent = [a \in Agents |-> NoCode]
    /\ clock = 0
    /\ issued = [c \in Codes |-> NoAgent]
    /\ tries = [c \in Codes |-> 0]

-----------------------------------------------------------------------------
(* The sweep every method but Revoke starts with.                          *)

Expired(w) == w # NoWindow /\ clock > w.expires

GcCodes == [c \in Codes |-> IF Expired(byCode[c]) THEN NoWindow ELSE byCode[c]]

GcAgents ==
    [a \in Agents |->
        IF /\ byAgent[a] # NoCode
           /\ Expired(byCode[byAgent[a]])
           /\ byCode[byAgent[a]].agent = a
        THEN NoCode ELSE byAgent[a]]

OpenCodes(table) == {c \in Codes : table[c] # NoWindow}

\* The table once the window the PC had before is gone.
WithoutPrevious(a) ==
    [c \in Codes |-> IF c = GcAgents[a] THEN NoWindow ELSE GcCodes[c]]

\* A mutant of ExpiryFor: the PC's clock is believed.
ExpiryFor_Believed(asked) == IF asked = 0 THEN clock + PairWindow ELSE asked

\* A window never outlives pair.Window, whatever the PC's clock asks for.
ExpiryFor(asked) ==
    IF asked = 0 \/ asked > clock + PairWindow THEN clock + PairWindow ELSE asked

-----------------------------------------------------------------------------
\* A mutant of Publish: the limit is off by one.
Publish_OneTooMany(a, c, asked) ==
    /\ issued[c] = NoAgent
    /\ Cardinality(OpenCodes(WithoutPrevious(a))) <= MaxOpenWindows
    /\ byCode' = [WithoutPrevious(a) EXCEPT
                    ![c] = [agent |-> a, expires |-> ExpiryFor(asked), consumed |-> FALSE]]
    /\ byAgent' = [GcAgents EXCEPT ![a] = c]
    /\ issued' = [issued EXCEPT ![c] = a]
    /\ UNCHANGED <<clock, tries>>

Publish(a, c, asked) ==
    /\ issued[c] = NoAgent
    /\ Cardinality(OpenCodes(WithoutPrevious(a))) < MaxOpenWindows
    /\ byCode' = [WithoutPrevious(a) EXCEPT
                    ![c] = [agent |-> a, expires |-> ExpiryFor(asked), consumed |-> FALSE]]
    /\ byAgent' = [GcAgents EXCEPT ![a] = c]
    /\ issued' = [issued EXCEPT ![c] = a]
    /\ UNCHANGED <<clock, tries>>

\* ErrTooMany: the previous window is gone all the same, and byAgent still
\* names its code.
PublishRefused(a) ==
    /\ Cardinality(OpenCodes(WithoutPrevious(a))) >= MaxOpenWindows
    /\ byCode' = WithoutPrevious(a)
    /\ byAgent' = GcAgents
    /\ UNCHANGED <<clock, issued, tries>>

\* Lookup and Open (and a Consume that finds nothing) change the table only
\* by the sweep.
Lookup ==
    /\ byCode' = GcCodes
    /\ byAgent' = GcAgents
    /\ UNCHANGED <<clock, issued, tries>>

\* A mutant of Consume: a consumed window forgets its PC.
Consume_Anonymous(c) ==
    /\ GcCodes[c] # NoWindow
    /\ ~GcCodes[c].consumed
    /\ byCode' = [GcCodes EXCEPT ![c].consumed = TRUE, ![c].agent = NoAgent]
    /\ byAgent' = GcAgents
    /\ tries' = [tries EXCEPT ![c] = @ + 1]
    /\ UNCHANGED <<clock, issued>>

\* A mutant of Consume: ErrConsumed is forgotten.
Consume_Again(c) ==
    /\ GcCodes[c] # NoWindow
    /\ byCode' = [GcCodes EXCEPT ![c].consumed = TRUE]
    /\ byAgent' = GcAgents
    /\ tries' = [tries EXCEPT ![c] = @ + 1]
    /\ UNCHANGED <<clock, issued>>

Consume(c) ==
    /\ GcCodes[c] # NoWindow
    /\ ~GcCodes[c].consumed
    /\ byCode' = [GcCodes EXCEPT ![c].consumed = TRUE]
    /\ byAgent' = GcAgents
    /\ tries' = [tries EXCEPT ![c] = @ + 1]
    /\ UNCHANGED <<clock, issued>>

\* A mutant of Revoke: every window of the table goes.
Revoke_All(a) ==
    /\ byAgent[a] # NoCode
    /\ byCode' = [c \in Codes |-> NoWindow]
    /\ byAgent' = [byAgent EXCEPT ![a] = NoCode]
    /\ UNCHANGED <<clock, issued, tries>>

Revoke(a) ==
    /\ byAgent[a] # NoCode
    /\ byCode' = [byCode EXCEPT ![byAgent[a]] = NoWindow]
    /\ byAgent' = [byAgent EXCEPT ![a] = NoCode]
    /\ UNCHANGED <<clock, issued, tries>>

Tick ==
    /\ clock < MaxTime
    /\ clock' = clock + 1
    /\ UNCHANGED <<byCode, byAgent, issued, tries>>

Next ==
    \/ \E a \in Agents, c \in Codes, asked \in AskedExpiries :
          Publish(a, c, asked)
    \/ \E a \in Agents : PublishRefused(a)
    \/ Lookup
    \/ \E c \in Codes : Consume(c)
    \/ \E a \in Agents : Revoke(a)
    \/ Tick

Spec == Init /\ [][Next]_vars

-----------------------------------------------------------------------------
Live(c) == byCode[c] # NoWindow /\ ~Expired(byCode[c])

\* The two maps agree: an open window is the one its PC's entry names, so
\* "replacing any window that agent already had open" (Publish) leaves a PC
\* one window at most, also after a publication that was refused half-way.
IndexAgrees ==
    \A c \in Codes : byCode[c] # NoWindow => /\ byAgent[byCode[c].agent] = c
                                             /\ issued[c] = byCode[c].agent

\* What makes IndexAgrees inductive: an entry, dangling or not, names a code
\* its own PC published.
IndexOwned == \A a \in Agents : byAgent[a] # NoCode => issued[byAgent[a]] = a

\* MaxOpenWindows caps the table, expired windows not yet swept included.
WithinLimit == Cardinality(OpenCodes(byCode)) <= MaxOpenWindows

\* No window lasts longer than pair.Window from now, however far ahead the
\* PC's own clock is.
BoundedLife ==
    \A c \in Codes : byCode[c] # NoWindow => byCode[c].expires <= clock + PairWindow

\* While time stands still a call takes live windows from one PC at most, and
\* a PC whose entry dangles takes none: closing the window of one PC never
\* closes another's.
ClosesOnlyOwn ==
    [][clock' = clock =>
          \A c \in Codes : Live(c) /\ byCode'[c] = NoWindow =>
             \A d \in Codes : Live(d) /\ byCode[d].agent # byCode[c].agent =>
                byCode'[d] # NoWindow]_vars

\* The store implements the one-shot code: a handle is opened once, tried at
\* most once and only while its window is live, and never comes back.
Phase ==
    [c \in Codes |->
        IF Live(c) THEN (IF byCode[c].consumed THEN "tried" ELSE "open")
        ELSE IF issued[c] = NoAgent THEN "unused" ELSE "closed"]

OneShot == INSTANCE OneShotCode WITH
    phase <- Phase, holder <- issued, attempts <- tries

OneShotSpec == OneShot!Spec
=============================================================================
