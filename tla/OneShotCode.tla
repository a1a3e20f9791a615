---------------------------- MODULE OneShotCode ----------------------------
(***************************************************************************)
(* What the rendezvous server promises about pairing codes, with no word   *)
(* on maps, clocks or garbage collection.  A code handle is opened once by *)
(* one PC, may be tried once, and then is closed for good; a PC has at     *)
(* most one code that is not closed, and the server holds at most          *)
(* MaxOpenWindows of them.                                                 *)
(***************************************************************************)
EXTENDS Integers, FiniteSets

CONSTANTS Agents,          \* PCs
          Codes,           \* code handles
          MaxOpenWindows,  \* how many windows the server holds
          NoAgent          \* the holder of a code nobody has opened

VARIABLES phase,     \* how far each code has come
          holder,    \* the PC that opened it
          attempts   \* how often it was tried

abstractVars == <<phase, holder, attempts>>

Phases == {"unused", "open", "tried", "closed"}

\* The codes that occupy a window.
Held(ph) == {c \in Codes : ph[c] \in {"open", "tried"}}

Init ==
    /\ phase = [c \in Codes |-> "unused"]
    /\ holder = [c \in Codes |-> NoAgent]
    /\ attempts = [c \in Codes |-> 0]

\* PC a opens code c; whatever else it held is closed by the same step.  A PC
\* whose clock is far behind may ask for a window that is over already.
Open(a, c, first) ==
    /\ phase[c] = "unused"
    /\ phase' = [d \in Codes |-> IF d = c THEN first
                                 ELSE IF d \in Held(phase) /\ holder[d] = a
                                      THEN "closed" ELSE phase[d]]
    /\ Cardinality(Held(phase')) <= MaxOpenWindows
    /\ holder' = [holder EXCEPT ![c] = a]
    /\ UNCHANGED attempts

\* The one confirmation attempt a code gets.
Try(c) ==
    /\ phase[c] = "open"
    /\ phase' = [phase EXCEPT ![c] = "tried"]
    /\ attempts' = [attempts EXCEPT ![c] = @ + 1]
    /\ UNCHANGED holder

\* Windows close: revoked, replaced in vain, or out of time.
Close(S) ==
    /\ S \subseteq Held(phase)
    /\ phase' = [d \in Codes |-> IF d \in S THEN "closed" ELSE phase[d]]
    /\ UNCHANGED <<holder, attempts>>

Next ==
    \/ \E a \in Agents, c \in Codes, first \in {"open", "closed"} : Open(a, c, first)
    \/ \E c \in Codes : Try(c)
    \/ \E S \in SUBSET Codes : Close(S)

Spec == Init /\ [][Next]_abstractVars
=============================================================================
