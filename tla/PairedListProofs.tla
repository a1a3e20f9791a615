-------------------------- MODULE PairedListProofs --------------------------
(***************************************************************************)
(* Proofs about PairedList, for any set of processes, any finite set of    *)
(* devices and any limit: TypeOK (with the limit), PairedIsSaved,          *)
(* ForgottenIsGone, and ForgetTakesEffect on the condition it needs.       *)
(*                                                                         *)
(* What holds of the file follows from what holds of the copies: as long   *)
(* as no process saved while another held a copy, every running process    *)
(* has every trusted device in its copy and no removed one, and so has     *)
(* whatever it saves.                                                      *)
(***************************************************************************)
EXTENDS PairedList, FiniteSetTheorems, TLAPS

CopiesWithinLimit == \A p \in Procs : Cardinality(mem[p]) <= MaxClients

\* The device in hand is in the copy that is being saved, or no longer in it.
HandsMatch ==
    \A p \in Procs :
        /\ saving[p] # "no" => p \in up
        /\ saving[p] \in {"pair", "forget"} => hand[p] \in Clients
        /\ saving[p] = "pair" => hand[p] \in mem[p]
        /\ saving[p] = "forget" => hand[p] \notin mem[p]

CopiesAgree ==
    ~shared => \A p \in up : trusted \subseteq mem[p] /\ forgotten \cap mem[p] = {}

ListInv ==
    /\ TypeOK /\ CopiesWithinLimit /\ HandsMatch /\ CopiesAgree
    /\ PairedIsSaved /\ ForgottenIsGone

\* AddPairedClient adds to a copy only below the limit.
LEMMA AddKeepsLimit ==
    ASSUME PairedListAssumption, NEW S \in SUBSET Clients, NEW c \in Clients,
           Cardinality(S) <= MaxClients,
           c \in S \/ Cardinality(S) < MaxClients
    PROVE  Cardinality(S \cup {c}) <= MaxClients
<1>1. IsFiniteSet(S) /\ Cardinality(S) \in Nat
  BY FS_Subset, FS_CardinalityType DEF PairedListAssumption
<1>2. Cardinality(S \cup {c}) = IF c \in S THEN Cardinality(S) ELSE Cardinality(S) + 1
  BY <1>1, FS_AddElement
<1> QED BY <1>1, <1>2 DEF PairedListAssumption

\* RemovePairedClient never makes a copy longer.
LEMMA RemoveKeepsLimit ==
    ASSUME PairedListAssumption, NEW S \in SUBSET Clients, NEW c,
           Cardinality(S) <= MaxClients
    PROVE  Cardinality(S \ {c}) <= MaxClients
<1>1. IsFiniteSet(S) /\ Cardinality(S) \in Nat
  BY FS_Subset, FS_CardinalityType DEF PairedListAssumption
<1>2. S \ {c} \subseteq S
  OBVIOUS
<1>3. Cardinality(S \ {c}) <= Cardinality(S) /\ Cardinality(S \ {c}) \in Nat
  BY <1>1, <1>2, FS_Subset, FS_CardinalityType
<1> QED BY <1>1, <1>3 DEF PairedListAssumption

\* The invariant holds before any process has started.
LEMMA ListInit == PairedListAssumption /\ Init => ListInv
<1>1. Cardinality({}) = 0
  BY FS_EmptySet
<1>2. ASSUME PairedListAssumption, Init PROVE TypeOK /\ CopiesWithinLimit
  <2>1. disk = {} /\ \A p \in Procs : mem[p] = {}
    BY <1>2 DEF Init
  <2>2. Cardinality(disk) <= MaxClients /\ CopiesWithinLimit
    BY <1>1, <1>2, <2>1 DEF PairedListAssumption, CopiesWithinLimit
  <2> QED BY <1>2, <2>2 DEF Init, TypeOK
<1>3. ASSUME Init PROVE HandsMatch /\ CopiesAgree /\ PairedIsSaved /\ ForgottenIsGone
  BY <1>3 DEF Init, HandsMatch, CopiesAgree, PairedIsSaved, ForgottenIsGone
<1> QED BY <1>2, <1>3 DEF ListInv

\* Every step keeps the invariant, whatever the process and the device.
LEMMA ListStep == PairedListAssumption /\ ListInv /\ [Next]_vars => ListInv'
<1> SUFFICES ASSUME PairedListAssumption, ListInv, [Next]_vars PROVE ListInv'
  OBVIOUS
<1> USE DEF ListInv, TypeOK, CopiesWithinLimit, HandsMatch, CopiesAgree,
            PairedIsSaved, ForgottenIsGone
<1>1. ASSUME NEW p \in Procs, Start(p) PROVE ListInv'
  BY <1>1 DEF Start
<1>2. ASSUME NEW p \in Procs, Stop(p) PROVE ListInv'
  <2>1. Cardinality({}) = 0
    BY FS_EmptySet
  <2> QED BY <1>2, <2>1 DEF Stop, PairedListAssumption
<1>3. ASSUME NEW p \in Procs, Saved(p) PROVE ListInv'
  <2>1. TypeOK' /\ CopiesWithinLimit'
    BY <1>3 DEF Saved
  <2>2. HandsMatch'
    BY <1>3 DEF Saved
  <2>3. CASE up # {p}
    BY <1>3, <2>1, <2>2, <2>3 DEF Saved
  <2>4. CASE up = {p} /\ shared
    BY <1>3, <2>1, <2>2, <2>4 DEF Saved
  <2>5. CASE up = {p} /\ ~shared
    <3>1. trusted' \subseteq mem[p] /\ forgotten' \cap mem[p] = {}
      BY <1>3, <2>5 DEF Saved
    <3> QED BY <1>3, <2>1, <2>2, <2>5, <3>1 DEF Saved
  <2> QED BY <2>3, <2>4, <2>5
<1>4. ASSUME NEW p \in Procs, SaveFails(p) PROVE ListInv'
  BY <1>4 DEF SaveFails
<1>5. ASSUME NEW p \in Procs, NEW c \in Clients, AddPairedClient(p, c) PROVE ListInv'
  <2>1. Cardinality(mem[p] \cup {c}) <= MaxClients
    BY <1>5, AddKeepsLimit DEF AddPairedClient
  <2> QED BY <1>5, <2>1 DEF AddPairedClient, Save
<1>6. ASSUME NEW p \in Procs, NEW c \in Clients, TouchClient(p, c) PROVE ListInv'
  BY <1>6 DEF TouchClient, Save
<1>7. ASSUME NEW p \in Procs, NEW c \in Clients, RemovePairedClient(p, c) PROVE ListInv'
  <2>1. Cardinality(mem[p] \ {c}) <= MaxClients
    BY RemoveKeepsLimit
  <2> QED BY <1>7, <2>1 DEF RemovePairedClient, Save
<1>8. ASSUME NEW p \in Procs, Update(p) PROVE ListInv'
  BY <1>8 DEF Update, Save
<1>9. CASE UNCHANGED vars
  BY <1>9 DEF vars
<1> QED BY <1>1, <1>2, <1>3, <1>4, <1>5, <1>6, <1>7, <1>8, <1>9 DEF Next

\* The invariant holds in every reachable state.
THEOREM ListInvariant == Spec => []ListInv
<1>1. PairedListAssumption
  BY PairedListAssumption
<1> QED BY <1>1, ListInit, ListStep, PTL DEF Spec

\* The list never exceeds its limit, and every variable has its type.
THEOREM ListTyped == Spec => []TypeOK
<1>1. ListInv => TypeOK
  BY DEF ListInv
<1> QED BY <1>1, ListInvariant, PTL

\* No crash, restart or failed save loses a device that was told it is paired,
\* unless two processes held the list at a save.
THEOREM PairingIsDurable == Spec => []PairedIsSaved
<1>1. ListInv => PairedIsSaved
  BY DEF ListInv
<1> QED BY <1>1, ListInvariant, PTL

\* No crash, restart or failed save brings a removed device back, unless two
\* processes held the list at a save.
THEOREM RemovalIsDurable == Spec => []ForgottenIsGone
<1>1. ListInv => ForgottenIsGone
  BY DEF ListInv
<1> QED BY <1>1, ListInvariant, PTL

\* As long as no process saves the list while another holds a copy, a device the user was
\* told is removed is trusted by no agent that runs (config.go): ForgetTakesEffect, with
\* the condition it needs.
THEOREM ForgettingAloneTakesEffect == Spec => [](~shared => ForgetTakesEffect)
<1>1. ListInv => (~shared => ForgetTakesEffect)
  BY DEF ListInv, CopiesAgree, ForgetTakesEffect
<1> QED BY <1>1, ListInvariant, PTL
=============================================================================
