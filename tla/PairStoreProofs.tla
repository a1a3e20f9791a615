-------------------------- MODULE PairStoreProofs --------------------------
(* Proofs about the pairing store for any number of PCs and codes.         *)
EXTENDS PairStore, FiniteSetTheorems, TLAPS

IInv == TypeOK /\ IndexAgrees /\ IndexOwned /\ WithinLimit /\ BoundedLife

(* The sweep keeps the tables typed, and can only remove windows.          *)
LEMMA GcType ==
    ASSUME TypeOK
    PROVE  /\ GcCodes \in [Codes -> Window \cup {NoWindow}]
           /\ GcAgents \in [Agents -> Codes \cup {NoCode}]
           /\ \A c \in Codes : GcCodes[c] # NoWindow => GcCodes[c] = byCode[c]
           /\ \A a \in Agents : GcAgents[a] # NoCode => GcAgents[a] = byAgent[a]
           /\ \A a \in Agents : WithoutPrevious(a) \in [Codes -> Window \cup {NoWindow}]
BY DEF TypeOK, GcCodes, GcAgents, WithoutPrevious

(* After the sweep an open window is still named by its PC's entry.        *)
LEMMA GcAgrees ==
    ASSUME TypeOK, IndexAgrees, NEW c \in Codes, GcCodes[c] # NoWindow
    PROVE  GcAgents[byCode[c].agent] = c
<1>1. byCode[c] # NoWindow /\ ~Expired(byCode[c])
    BY DEF GcCodes
<1>2. byCode[c].agent \in Agents /\ byAgent[byCode[c].agent] = c
    BY <1>1 DEF TypeOK, IndexAgrees, Window
<1> QED
    BY <1>1, <1>2, StoreAssumption DEF GcAgents

(* A table with fewer open codes holds no more windows.                    *)
LEMMA FewerOpen ==
    ASSUME NEW t1, NEW t2,
           \A c \in Codes : t2[c] # NoWindow => t1[c] # NoWindow
    PROVE  /\ IsFiniteSet(OpenCodes(t1))
           /\ Cardinality(OpenCodes(t1)) \in Nat
           /\ Cardinality(OpenCodes(t2)) \in Nat
           /\ Cardinality(OpenCodes(t2)) <= Cardinality(OpenCodes(t1))
<1>1. OpenCodes(t1) \subseteq Codes /\ OpenCodes(t2) \subseteq OpenCodes(t1)
    BY DEF OpenCodes
<1>2. IsFiniteSet(OpenCodes(t1)) /\ IsFiniteSet(OpenCodes(t2))
    BY <1>1, StoreAssumption, FS_Subset
<1> QED
    BY <1>1, <1>2, FS_Subset, FS_CardinalityType

(* A new store satisfies the invariant: it holds no window.               *)
LEMMA InitInv == Init => IInv
<1> SUFFICES ASSUME Init PROVE IInv
    OBVIOUS
<1>1. OpenCodes(byCode) = {}
    BY DEF Init, OpenCodes
<1>2. WithinLimit
    BY <1>1, FS_EmptySet, StoreAssumption DEF WithinLimit
<1> QED
    BY <1>2, StoreAssumption DEF Init, IInv, TypeOK, IndexAgrees, IndexOwned, BoundedLife

(* Publish keeps it: the new window replaces the PC's own, under the cap.  *)
LEMMA PublishInv ==
    ASSUME IInv, NEW a \in Agents, NEW c \in Codes, NEW asked \in AskedExpiries,
           Publish(a, c, asked)
    PROVE  IInv'
<1> DEFINE w == [agent |-> a, expires |-> ExpiryFor(asked), consumed |-> FALSE]
<1>0. ExpiryFor(asked) \in Int /\ ExpiryFor(asked) <= clock + PairWindow
    BY StoreAssumption DEF ExpiryFor, IInv, TypeOK
<1>1. w \in Window /\ w # NoWindow
    <2>1. w \in Window
        BY <1>0 DEF Window
    <2> QED
        BY <2>1, NoWindowAssumption
<1>2. TypeOK'
    BY <1>1, GcType DEF IInv, TypeOK, Publish
<1>3. byCode'[c] = w /\ \A d \in Codes : d # c => byCode'[d] = WithoutPrevious(a)[d]
    BY GcType DEF Publish, IInv
<1>4. ASSUME NEW d \in Codes, d # c, byCode'[d] # NoWindow
      PROVE  /\ byCode'[d] = byCode[d] /\ byCode[d] # NoWindow
             /\ byCode[d].agent # a /\ byCode[d].agent \in Agents
             /\ GcAgents[byCode[d].agent] = d
    <2>1. d # GcAgents[a] /\ GcCodes[d] # NoWindow /\ byCode'[d] = GcCodes[d]
        BY <1>3, <1>4 DEF WithoutPrevious
    <2>2. byCode[d] = GcCodes[d]
        BY <2>1, GcType DEF IInv
    <2>3. GcAgents[byCode[d].agent] = d
        BY <2>1, GcAgrees DEF IInv
    <2> QED
        BY <2>1, <2>2, <2>3 DEF IInv, TypeOK, Window
<1>5. IndexAgrees'
    <2> SUFFICES ASSUME NEW d \in Codes, byCode'[d] # NoWindow
                 PROVE  byAgent'[byCode'[d].agent] = d /\ issued'[d] = byCode'[d].agent
        BY DEF IndexAgrees
    <2>1. CASE d = c
        BY <2>1, <1>3, <1>1, GcType DEF Publish, IInv, TypeOK
    <2>2. CASE d # c
        <3>1. /\ byCode'[d] = byCode[d] /\ byCode[d] # NoWindow
              /\ byCode[d].agent # a /\ byCode[d].agent \in Agents
              /\ GcAgents[byCode[d].agent] = d
            BY <2>2, <1>4
        <3>2. byAgent'[byCode[d].agent] = d
            BY <3>1, GcType DEF Publish, IInv
        <3>3. issued'[d] = issued[d] /\ issued[d] = byCode[d].agent
            BY <2>2, <3>1 DEF Publish, IInv, IndexAgrees, TypeOK
        <3> QED BY <3>1, <3>2, <3>3
    <2> QED BY <2>1, <2>2
<1>6. IndexOwned'
    BY GcType, StoreAssumption DEF IndexOwned, Publish, IInv, TypeOK
<1>7. WithinLimit'
    <2> DEFINE S == OpenCodes(WithoutPrevious(a))
    <2>1. OpenCodes(byCode') \subseteq S \cup {c}
        BY <1>3 DEF OpenCodes
    <2>2. IsFiniteSet(S) /\ Cardinality(S) \in Nat
        BY FewerOpen
    <2>3. /\ IsFiniteSet(S \cup {c})
          /\ Cardinality(S \cup {c}) <= Cardinality(S) + 1
          /\ Cardinality(S \cup {c}) \in Nat
        <3>1. /\ IsFiniteSet(S \cup {c})
              /\ Cardinality(S \cup {c}) = IF c \in S THEN Cardinality(S) ELSE Cardinality(S) + 1
            BY <2>2, FS_AddElement
        <3> HIDE DEF S
        <3> QED BY <2>2, <3>1
    <2>4. /\ Cardinality(OpenCodes(byCode')) <= Cardinality(S \cup {c})
          /\ Cardinality(OpenCodes(byCode')) \in Nat
        BY <2>1, <2>3, FS_Subset, FS_CardinalityType
    <2>5. Cardinality(S) < MaxOpenWindows
        BY DEF Publish
    <2>6. Cardinality(OpenCodes(byCode')) <= MaxOpenWindows
        BY <2>2, <2>3, <2>4, <2>5, StoreAssumption
    <2>7. OpenCodes(byCode)' = OpenCodes(byCode')
        BY DEF OpenCodes
    <2> QED
        BY <2>6, <2>7 DEF WithinLimit
<1>8. BoundedLife'
    <2> SUFFICES ASSUME NEW d \in Codes, byCode'[d] # NoWindow
                 PROVE  byCode'[d].expires <= clock + PairWindow
        BY DEF BoundedLife, Publish
    <2>1. CASE d = c
        BY <2>1, <1>3, <1>0
    <2>2. CASE d # c
        BY <2>2, <1>4 DEF IInv, BoundedLife
    <2> QED BY <2>1, <2>2
<1> QED
    BY <1>2, <1>5, <1>6, <1>7, <1>8 DEF IInv

(* Every call that opens nothing leaves a subset of the windows, each as   *)
(* it was but for the consumed flag, and entries that are old or empty.    *)
LEMMA ShrinkInv ==
    ASSUME IInv, TypeOK', issued' = issued, clock' \in Nat, clock' >= clock,
           \A c \in Codes : byCode'[c] # NoWindow =>
              /\ byCode[c] # NoWindow
              /\ byCode'[c].agent = byCode[c].agent
              /\ byCode'[c].expires = byCode[c].expires
              /\ byAgent'[byCode[c].agent] = c,
           \A a \in Agents : byAgent'[a] # NoCode => byAgent'[a] = byAgent[a]
    PROVE  IInv'
<1>1. IndexAgrees'
    BY DEF IndexAgrees, IInv
<1>2. IndexOwned'
    BY DEF IndexOwned, IInv
<1>3. WithinLimit'
    <2>1. OpenCodes(byCode)' = OpenCodes(byCode')
        BY DEF OpenCodes
    <2> QED
        BY <2>1, FewerOpen, StoreAssumption DEF WithinLimit, IInv
<1>4. BoundedLife'
    <2> SUFFICES ASSUME NEW c \in Codes, byCode'[c] # NoWindow
                 PROVE  byCode'[c].expires <= clock' + PairWindow
        BY DEF BoundedLife
    <2>1. byCode[c].expires <= clock + PairWindow /\ byCode[c].expires \in Int
        BY DEF IInv, BoundedLife, TypeOK, Window
    <2> QED
        BY <2>1, StoreAssumption DEF IInv, TypeOK
<1> QED
    BY <1>1, <1>2, <1>3, <1>4 DEF IInv

(* Every method keeps it.                                                  *)
LEMMA NextInv == IInv /\ [Next]_vars => IInv'
<1> SUFFICES ASSUME IInv, [Next]_vars PROVE IInv'
    OBVIOUS
<1> USE DEF IInv
<1>1. ASSUME NEW a \in Agents, NEW c \in Codes, NEW asked \in AskedExpiries,
             Publish(a, c, asked)
      PROVE  IInv'
    BY <1>1, PublishInv
<1>2. ASSUME NEW a \in Agents, PublishRefused(a)
      PROVE  IInv'
    <2>1. TypeOK'
        BY <1>2, GcType DEF PublishRefused, TypeOK
    <2>2. \A c \in Codes : byCode'[c] # NoWindow => /\ byCode'[c] = byCode[c]
                                                    /\ GcCodes[c] # NoWindow
        BY <1>2, GcType DEF PublishRefused, WithoutPrevious
    <2>3. \A c \in Codes : byCode'[c] # NoWindow => byAgent'[byCode[c].agent] = c
        BY <1>2, <2>2, GcAgrees DEF PublishRefused
    <2> QED
        BY <1>2, <2>1, <2>2, <2>3, GcType, ShrinkInv DEF PublishRefused, TypeOK
<1>3. CASE Lookup
    <2>1. TypeOK'
        BY <1>3, GcType DEF Lookup, TypeOK
    <2> QED
        BY <1>3, <2>1, GcType, GcAgrees, ShrinkInv DEF Lookup, TypeOK
<1>4. ASSUME NEW c \in Codes, Consume(c)
      PROVE  IInv'
    <2>1. GcCodes[c] \in Window /\ GcCodes[c] = byCode[c]
        BY <1>4, GcType DEF Consume
    <2>2. /\ byCode'[c] \in Window
          /\ byCode'[c].agent = byCode[c].agent
          /\ byCode'[c].expires = byCode[c].expires
        BY <1>4, <2>1, GcType DEF Consume, Window
    <2>3. \A d \in Codes : d # c => byCode'[d] = GcCodes[d]
        BY <1>4, GcType DEF Consume
    <2>4. TypeOK'
        <3>1. byCode' \in [Codes -> Window \cup {NoWindow}]
            BY <1>4, <2>2, GcType DEF Consume
        <3>2. tries' \in [Codes -> Nat]
            BY <1>4 DEF Consume, TypeOK
        <3> QED
            BY <1>4, <3>1, <3>2, GcType DEF Consume, TypeOK
    <2>5. \A d \in Codes : byCode'[d] # NoWindow =>
              /\ GcCodes[d] # NoWindow
              /\ byCode[d] # NoWindow
              /\ byCode'[d].agent = byCode[d].agent
              /\ byCode'[d].expires = byCode[d].expires
        BY <1>4, <2>1, <2>2, <2>3, GcType DEF Consume
    <2> QED
        BY <1>4, <2>4, <2>5, GcType, GcAgrees, ShrinkInv DEF Consume, TypeOK
<1>5. ASSUME NEW a \in Agents, Revoke(a)
      PROVE  IInv'
    <2>1. TypeOK'
        BY <1>5 DEF Revoke, TypeOK
    <2>2. \A c \in Codes : byCode'[c] # NoWindow => c # byAgent[a] /\ byCode'[c] = byCode[c]
        BY <1>5 DEF Revoke, TypeOK
    <2>3. \A c \in Codes : byCode'[c] # NoWindow => byAgent'[byCode[c].agent] = c
        BY <1>5, <2>2 DEF Revoke, TypeOK, IndexAgrees, Window
    <2>4. \A b \in Agents : byAgent'[b] # NoCode => byAgent'[b] = byAgent[b]
        BY <1>5 DEF Revoke, TypeOK
    <2> QED
        BY <1>5, <2>1, <2>2, <2>3, <2>4, ShrinkInv DEF Revoke, TypeOK
<1>6. CASE Tick
    <2>1. TypeOK'
        BY <1>6 DEF Tick, TypeOK
    <2> QED
        BY <1>6, <2>1, ShrinkInv DEF Tick, TypeOK, IndexAgrees
<1>7. CASE UNCHANGED vars
    <2>1. TypeOK'
        BY <1>7 DEF vars, TypeOK
    <2> QED
        BY <1>7, <2>1, ShrinkInv DEF vars, TypeOK, IndexAgrees
<1> QED
    BY <1>1, <1>2, <1>3, <1>4, <1>5, <1>6, <1>7 DEF Next

(* The store's invariant holds in every reachable state.                   *)
THEOREM StoreInvariant == Spec => []IInv
<1> QED
    BY InitInv, NextInv, PTL DEF Spec

(* The two Go maps agree in every reachable state: each open window is the *)
(* one its PC's entry names, so a PC has one window at most.               *)
THEOREM MapsAgree == Spec => []IndexAgrees
<1>1. IInv => IndexAgrees
    BY DEF IInv
<1> QED
    BY <1>1, StoreInvariant, PTL

(* The cap on open windows is never exceeded.                              *)
THEOREM LimitHolds == Spec => []WithinLimit
<1>1. IInv => WithinLimit
    BY DEF IInv
<1> QED
    BY <1>1, StoreInvariant, PTL

-----------------------------------------------------------------------------
(* Closing one PC's window leaves every other PC's live window alone.      *)
OwnStep ==
    clock' = clock =>
        \A c \in Codes : Live(c) /\ byCode'[c] = NoWindow =>
            \A d \in Codes : Live(d) /\ byCode[d].agent # byCode[c].agent =>
                byCode'[d] # NoWindow

(* Live windows closed by one call are all of one PC.                      *)
LEMMA OnlyOwnStep == IInv /\ [Next]_vars => OwnStep
<1> SUFFICES ASSUME IInv, [Next]_vars, clock' = clock,
                    NEW c \in Codes, Live(c), byCode'[c] = NoWindow,
                    NEW d \in Codes, Live(d), byCode[d].agent # byCode[c].agent
             PROVE  byCode'[d] # NoWindow
    BY DEF OwnStep
<1> USE DEF IInv
<1>1. /\ byCode[c] # NoWindow /\ byCode[d] # NoWindow /\ c # d
      /\ GcCodes[c] = byCode[c] /\ GcCodes[d] = byCode[d]
    BY DEF Live, GcCodes
<1>2. byAgent[byCode[c].agent] = c /\ byAgent[byCode[d].agent] = d
    BY <1>1 DEF IndexAgrees
<1>3. byCode[c].agent \in Agents /\ byCode[d].agent \in Agents
    BY <1>1 DEF TypeOK, Window
<1>4. GcAgents[byCode[c].agent] = c /\ GcAgents[byCode[d].agent] = d
    BY <1>1, GcAgrees
<1>5. ASSUME NEW a \in Agents, WithoutPrevious(a)[c] = NoWindow
      PROVE  WithoutPrevious(a)[d] # NoWindow
    <2>1. c = GcAgents[a]
        BY <1>1, <1>5 DEF WithoutPrevious
    <2> QED
        BY <2>1, <1>1 DEF WithoutPrevious
<1>6. ASSUME NEW a \in Agents, NEW e \in Codes, NEW asked \in AskedExpiries,
             Publish(a, e, asked)
      PROVE  byCode'[d] # NoWindow
    <2>1. e # c /\ e # d
        BY <1>1, <1>3, <1>6, StoreAssumption DEF Publish, IndexAgrees
    <2>2. byCode'[c] = WithoutPrevious(a)[c] /\ byCode'[d] = WithoutPrevious(a)[d]
        BY <1>6, <2>1, GcType DEF Publish
    <2> QED
        BY <2>2, <1>5
<1>7. ASSUME NEW a \in Agents, PublishRefused(a)
      PROVE  byCode'[d] # NoWindow
    BY <1>5, <1>7 DEF PublishRefused
<1>8. CASE Lookup
    BY <1>1, <1>8 DEF Lookup
<1>9. ASSUME NEW e \in Codes, Consume(e)
      PROVE  byCode'[d] # NoWindow
    <2>1. e # c
        <3>1. SUFFICES ASSUME e = c PROVE FALSE
            OBVIOUS
        <3>2. GcCodes[c] \in Window
            BY <1>1, GcType
        <3>3. byCode'[c] \in Window
            BY <1>9, <3>1, <3>2, GcType DEF Consume, Window
        <3> QED BY <3>3, NoWindowAssumption
    <2>2. byCode'[c] = GcCodes[c]
        BY <1>9, <2>1, GcType DEF Consume
    <2> QED
        BY <2>2, <1>1
<1>10. ASSUME NEW a \in Agents, Revoke(a)
       PROVE  byCode'[d] # NoWindow
    BY <1>1, <1>10 DEF Revoke, TypeOK
<1>11. CASE Tick
    BY <1>1, <1>11 DEF Tick
<1>12. CASE UNCHANGED vars
    BY <1>1, <1>12 DEF vars
<1> QED
    BY <1>6, <1>7, <1>8, <1>9, <1>10, <1>11, <1>12 DEF Next

(* No call of Publish, Consume or Revoke closes live windows of two PCs,   *)
(* dangling byAgent entries notwithstanding.                               *)
THEOREM OthersUntouched == Spec => ClosesOnlyOwn
<1>1. IInv /\ [Next]_vars => [OwnStep]_vars
    BY OnlyOwnStep
<1> QED
    BY <1>1, StoreInvariant, PTL DEF Spec, ClosesOnlyOwn, OwnStep

-----------------------------------------------------------------------------
(* The store implements the one-shot code.                                 *)

(* The handles the abstract code holds are the windows still live.         *)
LEMMA HeldIsLive == OneShot!Held(Phase) = {c \in Codes : Live(c)}
BY DEF OneShot!Held, Phase

(* A step after which no code is live that was not, and every one that     *)
(* still is has its consumed flag as it was, is a Close.                   *)
LEMMA CloseStep ==
    ASSUME TypeOK, IndexAgrees, issued' = issued, tries' = tries,
           \A c \in Codes : Live(c)' => Live(c) /\ byCode'[c].consumed = byCode[c].consumed
    PROVE  OneShot!Next
<1> DEFINE S == {c \in Codes : Live(c) /\ ~Live(c)'}
<1>1. S \subseteq OneShot!Held(Phase)
    BY HeldIsLive
<1>2. Phase' = [d \in Codes |-> IF d \in S THEN "closed" ELSE Phase[d]]
    <2>1. ASSUME NEW d \in Codes
          PROVE  Phase'[d] = IF d \in S THEN "closed" ELSE Phase[d]
        <3>1. CASE d \in S
            <4>1. issued[d] \in Agents
                BY <3>1 DEF Live, IndexAgrees, TypeOK, Window
            <4> QED BY <3>1, <4>1, StoreAssumption DEF Phase
        <3>2. CASE d \notin S
            BY <3>2 DEF Phase
        <3> QED BY <3>1, <3>2
    <2> QED BY <2>1 DEF Phase
<1>3. OneShot!Close(S)
    BY <1>1, <1>2 DEF OneShot!Close
<1>4. S \in SUBSET Codes
    OBVIOUS
<1> QED
    BY <1>3, <1>4 DEF OneShot!Next

(* A Publish opens a handle, or one that is over before it begins.         *)
LEMMA PublishStep ==
    ASSUME IInv, IInv', NEW a \in Agents, NEW c \in Codes, NEW asked \in AskedExpiries,
           Publish(a, c, asked)
    PROVE  OneShot!Next
<1> USE DEF IInv
<1> DEFINE first == IF Live(c)' THEN "open" ELSE "closed"
<1>1. issued[c] = NoAgent /\ byCode[c] = NoWindow /\ ~Live(c)
    <2>1. issued[c] = NoAgent
        BY DEF Publish
    <2>2. ASSUME byCode[c] # NoWindow PROVE FALSE
        <3>1. byCode[c].agent \in Agents /\ issued[c] = byCode[c].agent
            BY <2>2 DEF IndexAgrees, TypeOK, Window
        <3> QED BY <2>1, <3>1, StoreAssumption
    <2> QED
        BY <2>1, <2>2 DEF Live
<1>2. byCode'[c] = [agent |-> a, expires |-> ExpiryFor(asked), consumed |-> FALSE]
    BY GcType DEF Publish
<1>3. issued' = [issued EXCEPT ![c] = a] /\ clock' = clock /\ tries' = tries
    BY DEF Publish
<1>4. Phase'[c] = first
    BY <1>2, <1>3, StoreAssumption DEF Phase, TypeOK
<1>5. ASSUME NEW d \in Codes, d # c
      PROVE  Phase'[d] = IF d \in OneShot!Held(Phase) /\ issued[d] = a
                         THEN "closed" ELSE Phase[d]
    <2>1. byCode'[d] = WithoutPrevious(a)[d] /\ issued'[d] = issued[d]
        BY <1>3, <1>5, GcType DEF Publish, TypeOK
    <2>2. CASE Live(d) /\ issued[d] = a
        <3>1. GcAgents[a] = d
            BY <2>2, GcAgrees DEF Live, IndexAgrees, GcCodes
        <3>2. ~Live(d)'
            BY <2>1, <3>1 DEF Live, WithoutPrevious
        <3> QED
            BY <2>1, <2>2, <3>2, HeldIsLive, StoreAssumption DEF Phase
    <2>3. CASE Live(d) /\ issued[d] # a
        <3>1. GcAgents[a] # d
            BY <2>3, GcType, StoreAssumption DEF IndexOwned
        <3>2. byCode'[d] = byCode[d]
            BY <2>1, <2>3, <3>1 DEF WithoutPrevious, Live, GcCodes
        <3> QED
            BY <1>3, <2>1, <2>3, <3>2, HeldIsLive DEF Phase, Live, Expired
    <2>4. CASE ~Live(d)
        <3>1. byCode'[d] = NoWindow
            BY <2>1, <2>4 DEF WithoutPrevious, Live, GcCodes
        <3> QED
            BY <2>1, <2>4, <3>1, HeldIsLive DEF Phase, Live
    <2> QED BY <2>2, <2>3, <2>4
<1>6. Phase' = [d \in Codes |-> IF d = c THEN first
                                ELSE IF d \in OneShot!Held(Phase) /\ issued[d] = a
                                     THEN "closed" ELSE Phase[d]]
    BY <1>4, <1>5 DEF Phase
<1>7. Cardinality(OneShot!Held(Phase')) <= MaxOpenWindows
    <2>1. OneShot!Held(Phase') = {d \in Codes : Live(d)'}
        BY DEF OneShot!Held, Phase
    <2>2. OneShot!Held(Phase') \subseteq OpenCodes(byCode')
        BY <2>1 DEF Live, OpenCodes
    <2>3. IsFiniteSet(OpenCodes(byCode')) /\ Cardinality(OpenCodes(byCode')) \in Nat
        BY FewerOpen
    <2>4. Cardinality(OpenCodes(byCode')) <= MaxOpenWindows
        <3>1. OpenCodes(byCode') = OpenCodes(byCode)'
            BY DEF OpenCodes
        <3> QED BY <3>1 DEF WithinLimit
    <2>5. IsFiniteSet(OneShot!Held(Phase'))
        BY <2>2, <2>3, FS_Subset
    <2>6. /\ Cardinality(OneShot!Held(Phase')) <= Cardinality(OpenCodes(byCode'))
          /\ Cardinality(OneShot!Held(Phase')) \in Nat
        BY <2>2, <2>3, <2>5, FS_Subset, FS_CardinalityType
    <2> QED
        BY <2>3, <2>4, <2>6, StoreAssumption
<1>8. Phase[c] = "unused"
    BY <1>1 DEF Phase
<1>9. OneShot!Open(a, c, first)
    BY <1>3, <1>6, <1>7, <1>8 DEF OneShot!Open, OneShot!Cardinality, Cardinality
<1> QED
    BY <1>9 DEF OneShot!Next

(* A Consume tries its code, and only a live one that is untried.          *)
LEMMA ConsumeStep ==
    ASSUME IInv, NEW c \in Codes, Consume(c)
    PROVE  OneShot!Next
<1> USE DEF IInv
<1>1. /\ GcCodes[c] = byCode[c] /\ byCode[c] \in Window /\ byCode[c] # NoWindow
      /\ Live(c) /\ ~byCode[c].consumed
    BY GcType DEF Consume, GcCodes, Live
<1>2. /\ byCode'[c] \in Window /\ byCode'[c] # NoWindow
      /\ byCode'[c].expires = byCode[c].expires /\ byCode'[c].consumed = TRUE
    <2>1. byCode'[c] = [GcCodes EXCEPT ![c].consumed = TRUE][c]
        BY DEF Consume
    <2>2. /\ byCode'[c] \in Window
          /\ byCode'[c].expires = byCode[c].expires /\ byCode'[c].consumed = TRUE
        BY <1>1, <2>1, GcType DEF Window
    <2> QED
        BY <2>2, NoWindowAssumption
<1>3. /\ Live(c)' /\ clock' = clock /\ issued' = issued
      /\ tries' = [tries EXCEPT ![c] = @ + 1]
    BY <1>1, <1>2 DEF Consume, Live, Expired
<1>4. ASSUME NEW d \in Codes, d # c
      PROVE  Phase'[d] = Phase[d]
    <2>1. byCode'[d] = GcCodes[d]
        BY <1>4, GcType DEF Consume
    <2>2. CASE Live(d)
        <3>1. byCode'[d] = byCode[d]
            BY <2>1, <2>2 DEF Live, GcCodes
        <3> QED BY <1>3, <2>2, <3>1 DEF Phase, Live, Expired
    <2>3. CASE ~Live(d)
        <3>1. byCode'[d] = NoWindow
            BY <2>1, <2>3 DEF Live, GcCodes
        <3> QED BY <1>3, <2>3, <3>1 DEF Phase, Live
    <2> QED BY <2>2, <2>3
<1>5. Phase[c] = "open" /\ Phase'[c] = "tried"
    BY <1>1, <1>2, <1>3 DEF Phase
<1>6. Phase' = [Phase EXCEPT ![c] = "tried"]
    BY <1>4, <1>5 DEF Phase
<1>7. OneShot!Try(c)
    BY <1>3, <1>5, <1>6 DEF OneShot!Try
<1> QED
    BY <1>7 DEF OneShot!Next

(* Every step of the store is a step of the one-shot code or changes none. *)
LEMMA StoreStep ==
    IInv /\ IInv' /\ [Next]_vars => [OneShot!Next]_<<Phase, issued, tries>>
<1> SUFFICES ASSUME IInv, IInv', [Next]_vars
             PROVE  OneShot!Next \/ UNCHANGED <<Phase, issued, tries>>
    OBVIOUS
<1> USE DEF IInv
<1>1. ASSUME NEW a \in Agents, NEW c \in Codes, NEW asked \in AskedExpiries,
             Publish(a, c, asked)
      PROVE  OneShot!Next
    BY <1>1, PublishStep
<1>2. ASSUME NEW a \in Agents, PublishRefused(a)
      PROVE  OneShot!Next
    <2>1. \A c \in Codes : byCode'[c] # NoWindow => byCode'[c] = byCode[c]
        BY <1>2, GcType DEF PublishRefused, WithoutPrevious
    <2>2. clock' = clock /\ issued' = issued /\ tries' = tries
        BY <1>2 DEF PublishRefused
    <2> QED
        BY <2>1, <2>2, CloseStep DEF Live, Expired
<1>3. CASE Lookup
    <2>1. \A c \in Codes : byCode'[c] # NoWindow => byCode'[c] = byCode[c]
        BY <1>3, GcType DEF Lookup
    <2>2. clock' = clock /\ issued' = issued /\ tries' = tries
        BY <1>3 DEF Lookup
    <2> QED
        BY <2>1, <2>2, CloseStep DEF Live, Expired
<1>4. ASSUME NEW c \in Codes, Consume(c)
      PROVE  OneShot!Next
    BY <1>4, ConsumeStep
<1>5. ASSUME NEW a \in Agents, Revoke(a)
      PROVE  OneShot!Next
    <2>1. \A c \in Codes : byCode'[c] # NoWindow => byCode'[c] = byCode[c]
        BY <1>5 DEF Revoke, TypeOK
    <2>2. clock' = clock /\ issued' = issued /\ tries' = tries
        BY <1>5 DEF Revoke
    <2> QED
        BY <2>1, <2>2, CloseStep DEF Live, Expired
<1>6. CASE Tick
    <2>1. byCode' = byCode /\ issued' = issued /\ tries' = tries /\ clock' = clock + 1 /\ clock \in Nat
        BY <1>6 DEF Tick, TypeOK
    <2>2. ASSUME NEW c \in Codes, Live(c)'
          PROVE  Live(c)
        <3>1. byCode[c] # NoWindow /\ byCode[c].expires \in Int /\ ~(clock + 1 > byCode[c].expires)
            BY <2>1, <2>2 DEF Live, Expired, TypeOK, Window
        <3> QED BY <2>1, <3>1 DEF Live, Expired
    <2> QED
        BY <2>1, <2>2, CloseStep
<1>7. CASE UNCHANGED vars
    BY <1>7 DEF vars, Phase, Live, Expired
<1> QED
    BY <1>1, <1>2, <1>3, <1>4, <1>5, <1>6, <1>7 DEF Next

(* Every behaviour of the store is a behaviour of the one-shot code: a code *)
(* handle is opened once, tried at most once and only while live, never    *)
(* comes back, and no PC and no server holds more of them than allowed.    *)
THEOREM StoreIsOneShot == Spec => OneShotSpec
<1>1. Init => OneShot!Init
    BY DEF Init, OneShot!Init, Phase, Live
<1>2. IInv /\ IInv' /\ [Next]_vars => [OneShot!Next]_(OneShot!abstractVars)
    BY StoreStep DEF OneShot!abstractVars
<1> QED
    BY <1>1, <1>2, StoreInvariant, PTL DEF Spec, OneShotSpec, OneShot!Spec
=============================================================================
