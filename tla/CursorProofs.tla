---------------------------- MODULE CursorProofs ----------------------------
(***************************************************************************)
(* Proofs about Cursor, for any capacities, limits and number of shapes:   *)
(* the queues and the session's two memories of bitmaps keep within their  *)
(* limits (CursorTypeOK), and what the session remembers as sent is with   *)
(* the client or on its way (SentIsThere).                                 *)
(*                                                                         *)
(* The second is inductive with the first: that memory only grows by what  *)
(* the channel has taken, the channel loses nothing, and a bitmap leaves   *)
(* the client only as one that it has let go.                              *)
(***************************************************************************)
EXTENDS Cursor, SequenceTheorems, FiniteSetTheorems, TLAPS

\* What a sequence holds after something joins it, and before its head leaves it.
LEMMA AppendedElements ==
    ASSUME NEW S, NEW line \in Seq(S), NEW e \in S
    PROVE  Elements(Append(line, e)) = Elements(line) \cup {e}
<1>1. Append(line, e) \in Seq(S) /\ Len(Append(line, e)) = Len(line) + 1
  OBVIOUS
<1>2. \A i \in 1..Len(line) : Append(line, e)[i] = line[i]
  OBVIOUS
<1>3. Append(line, e)[Len(line) + 1] = e /\ Len(line) \in Nat
  OBVIOUS
<1>4. DOMAIN Append(line, e) = 1..(Len(line) + 1) /\ DOMAIN line = 1..Len(line)
  BY <1>1, LenProperties
<1>5. 1..(Len(line) + 1) = 1..Len(line) \cup {Len(line) + 1}
  BY <1>3
<1> QED BY <1>2, <1>3, <1>4, <1>5 DEF Elements

LEMMA HeadAndTailElements ==
    ASSUME NEW S, NEW line \in Seq(S), line # <<>>
    PROVE  Elements(line) = {Head(line)} \cup Elements(Tail(line))
<1>1. Len(line) \in Nat \ {0} /\ DOMAIN line = 1..Len(line)
  BY LenProperties, EmptySeq
<1>2. /\ Tail(line) \in Seq(S) /\ Len(Tail(line)) = Len(line) - 1
      /\ \A i \in 1..Len(Tail(line)) : Tail(line)[i] = line[i + 1]
  BY HeadTailProperties
<1>3. DOMAIN Tail(line) = 1..(Len(line) - 1)
  BY <1>2, LenProperties
<1>4. Head(line) = line[1]
  OBVIOUS
<1>5. ASSUME NEW i \in 1..Len(line)
      PROVE  line[i] \in {Head(line)} \cup Elements(Tail(line))
  <2>1. CASE i = 1
    BY <1>4, <2>1
  <2>2. CASE i # 1
    <3>1. i - 1 \in 1..(Len(line) - 1) /\ (i - 1) + 1 = i
      BY <1>1, <2>2
    <3>2. Tail(line)[i - 1] = line[i]
      BY <1>2, <3>1
    <3> QED BY <1>3, <3>1, <3>2 DEF Elements
  <2> QED BY <2>1, <2>2
<1>6. ASSUME NEW i \in 1..(Len(line) - 1) PROVE Tail(line)[i] \in Elements(line)
  <2>1. i + 1 \in 1..Len(line) /\ Tail(line)[i] = line[i + 1]
    BY <1>1, <1>2
  <2> QED BY <1>1, <2>1 DEF Elements
<1>7. 1 \in 1..Len(line)
  BY <1>1
<1> QED BY <1>1, <1>3, <1>4, <1>5, <1>6, <1>7 DEF Elements

\* Sets of shapes are finite, and one more makes a set longer by one at most.
LEMMA ShapesAreFew ==
    ASSUME NEW S \in SUBSET Shapes
    PROVE  /\ IsFiniteSet(S) /\ Cardinality(S) \in Nat
           /\ \A shape : Cardinality(S \cup {shape}) <= Cardinality(S) + 1
           /\ \A shape : Cardinality(S \ {shape}) <= Cardinality(S)
<1>1. IsFiniteSet(Shapes)
  BY CursorAssumption, FS_Interval DEF Shapes
<1>2. IsFiniteSet(S) /\ Cardinality(S) \in Nat
  BY <1>1, FS_Subset, FS_CardinalityType
<1>3. \A shape : /\ Cardinality(S \cup {shape}) = IF shape \in S THEN Cardinality(S) ELSE Cardinality(S) + 1
                 /\ Cardinality(S \ {shape}) = IF shape \in S THEN Cardinality(S) - 1 ELSE Cardinality(S)
  BY <1>2, FS_AddElement, FS_RemoveElement
<1> QED BY <1>2, <1>3

CursorInv == CursorTypeOK /\ SentIsThere

LEMMA CursorStarts == CursorInit => CursorInv
<1> SUFFICES ASSUME CursorInit PROVE CursorInv
  OBVIOUS
<1>1. Cardinality({}) = 0
  BY FS_EmptySet
<1>2. Cardinality(pending) <= MaxPending + 1 /\ Cardinality(sent) <= MaxSent
  BY <1>1, CursorAssumption DEF CursorInit
<1>3. /\ native \in Seq(Updates) /\ Len(native) <= NativeQueue
      /\ updates \in Seq(Updates) /\ Len(updates) <= GoQueue
      /\ ctrl \in Seq(Messages) /\ Len(ctrl) <= MaxBacklog
      /\ images \in Seq(Shapes) /\ Len(images) <= MaxImages
  BY CursorAssumption, EmptySeq DEF CursorInit
<1>4. shown \in 0..MaxShapes /\ moves \in 0..MaxMoves /\ state \in 0..MaxShapes
  BY CursorAssumption DEF CursorInit, NoShape
<1> QED BY <1>2, <1>3, <1>4 DEF CursorInit, CursorInv, CursorTypeOK, SentIsThere

\* A shape that reached the client, or is on its way, stays so while the control
\* channel only grows and nothing is let go.
LEMMA SentStays ==
    ASSUME SentIsThere, sent' \subseteq sent,
           Elements(ctrl) \subseteq Elements(ctrl'), UNCHANGED <<loading, images, evicted>>
    PROVE  SentIsThere'
BY DEF SentIsThere

\* Updates between Windows and the session: the queues keep within their capacities.
LEMMA QueuesKeepCursor ==
    ASSUME CursorInv, ShapeChanges \/ PointerMoves \/ PumpNative
    PROVE  CursorInv'
<1> USE CursorAssumption DEF CursorInv, CursorTypeOK, pumpVars, clientVars
<1>1. SentIsThere'
  BY SentStays DEF ShapeChanges, PointerMoves, PumpNative
<1>2. ASSUME NEW update \in Updates, Publish(update)
      PROVE  native' \in Seq(Updates) /\ Len(native') <= NativeQueue
  <2>1. CASE Len(native) >= NativeQueue
    <3>1. native # <<>>
      BY <2>1
    <3>2. Tail(native) \in Seq(Updates) /\ Len(Tail(native)) = Len(native) - 1
      BY <3>1, HeadTailProperties
    <3> QED BY <1>2, <2>1, <3>2 DEF Publish
  <2>2. CASE ~(Len(native) >= NativeQueue)
    BY <1>2, <2>2 DEF Publish
  <2> QED BY <2>1, <2>2
<1>3. CASE ShapeChanges
  <2>1. shown + 1 \in Shapes
    BY <1>3 DEF ShapeChanges, Shapes
  <2>2. [shape |-> shown + 1, bitmap |-> TRUE] \in Updates
    BY <2>1 DEF Updates
  <2>3. native' \in Seq(Updates) /\ Len(native') <= NativeQueue
    BY <1>2, <1>3, <2>2 DEF ShapeChanges
  <2> QED BY <1>1, <1>3, <2>1, <2>3 DEF ShapeChanges, Shapes
<1>4. CASE PointerMoves
  <2>1. native' \in Seq(Updates) /\ Len(native') <= NativeQueue
    BY <1>2, <1>4 DEF PointerMoves, Updates
  <2> QED BY <1>1, <1>4, <2>1 DEF PointerMoves
<1>5. CASE PumpNative
  <2>1. /\ Head(native) \in Updates
        /\ Tail(native) \in Seq(Updates) /\ Len(Tail(native)) = Len(native) - 1
    BY <1>5, HeadTailProperties DEF PumpNative
  <2>2. updates' \in Seq(Updates) /\ Len(updates') <= GoQueue
    BY <1>5, <2>1 DEF PumpNative
  <2> QED BY <1>1, <1>5, <2>1, <2>2 DEF PumpNative
<1> QED BY <1>3, <1>4, <1>5

\* rememberShape: no more than MaxPending + 1 bitmaps wait, for one that would be the
\* next makes all of them forgotten.
LEMMA TakeUpdateKeepsCursor == ASSUME CursorInv, TakeUpdate PROVE CursorInv'
<1> USE CursorAssumption DEF CursorInv, CursorTypeOK, clientVars
<1> DEFINE update == Head(updates)
<1>1. /\ update \in Updates
      /\ Tail(updates) \in Seq(Updates) /\ Len(Tail(updates)) = Len(updates) - 1
  BY HeadTailProperties DEF TakeUpdate
<1>2. /\ update.shape \in 0..MaxShapes
      /\ update.bitmap => update.shape \in Shapes
  <2>1. CASE update \in [shape : Shapes, bitmap : {TRUE}]
    BY <2>1 DEF Shapes
  <2>2. CASE update = Moved
    BY <2>2 DEF Moved, NoShape
  <2> QED BY <1>1, <2>1, <2>2 DEF Updates
<1>3. pending' \subseteq Shapes /\ Cardinality(pending') <= MaxPending + 1
  <2>1. CASE ~update.bitmap \/ update.shape \in sent
    BY <2>1 DEF TakeUpdate, Remembered
  <2>2. CASE ~(~update.bitmap \/ update.shape \in sent) /\ Cardinality(pending) > MaxPending
    <3>1. pending' = {update.shape}
      BY <2>2 DEF TakeUpdate, Remembered
    <3>2. Cardinality(pending') = 1
      BY <3>1, FS_Singleton
    <3> QED BY <1>2, <2>2, <3>1, <3>2
  <2>3. CASE ~(~update.bitmap \/ update.shape \in sent) /\ ~(Cardinality(pending) > MaxPending)
    <3>1. pending' = pending \cup {update.shape}
      BY <2>3 DEF TakeUpdate, Remembered
    <3>2. Cardinality(pending') <= Cardinality(pending) + 1 /\ Cardinality(pending) \in Nat
      BY <3>1, ShapesAreFew
    <3>3. Cardinality(pending') \in Nat
      BY <1>2, <2>3, <3>1, ShapesAreFew
    <3> QED BY <1>2, <2>3, <3>1, <3>2, <3>3
  <2> QED BY <2>1, <2>2, <2>3
<1>4. SentIsThere'
  BY SentStays DEF TakeUpdate
<1>5. current' \subseteq 0..MaxShapes /\ current' # {}
  BY <1>2 DEF TakeUpdate
<1>6. updates' \in Seq(Updates) /\ Len(updates') <= GoQueue
  <2>1. updates' = Tail(updates) /\ Len(updates) \in Nat
    BY DEF TakeUpdate
  <2> QED BY <1>1, <2>1
<1>7. UNCHANGED <<shown, moves, native, sent, open, ctrl, loading, images, state, evicted>>
      /\ trying' = pending'
  BY DEF TakeUpdate
<1> QED BY <1>3, <1>4, <1>5, <1>6, <1>7

\* resendPendingShapes: what is remembered as sent is what the channel has taken.
LEMMA SendShapeKeepsCursor ==
    ASSUME CursorInv, NEW shape \in Shapes, SendShape(shape) PROVE CursorInv'
<1> USE CursorAssumption DEF CursorInv, CursorTypeOK, clientVars
<1>1. CASE ~CtrlTakes
  <2>1. SentIsThere'
    BY <1>1, SentStays DEF SendShape
  <2> QED BY <1>1, <2>1 DEF SendShape
<1>2. CASE CtrlTakes
  <2> DEFINE message == [kind |-> "shape", shape |-> shape]
  <2>1. message \in Messages
    BY DEF Messages
  <2>2. /\ ctrl' = Append(ctrl, message) /\ ctrl' \in Seq(Messages)
        /\ Len(ctrl') <= MaxBacklog
    <3>1. ctrl' = Append(ctrl, message) /\ Len(ctrl) < MaxBacklog
      BY <1>2 DEF SendShape, CtrlTakes
    <3>2. Append(ctrl, message) \in Seq(Messages) /\ Len(Append(ctrl, message)) = Len(ctrl) + 1
      BY <2>1
    <3>3. Len(ctrl) \in Nat
      OBVIOUS
    <3> QED BY <3>1, <3>2, <3>3
  <2>3. Elements(ctrl') = Elements(ctrl) \cup {message}
    BY <2>1, <2>2, AppendedElements
  <2>4. sent' \subseteq sent \cup {shape} /\ sent' \subseteq Shapes
    BY <1>2 DEF SendShape, SentAfter
  <2>5. Cardinality(sent') <= MaxSent
    <3>1. CASE Cardinality(sent \cup {shape}) > MaxSent
      <4>1. sent' = {shape}
        BY <1>2, <3>1 DEF SendShape, SentAfter
      <4>2. Cardinality(sent') = 1
        BY <4>1, FS_Singleton
      <4> QED BY <4>2
    <3>2. CASE ~(Cardinality(sent \cup {shape}) > MaxSent)
      <4>1. sent' = sent \cup {shape}
        BY <1>2, <3>2 DEF SendShape, SentAfter
      <4>2. Cardinality(sent') \in Nat
        BY <2>4, ShapesAreFew
      <4> QED BY <3>2, <4>1, <4>2
    <3> QED BY <3>1, <3>2
  <2>6. pending' \subseteq Shapes /\ Cardinality(pending') <= MaxPending + 1
    <3>1. pending' = pending \ {shape}
      BY <1>2 DEF SendShape
    <3>2. /\ Cardinality(pending') <= Cardinality(pending)
          /\ Cardinality(pending) \in Nat /\ Cardinality(pending') \in Nat
      BY <3>1, ShapesAreFew
    <3> QED BY <3>1, <3>2
  <2>7. SentIsThere'
    BY <1>2, <2>3, <2>4 DEF SendShape, SentIsThere
  <2>8. UNCHANGED <<shown, moves, native, updates, current, open, loading, images, state, evicted>>
        /\ trying' = trying \ {shape} /\ pending' = pending \ {shape}
    BY <1>2 DEF SendShape
  <2> QED BY <2>2, <2>4, <2>5, <2>6, <2>7, <2>8
<1> QED BY <1>1, <1>2

LEMMA SendPositionKeepsCursor == ASSUME CursorInv, SendPosition PROVE CursorInv'
<1> USE CursorAssumption DEF CursorInv, CursorTypeOK, clientVars
<1>1. PICK shape \in current :
         ctrl' = IF CtrlTakes THEN Append(ctrl, [kind |-> "state", shape |-> shape]) ELSE ctrl
  BY DEF SendPosition
<1>2. [kind |-> "state", shape |-> shape] \in Messages
  BY DEF Messages
<1>3. /\ ctrl' \in Seq(Messages) /\ Len(ctrl') <= MaxBacklog
      /\ Elements(ctrl) \subseteq Elements(ctrl')
  <2>1. CASE CtrlTakes
    BY <1>1, <1>2, <2>1, AppendedElements DEF CtrlTakes
  <2>2. CASE ~CtrlTakes
    BY <1>1, <2>2
  <2> QED BY <2>1, <2>2
<1>4. SentIsThere'
  BY <1>3, SentStays DEF SendPosition
<1> QED BY <1>3, <1>4 DEF SendPosition

\* The client: a bitmap is taken off the channel to be decoded, decoded to be kept, and
\* let go when there are too many.
LEMMA ClientKeepsCursor ==
    ASSUME CursorInv, ClientHears \/ \E shape \in Shapes : OnLoad(shape) PROVE CursorInv'
<1> USE CursorAssumption DEF CursorInv, CursorTypeOK, pumpVars
<1>1. CASE ClientHears
  <2>1. /\ Head(ctrl) \in Messages
        /\ Tail(ctrl) \in Seq(Messages) /\ Len(Tail(ctrl)) = Len(ctrl) - 1
    BY <1>1, HeadTailProperties DEF ClientHears
  <2>2. /\ Head(ctrl).kind = "shape" => Head(ctrl).shape \in Shapes
        /\ Head(ctrl).kind # "shape" => Head(ctrl).shape \in 0..MaxShapes
    BY <2>1 DEF Messages
  <2>3. Elements(ctrl) = {Head(ctrl)} \cup Elements(ctrl')
    BY <1>1, HeadAndTailElements DEF ClientHears
  <2>4. loading \subseteq loading' /\ loading' \subseteq Shapes /\ state' \in 0..MaxShapes
    BY <1>1, <2>2 DEF ClientHears
  <2>5. SentIsThere'
    <3> SUFFICES ASSUME NEW shape \in sent
                 PROVE  \/ shape \in loading' \/ shape \in Elements(images) \/ shape \in evicted
                        \/ [kind |-> "shape", shape |-> shape] \in Elements(ctrl')
      BY <1>1 DEF ClientHears, SentIsThere
    <3>1. CASE Head(ctrl) = [kind |-> "shape", shape |-> shape]
      <4>1. Head(ctrl).kind = "shape" /\ Head(ctrl).shape = shape
        BY <3>1
      <4> QED BY <1>1, <4>1 DEF ClientHears
    <3>2. CASE Head(ctrl) # [kind |-> "shape", shape |-> shape]
      BY <2>3, <2>4, <3>2 DEF SentIsThere
    <3> QED BY <3>1, <3>2
  <2> QED BY <1>1, <2>1, <2>4, <2>5 DEF ClientHears
<1>2. ASSUME NEW shape \in Shapes, OnLoad(shape) PROVE CursorInv'
  <2> DEFINE all == IF shape \in Elements(images) THEN images ELSE Append(images, shape)
  <2>1. all \in Seq(Shapes) /\ Len(all) <= MaxImages + 1
    OBVIOUS
  <2>2. Elements(all) = Elements(images) \cup {shape}
    BY AppendedElements
  <2>3. /\ images' \in Seq(Shapes) /\ Len(images') <= MaxImages
        /\ evicted' \subseteq Shapes
        /\ Elements(all) \cup evicted \subseteq Elements(images') \cup evicted'
    <3>1. CASE Len(all) > MaxImages
      <4>1. all # <<>>
        BY <3>1
      <4>2. /\ Head(all) \in Shapes
            /\ Tail(all) \in Seq(Shapes) /\ Len(Tail(all)) = Len(all) - 1
        <5> HIDE DEF all
        <5> QED BY <2>1, <4>1, HeadTailProperties
      <4>3. Elements(all) = {Head(all)} \cup Elements(Tail(all))
        BY <2>1, <4>1, HeadAndTailElements
      <4>4. images' = Tail(all) /\ evicted' = evicted \cup {Head(all)}
        BY <1>2, <3>1 DEF OnLoad
      <4> QED BY <2>1, <4>2, <4>3, <4>4
    <3>2. CASE ~(Len(all) > MaxImages)
      <4>1. images' = all /\ evicted' = evicted
        BY <1>2, <3>2 DEF OnLoad
      <4> QED BY <2>1, <3>2, <4>1
    <3> QED BY <3>1, <3>2
  <2>4. SentIsThere'
    BY <1>2, <2>2, <2>3 DEF OnLoad, SentIsThere
  <2> HIDE DEF all
  <2> QED BY <1>2, <2>3, <2>4 DEF OnLoad
<1> QED BY <1>1, <1>2

\* Every step keeps the invariant.
LEMMA CursorStep == CursorInv /\ [CursorNext]_cursorVars => CursorInv'
<1> SUFFICES ASSUME CursorInv, [CursorNext]_cursorVars PROVE CursorInv'
  OBVIOUS
<1>1. CASE OpenCtrl
  BY <1>1, SentStays DEF OpenCtrl, CursorInv, CursorTypeOK, pumpVars, clientVars
<1>2. CASE UNCHANGED cursorVars
  BY <1>2 DEF cursorVars, CursorInv, CursorTypeOK, SentIsThere, pumpVars, clientVars
<1> QED BY <1>1, <1>2, QueuesKeepCursor, TakeUpdateKeepsCursor, SendShapeKeepsCursor,
           SendPositionKeepsCursor, ClientKeepsCursor DEF CursorNext

\* The queues of the pointer's way keep within their capacities, and what waits and
\* what is remembered within the limits of the session.
THEOREM CursorTyped == CursorSpec => []CursorTypeOK
<1>1. CursorInv => CursorTypeOK
  BY DEF CursorInv
<1> QED BY <1>1, CursorStarts, CursorStep, PTL DEF CursorSpec

\* Whatever was closed or full when a bitmap was tried, what the session counts as sent
\* has reached the client or is on its way.
THEOREM SentStaysThere == CursorSpec => []SentIsThere
<1>1. CursorInv => SentIsThere
  BY DEF CursorInv
<1> QED BY <1>1, CursorStarts, CursorStep, PTL DEF CursorSpec
=============================================================================
