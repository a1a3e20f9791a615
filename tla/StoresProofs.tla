---------------------------- MODULE StoresProofs ----------------------------
(***************************************************************************)
(* Proofs about the rate limiter and the device registry of the server,    *)
(* and about the three stores together.                                    *)
(***************************************************************************)
EXTENDS MCPairStore, PairStoreProofs

-----------------------------------------------------------------------------
(* The rate limiter: its sweep is never seen, for any number of keys, any  *)
(* capacity, refill, age and skew that satisfy the assumption of Limiter.  *)
(*                                                                         *)
(* A bucket that is in use is the promised one.  A bucket that was dropped *)
(* had not been used for KeepFor, so the promised one is full for every    *)
(* caller that can still come: that is what the invariant says.            *)

Singles == {{b} : b \in Bucket}

\* A bucket (held) and the promised one (owed), at the time now.
Unseen(held, owed, time) ==
    \/ held = owed /\ (held = {} \/ held \in Singles)
    \/ held = {} /\ \E b \in Bucket : owed = {b} /\ time - b.last > KeepFor

AllUnseen == \A k \in Keys : Unseen(buckets[k], promised[k], now)

LimiterInv == LimiterTypeOK /\ AllUnseen

-----------------------------------------------------------------------------
\* The one element of a set is the one that is chosen.
LEMMA TheOnly == ASSUME NEW b PROVE (CHOOSE x \in {b} : TRUE) = b
  OBVIOUS

\* A product with a natural number does not fall when the other factor grows.
LEMMA TimesGrows ==
    ASSUME NEW x \in Int, NEW y \in Int, NEW r \in Nat, x <= y
    PROVE  x * r <= y * r
<1>1. (y - x) * r >= 0
  BY SMT
<1>2. (y - x) * r = y * r - x * r
  BY SMT
<1>3. x * r \in Int /\ y * r \in Int
  BY SMT
<1> QED BY <1>1, <1>2, <1>3

\* The tokens of a bucket stay within its capacity.
LEMMA LevelIsBounded ==
    ASSUME NEW b \in Bucket, NEW t \in Int
    PROVE  Level(b, t) \in 0..Capacity
<1>1. b.tokens \in 0..Capacity /\ b.last \in Int
  BY DEF Bucket
<1>2. CASE t > b.last
  <2>1. (t - b.last) * Refill >= 0 /\ (t - b.last) * Refill \in Int
    <3>1. 0 * Refill <= (t - b.last) * Refill
      BY <1>1, <1>2, LimiterAssumption, TimesGrows
    <3> QED BY <3>1, <1>1, LimiterAssumption
  <2> QED BY <1>1, <1>2, <2>1, LimiterAssumption DEF Level, AtMost
<1>3. CASE ~(t > b.last)
  BY <1>1, <1>3, LimiterAssumption DEF Level
<1> QED BY <1>2, <1>3

\* A bucket that has not been used for KeepFor is full to every caller that may come.
LEMMA FullAgain ==
    ASSUME NEW b \in Bucket, NEW t \in Int, t - b.last >= KeepFor - Skew
    PROVE  Level(b, t) = Capacity /\ t > b.last
<1>1. b.tokens \in 0..Capacity /\ b.last \in Int
  BY DEF Bucket
<1>2. KeepFor - Skew \in Int /\ Refill \in Nat
  BY LimiterAssumption
<1>3. (KeepFor - Skew) * Refill >= Capacity
  BY LimiterAssumption
<1>4. KeepFor - Skew > 0
  <2>1. SUFFICES ASSUME KeepFor - Skew <= 0 PROVE FALSE
    BY <1>2
  <2>2. (KeepFor - Skew) * Refill <= 0 * Refill
    BY <1>2, <2>1, TimesGrows
  <2> QED BY <1>2, <1>3, <2>2, LimiterAssumption
<1>5. (t - b.last) * Refill >= (KeepFor - Skew) * Refill
  BY <1>1, <1>2, TimesGrows
<1>6. (t - b.last) * Refill \in Int
  BY <1>1, <1>2
<1> QED BY <1>1, <1>2, <1>3, <1>4, <1>5, <1>6, LimiterAssumption DEF Level, AtMost

\* What the two buckets answer is the same for every caller that may come.
LEMMA UnseenAnswers ==
    ASSUME NEW held, NEW owed, NEW time \in Int, NEW t \in Int,
           t >= time - Skew, Unseen(held, owed, time)
    PROVE  LevelOf(held, t) = LevelOf(owed, t) /\ LastOf(held, t) = LastOf(owed, t)
<1>1. CASE held = owed
  BY <1>1
<1>2. CASE held = {} /\ \E b \in Bucket : owed = {b} /\ time - b.last > KeepFor
  <2>1. PICK b \in Bucket : owed = {b} /\ time - b.last > KeepFor
    BY <1>2
  <2>2. (CHOOSE x \in owed : TRUE) = b /\ owed # {}
    BY <2>1, TheOnly
  <2>3. b.last \in Int
    BY DEF Bucket
  <2>4. Level(b, t) = Capacity /\ t > b.last
    <3>1. t - b.last >= KeepFor - Skew
      BY <2>1, <2>3, LimiterAssumption
    <3> QED BY <3>1, FullAgain
  <2>5. LevelOf(owed, t) = Capacity /\ LastOf(owed, t) = t
    BY <2>2, <2>4 DEF LevelOf, LastOf
  <2> QED BY <1>2, <2>5 DEF LevelOf, LastOf
<1> QED BY <1>1, <1>2 DEF Unseen

\* Dropping what is old leaves nothing to be seen.
LEMMA SweepKeepsUnseen ==
    ASSUME NEW held, NEW owed, NEW time \in Int, NEW t \in Int,
           t <= time, Unseen(held, owed, time)
    PROVE  Unseen({b \in held : t - b.last <= KeepFor}, owed, time)
<1>1. CASE held = {}
  BY <1>1 DEF Unseen
<1>2. CASE held = owed /\ held \in Singles
  <2>1. PICK b \in Bucket : held = {b}
    BY <1>2 DEF Singles
  <2>2. b.last \in Int
    BY DEF Bucket
  <2>3. CASE t - b.last <= KeepFor
    <3>1. {x \in held : x = b /\ t - x.last <= KeepFor} = {b}
      BY <2>1, <2>3
    <3>2. {x \in held : t - x.last <= KeepFor} = held
      BY <2>1, <2>3
    <3> QED BY <1>2, <3>2 DEF Unseen
  <2>4. CASE ~(t - b.last <= KeepFor)
    <3>1. {x \in held : t - x.last <= KeepFor} = {}
      BY <2>1, <2>4
    <3>2. time - b.last > KeepFor
      BY <2>2, <2>4, LimiterAssumption
    <3> QED BY <1>2, <2>1, <3>1, <3>2 DEF Unseen
  <2> QED BY <2>3, <2>4
<1> QED BY <1>1, <1>2 DEF Unseen

\* A level that is read is within the capacity.
LEMMA LevelOfIsBounded ==
    ASSUME NEW held, NEW t \in Int, held = {} \/ held \in Singles
    PROVE  LevelOf(held, t) \in 0..Capacity /\ LastOf(held, t) \in Int
<1>1. CASE held = {}
  BY <1>1, LimiterAssumption DEF LevelOf, LastOf
<1>2. CASE held \in Singles
  <2>1. PICK b \in Bucket : held = {b}
    BY <1>2 DEF Singles
  <2>2. (CHOOSE x \in held : TRUE) = b /\ held # {} /\ b.last \in Int
    BY <2>1, TheOnly DEF Bucket
  <2> QED BY <2>2, LevelIsBounded DEF LevelOf, LastOf
<1> QED BY <1>1, <1>2

\* A call leaves one bucket, of its type.
LEMMA CalledIsSingle ==
    ASSUME NEW held, NEW t \in Int, NEW cost \in 0..Capacity, held = {} \/ held \in Singles
    PROVE  Called(held, t, cost) \in Singles
<1>1. LevelOf(held, t) \in 0..Capacity /\ LastOf(held, t) \in Int
  BY LevelOfIsBounded
<1>2. (IF LevelOf(held, t) < cost THEN LevelOf(held, t) ELSE LevelOf(held, t) - cost) \in 0..Capacity
  BY <1>1, LimiterAssumption
<1> QED BY <1>1, <1>2 DEF Called, Singles, Bucket

\* A call serves both alike.
LEMMA CallKeepsUnseen ==
    ASSUME NEW held, NEW owed, NEW time \in Int, NEW t \in Int, NEW cost \in 1..Capacity,
           t >= time - Skew, Unseen(held, owed, time)
    PROVE  Unseen(Called(held, t, cost),
                  IF LevelOf(held, t) < cost THEN Called(owed, t, 0) ELSE Called(owed, t, cost),
                  time)
<1>1. LevelOf(held, t) = LevelOf(owed, t) /\ LastOf(held, t) = LastOf(owed, t)
  BY UnseenAnswers
<1>2. held = {} \/ held \in Singles
  BY DEF Unseen
<1>3. LevelOf(held, t) \in 0..Capacity
  BY <1>2, LevelOfIsBounded
<1>4. cost \in 0..Capacity /\ cost \in Int
  BY LimiterAssumption
<1>5. Called(held, t, cost) \in Singles
  BY <1>2, <1>4, CalledIsSingle
<1>6. CASE LevelOf(held, t) < cost
  <2>1. LevelOf(owed, t) - 0 = LevelOf(owed, t) /\ ~(LevelOf(owed, t) < 0)
    BY <1>1, <1>3, LimiterAssumption
  <2>2. Called(held, t, cost) = Called(owed, t, 0)
    BY <1>1, <1>6, <2>1 DEF Called
  <2> QED BY <1>5, <1>6, <2>2 DEF Unseen
<1>7. CASE ~(LevelOf(held, t) < cost)
  <2>1. Called(held, t, cost) = Called(owed, t, cost)
    BY <1>1, <1>7 DEF Called
  <2> QED BY <1>5, <1>7, <2>1 DEF Unseen
<1> QED BY <1>6, <1>7

\* A call or a sweep of one key is also within the type.
LEMMA UnseenTyped ==
    ASSUME NEW held, NEW owed, NEW time, Unseen(held, owed, time)
    PROVE  held \in SUBSET Bucket /\ owed \in SUBSET Bucket
  BY DEF Unseen, Singles

\* Later, nothing more is seen.
LEMMA TimeKeepsUnseen ==
    ASSUME NEW held, NEW owed, NEW time \in Int, NEW later \in Int, time <= later,
           Unseen(held, owed, time)
    PROVE  Unseen(held, owed, later)
<1>1. \A b \in Bucket : time - b.last > KeepFor => later - b.last > KeepFor
  BY LimiterAssumption DEF Bucket
<1> QED BY <1>1 DEF Unseen

-----------------------------------------------------------------------------
LEMMA LimiterInitInv == LimiterInit => LimiterInv
<1> SUFFICES ASSUME LimiterInit PROVE LimiterInv
  OBVIOUS
<1>1. LimiterTypeOK
  BY LimiterAssumption DEF LimiterInit, LimiterTypeOK
<1>2. AllUnseen
  BY DEF LimiterInit, AllUnseen, Unseen
<1> QED BY <1>1, <1>2 DEF LimiterInv

LEMMA AllowNKeepsInv ==
    ASSUME LimiterInv, NEW k \in Keys, NEW cost \in 1..Capacity, NEW t \in 0..now,
           AllowN(k, cost, t)
    PROVE  LimiterInv'
<1>1. now \in Int /\ t \in Int /\ t <= now /\ t >= now - Skew /\ now' = now
  BY LimiterAssumption DEF AllowN, LimiterInv, LimiterTypeOK
<1> DEFINE swept == Swept(t)
           full  == swept[k] = {} /\ Cardinality(InUse(swept)) > MaxBuckets
<1>2. swept \in [Keys -> SUBSET Bucket] /\ \A j \in Keys : Unseen(swept[j], promised[j], now)
  <2>1. CASE t - lastGC > SweepGap
    <3>1. swept = [j \in Keys |-> {b \in buckets[j] : t - b.last <= KeepFor}]
      BY <2>1 DEF Swept
    <3>2. \A j \in Keys : Unseen(buckets[j], promised[j], now)
      BY DEF LimiterInv, AllUnseen
    <3>3. \A j \in Keys : Unseen(swept[j], promised[j], now)
      BY <1>1, <3>1, <3>2, SweepKeepsUnseen
    <3>4. \A j \in Keys : swept[j] \in SUBSET Bucket
      BY <3>3, UnseenTyped
    <3> QED BY <3>1, <3>3, <3>4
  <2>2. CASE ~(t - lastGC > SweepGap)
    <3>1. swept = buckets
      BY <2>2 DEF Swept
    <3> QED BY <3>1 DEF LimiterInv, LimiterTypeOK, AllUnseen
  <2> QED BY <2>1, <2>2
<1>3. promised \in [Keys -> SUBSET Bucket]
  BY DEF LimiterInv, LimiterTypeOK
<1> HIDE DEF swept
<1>4. CASE full
  <2>1. buckets' = swept /\ promised' = promised
    BY <1>4 DEF AllowN, full, swept
  <2>2. AllUnseen'
    BY <1>1, <1>2, <2>1 DEF AllUnseen, Unseen
  <2>3. LimiterTypeOK'
    BY <1>1, <1>2, <1>3, <2>1 DEF LimiterTypeOK, LimiterInv, AllowN
  <2> QED BY <2>2, <2>3 DEF LimiterInv
<1>5. CASE ~full
  <2> DEFINE held == Called(swept[k], t, cost)
             owed == IF LevelOf(swept[k], t) < cost THEN Called(promised[k], t, 0)
                                                    ELSE Called(promised[k], t, cost)
  <2>1. buckets' = [swept EXCEPT ![k] = held] /\ promised' = [promised EXCEPT ![k] = owed]
    BY <1>5 DEF AllowN, full, swept
  <2>2. Unseen(held, owed, now)
    BY <1>1, <1>2, CallKeepsUnseen
  <2> HIDE DEF held, owed
  <2>3. held \in SUBSET Bucket /\ owed \in SUBSET Bucket
    BY <2>2, UnseenTyped
  <2>4. \A j \in Keys : Unseen(buckets'[j], promised'[j], now)
    <3> SUFFICES ASSUME NEW j \in Keys PROVE Unseen(buckets'[j], promised'[j], now)
      OBVIOUS
    <3>1. CASE j = k
      <4>1. buckets'[j] = held /\ promised'[j] = owed
        BY <1>2, <1>3, <2>1, <3>1
      <4> QED BY <2>2, <4>1
    <3>2. CASE j # k
      <4>1. buckets'[j] = swept[j] /\ promised'[j] = promised[j]
        BY <1>2, <1>3, <2>1, <3>2
      <4> QED BY <1>2, <4>1
    <3> QED BY <3>1, <3>2
  <2>5. AllUnseen'
    BY <1>1, <2>4 DEF AllUnseen, Unseen
  <2>6. LimiterTypeOK'
    BY <1>1, <1>2, <1>3, <2>1, <2>3 DEF LimiterTypeOK, LimiterInv, AllowN
  <2> QED BY <2>5, <2>6 DEF LimiterInv
<1> QED BY <1>4, <1>5

LEMMA LimiterTickKeepsInv == ASSUME LimiterInv, LimiterTick PROVE LimiterInv'
<1>1. now \in Int /\ now' \in Int /\ now <= now' /\ now' \in 0..MaxLimiterTime
  BY LimiterAssumption DEF LimiterInv, LimiterTypeOK, LimiterTick
<1>2. LimiterTypeOK'
  BY <1>1 DEF LimiterInv, LimiterTypeOK, LimiterTick
<1>3. \A k \in Keys : Unseen(buckets[k], promised[k], now')
  BY <1>1, TimeKeepsUnseen DEF LimiterInv, AllUnseen
<1>4. AllUnseen'
  BY <1>3 DEF LimiterTick, AllUnseen, Unseen
<1> QED BY <1>2, <1>4 DEF LimiterInv

LEMMA LimiterStep == LimiterInv /\ [LimiterNext]_limiterVars => LimiterInv'
<1> SUFFICES ASSUME LimiterInv, [LimiterNext]_limiterVars PROVE LimiterInv'
  OBVIOUS
<1>1. CASE LimiterTick
  BY <1>1, LimiterTickKeepsInv
<1>2. CASE \E k \in Keys, t \in 0..now, cost \in 1..Capacity : AllowN(k, cost, t)
  BY <1>2, AllowNKeepsInv
<1>3. CASE UNCHANGED limiterVars
  BY <1>3 DEF limiterVars, LimiterInv, LimiterTypeOK, AllUnseen, Unseen
<1> QED BY <1>1, <1>2, <1>3 DEF LimiterNext

\* The inductive invariant holds always.
THEOREM LimiterInvariant == LimiterSpec => []LimiterInv
  BY LimiterInitInv, LimiterStep, PTL DEF LimiterSpec

\* Whatever the limits, dropping buckets that were not used for KeepFor is never seen
\* by a caller (ratelimit.go:71-88).
THEOREM SweepStaysUnseen == LimiterSpec => []SweepIsUnseen
<1>1. LimiterInv => SweepIsUnseen
  <2> SUFFICES ASSUME LimiterInv, NEW k \in Keys, NEW t \in 0..now, t >= now - Skew
               PROVE  LevelOf(buckets[k], t) = LevelOf(promised[k], t)
    BY DEF SweepIsUnseen
  <2>1. now \in Int /\ t \in Int
    BY LimiterAssumption DEF LimiterInv, LimiterTypeOK
  <2>2. Unseen(buckets[k], promised[k], now)
    BY DEF LimiterInv, AllUnseen
  <2> QED BY <2>1, <2>2, UnseenAnswers
<1> QED BY <1>1, LimiterInvariant, PTL

-----------------------------------------------------------------------------
(* The device registry: it forgets no change between memory and disk, for  *)
(* any devices, clients and limits, with the exceptions NothingForgotten   *)
(* names.                                                                  *)
(*                                                                         *)
(* NothingForgotten alone does not survive the end of a write: an older    *)
(* copy could go over the newest file.  What holds step by step (Newest)   *)
(* is that when nothing is marked, either nobody writes and the file is    *)
(* the newest, or the newest copy is the one being written; with one       *)
(* writer at a time (OneWriter) that is enough.                            *)

\* Each caller of Flush writes one copy, and two never overlap unseen.
OneCopy == \A w \in Writers : writing[w] = {} \/ \E copy : writing[w] = {copy}

OneWriter ==
    ~overtaken => \A v, w \in Writers : writing[v] # {} /\ writing[w] # {} => v = w

\* A process that does not run writes nothing.
DownIsQuiet == ~Running => \A w \in Writers : writing[w] = {}

Newest ==
    Running /\ ~lost /\ ~overtaken /\ ~dirty =>
        \/ file = devices /\ \A w \in Writers : writing[w] = {}
        \/ \E w \in Writers : writing[w] = {devices}

Copies == OneCopy /\ OneWriter /\ DownIsQuiet /\ Newest

RegistryInv == RegistryTypeOK /\ Copies

-----------------------------------------------------------------------------
LEMMA RegistryInitInv == RegistryInit => RegistryInv
<1> SUFFICES ASSUME RegistryInit PROVE RegistryInv
  OBVIOUS
<1>1. NoDevice \in Records
  BY DEF NoDevice, Records
<1>2. RegistryTypeOK
  <2>1. devices \in [Devices -> Records] /\ file \in [Devices -> Records]
    BY <1>1 DEF RegistryInit, Nothing
  <2>2. changes \in 0..MaxChanges /\ failures \in 0..MaxFailures /\ starts \in 0..MaxStarts
    BY RegistryAssumption DEF RegistryInit
  <2> QED BY <2>1, <2>2 DEF RegistryInit, RegistryTypeOK
<1>3. Copies
  BY DEF RegistryInit, Copies, OneCopy, OneWriter, DownIsQuiet, Newest, Running
<1> QED BY <1>2, <1>3 DEF RegistryInv

-----------------------------------------------------------------------------
\* Changes of the map.

\* A change is marked, so that nothing need be said of the copies.
LEMMA MarkKeepsInv ==
    ASSUME RegistryInv, NEW new \in [Devices -> Records], MarkDirty(new)
    PROVE  RegistryInv'
<1>1. RegistryTypeOK'
  <2>1. changes' \in 0..MaxChanges
    BY RegistryAssumption DEF RegistryInv, RegistryTypeOK, MarkDirty
  <2> QED BY <2>1 DEF RegistryInv, RegistryTypeOK, MarkDirty
<1>2. Copies'
  BY DEF RegistryInv, Copies, OneCopy, OneWriter, DownIsQuiet, Newest, Running, MarkDirty
<1> QED BY <1>1, <1>2 DEF RegistryInv

LEMMA UpsertKeepsInv ==
    ASSUME RegistryInv, NEW d \in Devices, NEW paired \in SUBSET Clients, NEW lan \in LANKeys,
           Upsert(d, paired, lan)
    PROVE  RegistryInv'
<1>1. PICK kept \in SUBSET paired :
         MarkDirty([devices EXCEPT ![d] = [known |-> TRUE, paired |-> kept, lan |-> {lan}]])
  BY DEF Upsert
<1>2. [known |-> TRUE, paired |-> kept, lan |-> {lan}] \in Records
  BY DEF Records
<1>3. [devices EXCEPT ![d] = [known |-> TRUE, paired |-> kept, lan |-> {lan}]] \in [Devices -> Records]
  BY <1>2 DEF RegistryInv, RegistryTypeOK
<1> QED BY <1>1, <1>3, MarkKeepsInv

LEMMA SmallChangesKeepInv ==
    ASSUME RegistryInv,
           \/ Reset
           \/ \E d \in Devices :
                 \/ Touch(d)
                 \/ \E l \in LANKeys : UpdateWake(d, l)
                 \/ \E c \in Clients : Forget(d, c)
    PROVE  RegistryInv'
<1>1. devices \in [Devices -> Records]
  BY DEF RegistryInv, RegistryTypeOK
<1>2. CASE Reset
  <2>1. Nothing \in [Devices -> Records]
    BY DEF Nothing, NoDevice, Records
  <2> QED BY <1>2, <2>1, MarkKeepsInv DEF Reset
<1>3. CASE \E d \in Devices : Touch(d)
  BY <1>1, <1>3, MarkKeepsInv DEF Touch
<1>4. ASSUME NEW d \in Devices, NEW l \in LANKeys, UpdateWake(d, l) PROVE RegistryInv'
  <2>1. [devices EXCEPT ![d].lan = {l}] \in [Devices -> Records]
    BY <1>1 DEF Records
  <2> QED BY <1>4, <2>1, MarkKeepsInv DEF UpdateWake
<1>5. ASSUME NEW d \in Devices, NEW c \in Clients, Forget(d, c) PROVE RegistryInv'
  <2>1. [devices EXCEPT ![d].paired = @ \ {c}] \in [Devices -> Records]
    BY <1>1 DEF Records
  <2> QED BY <1>5, <2>1, MarkKeepsInv DEF Forget
<1> QED BY <1>2, <1>3, <1>4, <1>5

-----------------------------------------------------------------------------
\* The copies.

\* Taking a copy of the newest state makes it the one that is being written.
LEMMA TakeKeepsCopies ==
    ASSUME RegistryInv, NEW w \in Writers, TakeCopy(w), Running, Running',
           UNCHANGED <<devices, file, lost>>
    PROVE  Copies'
<1>1. writing \in [Writers -> SUBSET [Devices -> Records]] /\ Copies
  BY DEF RegistryInv, RegistryTypeOK
<1>2. CASE dirty
  <2>1. /\ writing' = [writing EXCEPT ![w] = {devices}]
        /\ dirty' = FALSE
        /\ overtaken' = (overtaken \/ \E other \in Writers \ {w} : writing[other] # {})
    BY <1>2 DEF TakeCopy
  <2>2. writing'[w] = {devices} /\ \A v \in Writers \ {w} : writing'[v] = writing[v]
    BY <1>1, <2>1
  <2>3. OneCopy'
    BY <1>1, <2>2 DEF Copies, OneCopy
  <2>4. OneWriter'
    BY <2>1, <2>2 DEF OneWriter
  <2>5. Newest' /\ DownIsQuiet'
    BY <2>2 DEF Newest, DownIsQuiet
  <2> QED BY <2>3, <2>4, <2>5 DEF Copies
<1>3. CASE ~dirty
  BY <1>1, <1>3 DEF TakeCopy, Copies, OneCopy, OneWriter, DownIsQuiet, Newest
<1> QED BY <1>2, <1>3

LEMMA TakeKeepsType ==
    ASSUME RegistryInv, NEW w \in Writers, TakeCopy(w)
    PROVE  /\ writing' \in [Writers -> SUBSET [Devices -> Records]]
           /\ dirty' \in BOOLEAN /\ overtaken' \in BOOLEAN
  BY DEF RegistryInv, RegistryTypeOK, TakeCopy

\* Every step that takes a copy.
LEMMA TakingKeepsInv ==
    ASSUME RegistryInv, LoopByToken \/ LoopByTicker \/ LoopByClose \/ Shutdown
    PROVE  RegistryInv'
<1>1. PICK w \in Writers : TakeCopy(w)
  BY DEF LoopByToken, LoopByTicker, LoopByClose, Shutdown, Writers
<1>2. Running /\ Running' /\ UNCHANGED <<devices, file, lost>>
  BY DEF LoopByToken, LoopByTicker, LoopByClose, Shutdown, Listening, Running
<1>3. Copies'
  BY <1>1, <1>2, TakeKeepsCopies
<1>4. /\ writing' \in [Writers -> SUBSET [Devices -> Records]]
      /\ dirty' \in BOOLEAN /\ overtaken' \in BOOLEAN
  BY <1>1, TakeKeepsType
<1>5. token' \in BOOLEAN /\ server' \in {"up", "stopping", "closing", "closed", "down"}
      /\ UNCHANGED <<changes, failures, starts>>
  BY DEF LoopByToken, LoopByTicker, LoopByClose, Shutdown, RegistryInv, RegistryTypeOK
<1> QED BY <1>2, <1>3, <1>4, <1>5 DEF RegistryInv, RegistryTypeOK

\* The one writer has written the newest copy, or the newest state is marked.
LEMMA InstalledKeepsInv ==
    ASSUME RegistryInv, NEW w \in Writers, Installed(w)
    PROVE  RegistryInv'
<1>1. writing \in [Writers -> SUBSET [Devices -> Records]] /\ Copies
  BY DEF RegistryInv, RegistryTypeOK
<1>2. PICK copy \in writing[w] : file' = copy
  BY DEF Installed
<1>3. writing'[w] = {} /\ (\A v \in Writers \ {w} : writing'[v] = writing[v])
      /\ UNCHANGED <<devices, dirty, server, lost, overtaken>>
  BY <1>1 DEF Installed
<1>4. RegistryTypeOK'
  BY <1>1, <1>2 DEF Installed, RegistryInv, RegistryTypeOK
<1>5. OneCopy' /\ OneWriter'
  BY <1>1, <1>3 DEF Copies, OneCopy, OneWriter
<1>6. DownIsQuiet'
  BY <1>1, <1>3 DEF Copies, DownIsQuiet, Running
<1>7. Newest'
  <2> SUFFICES ASSUME Running', ~lost', ~overtaken', ~dirty'
               PROVE  file' = devices' /\ \A v \in Writers : writing'[v] = {}
    BY DEF Newest
  <2>1. Running /\ ~lost /\ ~overtaken /\ ~dirty
    BY <1>3 DEF Running
  <2>2. \A v \in Writers : writing[v] # {} => v = w
    BY <1>1, <1>2, <2>1 DEF Copies, OneWriter
  <2>3. writing[w] = {devices}
    BY <1>1, <1>2, <2>1, <2>2 DEF Copies, Newest
  <2> QED BY <1>2, <1>3, <2>2, <2>3
<1> QED BY <1>4, <1>5, <1>6, <1>7 DEF RegistryInv, Copies

\* A write of the newest copy that fails is noted; another one was going to be
\* overtaken by what is marked.
LEMMA FailureKeepsInv ==
    ASSUME RegistryInv, NEW w \in Writers, WriteFails(w)
    PROVE  RegistryInv'
<1>1. writing \in [Writers -> SUBSET [Devices -> Records]] /\ Copies /\ lost \in BOOLEAN
  BY DEF RegistryInv, RegistryTypeOK
<1>2. writing'[w] = {} /\ (\A v \in Writers \ {w} : writing'[v] = writing[v])
      /\ UNCHANGED <<devices, dirty, file, server, overtaken>>
  BY <1>1 DEF WriteFails
<1>3. RegistryTypeOK'
  BY <1>1, RegistryAssumption DEF WriteFails, RegistryInv, RegistryTypeOK
<1>4. OneCopy' /\ OneWriter' /\ DownIsQuiet'
  BY <1>1, <1>2 DEF Copies, OneCopy, OneWriter, DownIsQuiet, Running
<1>5. Newest'
  <2> SUFFICES ASSUME Running', ~lost', ~overtaken', ~dirty'
               PROVE  FALSE
    BY DEF Newest
  <2>1. Running /\ ~lost /\ ~overtaken /\ ~dirty /\ devices \notin writing[w] /\ writing[w] # {}
    <3>1. ~(lost \/ (devices \in writing[w] /\ ~dirty))
      BY DEF WriteFails
    <3>2. Running /\ writing[w] # {}
      BY DEF WriteFails
    <3> QED BY <1>2, <3>1, <3>2
  <2>2. \A v \in Writers : writing[v] # {} => v = w
    BY <1>1, <2>1 DEF Copies, OneWriter
  <2> QED BY <1>1, <2>1, <2>2 DEF Copies, Newest
<1> QED BY <1>3, <1>4, <1>5 DEF RegistryInv, Copies

-----------------------------------------------------------------------------
\* The process.

LEMMA OpenKeepsInv == ASSUME RegistryInv, Open PROVE RegistryInv'
<1>1. RegistryTypeOK'
  <2>1. starts' \in 0..MaxStarts
    BY RegistryAssumption DEF Open, RegistryInv, RegistryTypeOK
  <2> QED BY <2>1 DEF Open, RegistryInv, RegistryTypeOK
<1>2. \A w \in Writers : writing'[w] = {}
  BY DEF Open, RegistryInv, Copies, DownIsQuiet, Running
<1>3. Copies'
  BY <1>2 DEF Open, Copies, OneCopy, OneWriter, DownIsQuiet, Newest
<1> QED BY <1>1, <1>3 DEF RegistryInv

LEMMA StoppedKeepsInv == ASSUME RegistryInv, Stopped PROVE RegistryInv'
<1>1. Nothing \in [Devices -> Records]
  BY DEF Nothing, NoDevice, Records
<1>2. RegistryTypeOK'
  BY <1>1 DEF Stopped, RegistryInv, RegistryTypeOK
<1>3. Copies'
  BY DEF Stopped, Copies, OneCopy, OneWriter, DownIsQuiet, Newest, Running
<1> QED BY <1>2, <1>3 DEF RegistryInv

LEMMA CloseKeepsInv == ASSUME RegistryInv, CloseRegistry PROVE RegistryInv'
<1>1. RegistryTypeOK'
  BY DEF CloseRegistry, RegistryInv, RegistryTypeOK
<1>2. Copies'
  BY DEF CloseRegistry, RegistryInv, Copies, OneCopy, OneWriter, DownIsQuiet, Newest, Running
<1> QED BY <1>1, <1>2 DEF RegistryInv

LEMMA RegistryStep == RegistryInv /\ [RegistryNext]_registryVars => RegistryInv'
<1> SUFFICES ASSUME RegistryInv, [RegistryNext]_registryVars PROVE RegistryInv'
  OBVIOUS
<1>1. CASE Open
  BY <1>1, OpenKeepsInv
<1>2. CASE LoopByToken \/ LoopByTicker \/ LoopByClose \/ Shutdown
  BY <1>2, TakingKeepsInv
<1>3. CASE CloseRegistry
  BY <1>3, CloseKeepsInv
<1>4. CASE Exit \/ Crash
  BY <1>4, StoppedKeepsInv DEF Exit, Crash
<1>5. CASE Reset
  BY <1>5, SmallChangesKeepInv
<1>6. CASE \E w \in Writers : Installed(w) \/ WriteFails(w)
  BY <1>6, InstalledKeepsInv, FailureKeepsInv
<1>7. CASE \E d \in Devices : \E l \in LANKeys : \E paired \in SUBSET Clients : Upsert(d, paired, l)
  BY <1>7, UpsertKeepsInv
<1>8. CASE \E d \in Devices :
              \/ Touch(d)
              \/ \E l \in LANKeys : UpdateWake(d, l)
              \/ \E c \in Clients : Forget(d, c)
  BY <1>8, SmallChangesKeepInv
<1>9. CASE UNCHANGED registryVars
  BY <1>9 DEF registryVars, RegistryInv, RegistryTypeOK, Copies, OneCopy, OneWriter, DownIsQuiet,
              Newest, Running
<1> QED BY <1>1, <1>2, <1>3, <1>4, <1>5, <1>6, <1>7, <1>8, <1>9 DEF RegistryNext

\* The inductive invariant holds always.
THEOREM RegistryInvariant == RegistrySpec => []RegistryInv
  BY RegistryInitInv, RegistryStep, PTL DEF RegistrySpec

\* The newest state of the registry is on disk, being written or marked, for any
\* devices and clients (registry.go:156-171), with the exceptions of the property.
THEOREM NothingIsForgotten == RegistrySpec => []NothingForgotten
<1>1. RegistryInv => NothingForgotten
  BY DEF RegistryInv, Copies, Newest, NothingForgotten
<1> QED BY <1>1, RegistryInvariant, PTL

-----------------------------------------------------------------------------
(* The three stores, as TLC explores them.                                 *)

LEMMA StoresBegin == MCInit => IInv /\ RegistryInv /\ LimiterInv
<1>1. MCInit => Init /\ RegistryInit /\ LimiterInit
  BY DEF MCInit
<1> QED BY <1>1, InitInv, RegistryInitInv, LimiterInitInv

\* A step of one store leaves the others as they are.
LEMMA StoresStep == [MCNext]_mcVars => [Next]_vars /\ [RegistryNext]_registryVars /\ [LimiterNext]_limiterVars
  BY DEF MCNext, mcVars

\* Every variable of the pairing windows, the registry and the limiter keeps its type
\* (store.go:66-180, registry.go:87-362, ratelimit.go:65-96), for any PCs, codes, devices,
\* clients, keys and bounds (TypesOK of MCPairStore).
THEOREM StoresTyped == MCSpec => []TypesOK
<1>1. IInv /\ RegistryInv /\ LimiterInv /\ [MCNext]_mcVars => IInv' /\ RegistryInv' /\ LimiterInv'
  BY StoresStep, NextInv, RegistryStep, LimiterStep
<1>2. IInv /\ RegistryInv /\ LimiterInv => TypesOK
  BY DEF IInv, RegistryInv, LimiterInv, TypesOK
<1> QED BY StoresBegin, <1>1, <1>2, PTL DEF MCSpec

-----------------------------------------------------------------------------
(* What SameAfterRestart rests on when the server is stopped in order.     *)

\* run() writes only while it is stopping.
OnlyStoppingWrites == server # "stopping" => writing["run"] = {}

\* A server that exits after its last Flush has the newest state on disk, unless a
\* connection that was still served changed it meanwhile, a write failed or the goroutine
\* and run() overlapped (registry.go:112-171, main.go: run).
ExitLosesNothing == [][Exit => dirty \/ lost \/ overtaken \/ file = devices]_registryVars

THEOREM ExitsAreClean == RegistrySpec => ExitLosesNothing
<1>1. RegistryInit => OnlyStoppingWrites
  BY DEF RegistryInit, OnlyStoppingWrites, Writers
<1>2. RegistryInv /\ OnlyStoppingWrites /\ [RegistryNext]_registryVars => OnlyStoppingWrites'
  <2> SUFFICES ASSUME RegistryInv, OnlyStoppingWrites, [RegistryNext]_registryVars
               PROVE  OnlyStoppingWrites'
    OBVIOUS
  <2>1. writing \in [Writers -> SUBSET [Devices -> Records]] /\ "run" \in Writers
    BY DEF RegistryInv, RegistryTypeOK, Writers
  <2>2. CASE Open \/ CloseRegistry
    BY <2>2 DEF Open, CloseRegistry, OnlyStoppingWrites
  <2>3. CASE Shutdown
    BY <2>3 DEF Shutdown, OnlyStoppingWrites
  <2>4. CASE LoopByClose \/ LoopByToken \/ LoopByTicker
    BY <2>1, <2>4 DEF LoopByClose, LoopByToken, LoopByTicker, TakeCopy, OnlyStoppingWrites
  <2>5. CASE Exit \/ Crash
    BY <2>1, <2>5 DEF Exit, Crash, Stopped, OnlyStoppingWrites
  <2>6. CASE \E w \in Writers : Installed(w) \/ WriteFails(w)
    BY <2>1, <2>6 DEF Installed, WriteFails, OnlyStoppingWrites
  <2>7. CASE UNCHANGED <<server, writing>>
    BY <2>7 DEF OnlyStoppingWrites
  <2> QED
    BY <2>2, <2>3, <2>4, <2>5, <2>6, <2>7
    DEF RegistryNext, Reset, Touch, UpdateWake, Upsert, Forget, MarkDirty, registryVars
<1>3. RegistryInv /\ OnlyStoppingWrites /\ [RegistryNext]_registryVars =>
        [Exit => dirty \/ lost \/ overtaken \/ file = devices]_registryVars
  BY DEF RegistryInv, Copies, Newest, Running, OnlyStoppingWrites, Exit, Writers
<1> QED BY <1>1, <1>2, <1>3, RegistryInvariant, PTL DEF RegistrySpec, ExitLosesNothing
=============================================================================
