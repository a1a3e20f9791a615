------------------------------ MODULE Limiter -------------------------------
(***************************************************************************)
(* The keyed token buckets of internal/rendezvous/signal/ratelimit.go.  A  *)
(* caller reads the clock before it takes the lock, so calls may be served *)
(* out of the order of their times.  Beside each bucket runs the bucket    *)
(* the limiter promises, one that is never dropped: the sweep, and the cap *)
(* on the number of buckets, must never let through what it refuses.       *)
(***************************************************************************)
EXTENDS Integers, FiniteSets

CONSTANTS Keys,      \* source addresses and identities
          Capacity,  \* Limiter.capacity
          Refill,    \* Limiter.refill, tokens per tick
          KeepFor,   \* age at which a bucket is dropped, 5 minutes
          SweepGap,  \* least time between two sweeps, 1 minute
          MaxBuckets,\* the 50,000 of AllowN
          Skew,      \* bound: time between a caller's clock and its turn
          MaxLimiterTime    \* bound: the clock

\* A bucket that nobody has used for KeepFor is full (DefaultLimits: 50 s at most).
ASSUME LimiterAssumption ==
    /\ Capacity \in Nat \ {0} /\ Refill \in Nat \ {0}
    /\ KeepFor \in Nat /\ SweepGap \in Nat /\ Skew \in Nat /\ MaxLimiterTime \in Nat
    /\ MaxBuckets \in Nat
    /\ Capacity <= Refill * (KeepFor - Skew)

VARIABLES
    now,      \* the clock
    buckets,  \* Limiter.buckets: none or one [tokens, last] for each key
    lastGC,   \* Limiter.lastGC, -1 before the first sweep
    promised  \* history: the buckets, if none were ever dropped or refused

limiterVars == <<now, buckets, lastGC, promised>>

Bucket == [tokens : 0..Capacity, last : Int]

LimiterTypeOK ==
    /\ now \in 0..MaxLimiterTime
    /\ buckets \in [Keys -> SUBSET Bucket]
    /\ lastGC \in Int
    /\ promised \in [Keys -> SUBSET Bucket]

LimiterInit ==
    /\ now = 0 /\ lastGC = -SweepGap - 1
    /\ buckets = [k \in Keys |-> {}]
    /\ promised = [k \in Keys |-> {}]

-----------------------------------------------------------------------------
AtMost(a, b) == IF a < b THEN a ELSE b

\* The tokens of a bucket when its turn comes with time t: it never runs back.
Level(b, t) == IF t > b.last THEN AtMost(Capacity, b.tokens + (t - b.last) * Refill)
                             ELSE b.tokens

\* What is in a bucket after a call at t, and whether a bucket was ever made.
LevelOf(held, t) == IF held = {} THEN Capacity ELSE Level(CHOOSE b \in held : TRUE, t)
LastOf(held, t) ==
    IF held = {} THEN t
    ELSE LET b == CHOOSE x \in held : TRUE IN IF t > b.last THEN t ELSE b.last

\* bucket.allow: the refill is kept also when the call is refused.
Called(held, t, cost) ==
    LET level == LevelOf(held, t)
    IN  {[tokens |-> IF level < cost THEN level ELSE level - cost, last |-> LastOf(held, t)]}

\* Mutant: the age is measured from the last sweep.
Swept_Early(t) ==
    IF t - lastGC > SweepGap
    THEN [k \in Keys |-> {b \in buckets[k] : t - b.last <= SweepGap}]
    ELSE buckets

\* The sweep at the head of AllowN.
Swept(t) ==
    IF t - lastGC > SweepGap
    THEN [k \in Keys |-> {b \in buckets[k] : t - b.last <= KeepFor}]
    ELSE buckets

InUse(all) == {k \in Keys : all[k] # {}}

\* AllowN(k, cost) by a caller that read the clock at t.
AllowN(k, cost, t) ==
    LET swept == Swept(t)
        full  == swept[k] = {} /\ Cardinality(InUse(swept)) > MaxBuckets
    IN  /\ t \in 0..now /\ t >= now - Skew
        /\ lastGC' = IF t - lastGC > SweepGap THEN t ELSE lastGC
        /\ buckets' = IF full THEN swept ELSE [swept EXCEPT ![k] = Called(@, t, cost)]
        \* The promised bucket is charged for a call that went through.
        /\ promised' = IF full THEN promised
                               ELSE [promised EXCEPT ![k] =
                                        IF LevelOf(swept[k], t) < cost THEN Called(@, t, 0)
                                                                        ELSE Called(@, t, cost)]
        /\ UNCHANGED now

LimiterTick == now < MaxLimiterTime /\ now' = now + 1 /\ UNCHANGED <<buckets, lastGC, promised>>

LimiterNext ==
    \/ LimiterTick
    \/ \E k \in Keys, t \in 0..now, cost \in 1..Capacity : AllowN(k, cost, t)

LimiterSpec == LimiterInit /\ [][LimiterNext]_limiterVars

-----------------------------------------------------------------------------
\* Dropping buckets is never seen: whatever a caller's turn, a bucket holds what it
\* would hold if none were ever dropped (ratelimit.go:71-88), so a sweep gives
\* nobody a fresh burst and takes nothing from anybody, and a call is let through
\* only if the promised bucket has the tokens.
SweepIsUnseen ==
    \A k \in Keys : \A t \in 0..now :
        t >= now - Skew => LevelOf(buckets[k], t) = LevelOf(promised[k], t)
=============================================================================
