------------------------------ MODULE Quality -------------------------------
(***************************************************************************)
(* The quality controller of a session, internal/session/quality.go: once  *)
(* a tick (pumpQuality, 500 ms) Update turns the bandwidth estimate into a *)
(* bitrate, a frame rate and a size; the client's requests (Apply) and the *)
(* size of its window come between.  All of it runs under one lock.        *)
(*                                                                         *)
(* Times are kept as ages in ticks that stop at the age they are compared  *)
(* with; sizes are heights; bitrates are in units the ladder is given in.  *)
(***************************************************************************)
EXTENDS Integers, Sequences

CONSTANTS Ladder,        \* minBitrate and scale (in thousandths) of each rung
          Native,        \* height of the screen
          Estimates,     \* what the estimator may report
          WindowSizes,   \* heights of the client's window
          FrameRates, Caps, Floors, \* what a request may ask for, 0 for nothing
          DownAfter, UpAfter, Dwell,\* downgradeAfter, upgradeAfter, rungDwell
          Margin,        \* upgradeMargin, in hundredths
          Align,         \* sizes are multiples of this
          StartBitrate, Lowest, Highest,   \* Settings: bitrates
          MaxEvents      \* bound: requests, estimates and resizes

ASSUME QualityAssumption ==
    /\ Ladder \in Seq([minBitrate : Nat, scale : 1..1000]) /\ Ladder # <<>>
    /\ \A r \in 2..Len(Ladder) : Ladder[r].minBitrate < Ladder[r - 1].minBitrate
    /\ Estimates \subseteq Nat /\ Caps \subseteq Nat /\ Floors \subseteq Nat
    /\ FrameRates \subseteq 0..240 \* what config.go lets through
    /\ WindowSizes \subseteq Nat /\ Native \in Nat /\ Align \in Nat
    /\ StartBitrate \in Nat /\ Lowest \in Nat /\ Highest \in Nat /\ MaxEvents \in Nat
    /\ DownAfter \in Nat /\ UpAfter \in Nat /\ Dwell \in Nat
    /\ Margin \in Nat /\ Margin >= 100

Rungs == 0..(Len(Ladder) - 1)
None == -1
MinUsableFPS == 15
Presets == {"balanced", "gaming", "desktop"}
Policies == {"auto", "native", "fixed", "fit"}

VARIABLES
    q,        \* what the controller has decided, and its timers
    s,        \* what the client asked for
    estimate, window, \* the estimator's target and the client's window, 0: none
    rescales, \* whether the backend can change the size
    events,   \* counter of the bound
    went,     \* history: the way the last step went since anything changed
    still     \* history: ticks since Update last changed the size

qualityVars == <<q, s, estimate, window, rescales, events, went, still>>

\* A frame rate below MinUsableFPS comes from the configuration only.
Controllers ==
    [rung : Rungs, fps : 1..240, bitrate : Nat, height : Nat, since : 0..Dwell,
     low : None..DownAfter, high : None..UpAfter]
Wanted ==
    [preset : Presets, policy : Policies, adaptive : BOOLEAN, maxFPS : 1..240, max : Nat, min : Nat,
     fixed : Nat]

QualityTypeOK ==
    /\ q \in Controllers /\ s \in Wanted
    /\ estimate \in Nat /\ window \in Nat /\ rescales \in BOOLEAN /\ events \in 0..MaxEvents
    /\ went \in {"nowhere", "down", "up"} /\ still \in 0..Dwell

-----------------------------------------------------------------------------
\* Helpers.

Clamp(v, low, high) == IF v < low THEN low ELSE IF v > high THEN high ELSE v
Smaller(a, b) == IF a < b THEN a ELSE b
Larger(a, b) == IF a > b THEN a ELSE b
Distance(a, b) == IF a < b THEN b - a ELSE a - b
RoundTo(v, multiple) ==
    IF multiple <= 1 THEN v ELSE ((v + multiple \div 2) \div multiple) * multiple
Older(age, limit) == IF age = None THEN None ELSE Smaller(age + 1, limit)

Minimum(rung) == Ladder[rung + 1].minBitrate
SizeForRung(rung) == Larger(RoundTo((Native * Ladder[rung + 1].scale) \div 1000, Align), 180)

SetFPS(c, fps) == [c EXCEPT !.fps = Clamp(fps, MinUsableFPS, 240)]

\* A size the user asked for is kept; a backend that cannot change the size
\* keeps the timers of the condition.
ApplyRung(c, rung, policy) ==
    LET r == Clamp(rung, 0, Len(Ladder) - 1)
    IN  IF r = c.rung \/ policy \in {"native", "fixed"} THEN c
        ELSE IF ~rescales THEN [c EXCEPT !.rung = r, !.since = 0]
        ELSE [c EXCEPT !.rung = r, !.height = SizeForRung(r),
                       !.since = 0, !.low = None, !.high = None]

-----------------------------------------------------------------------------
QualityInit ==
    /\ rescales \in BOOLEAN
    /\ \E preset \in Presets, fps \in FrameRates :
          /\ q = [rung |-> 0, fps |-> IF fps = 0 THEN 60 ELSE fps, bitrate |-> StartBitrate, height |-> Native,
                  since |-> 0, low |-> None, high |-> None]
          /\ s = [preset |-> preset, policy |-> "auto", adaptive |-> TRUE,
                  maxFPS |-> IF fps = 0 THEN 60 ELSE fps, max |-> Highest, min |-> Lowest, fixed |-> 0]
    /\ estimate = 0 /\ window = 0
    /\ events = 0 /\ went = "nowhere" /\ still = Dwell

\* The world changes: the estimate, or the client's window.
Outside ==
    /\ events < MaxEvents /\ events' = events + 1
    /\ \/ estimate' \in Estimates /\ UNCHANGED window
       \/ window' \in WindowSizes /\ UNCHANGED estimate
    /\ went' = "nowhere"
    /\ UNCHANGED <<q, s, rescales, still>>

\* The preset's part of Apply: gaming asks for the full frame rate; desktop for
\* the full size, at 60 frames at most.
PresetApplied(c, new) ==
    CASE new.preset = "gaming"  -> SetFPS(c, new.maxFPS)
      [] new.preset = "desktop" ->
            ApplyRung(SetFPS(c, Smaller(new.maxFPS, 60)), 0, new.policy)
      [] OTHER -> c

PolicyApplied(c, new) ==
    IF ~rescales THEN c
    ELSE CASE new.policy = "native" -> [c EXCEPT !.height = Native, !.rung = 0]
           [] new.policy = "fixed" /\ new.fixed > 0 -> [c EXCEPT !.height = RoundTo(new.fixed, Align)]
           [] OTHER -> c

\* The new settings: a limit that is not given stays, and so do a preset and a
\* policy; the floor is kept below the ceiling only when the floor is given.
Requested(preset, policy, adaptive, fps, cap, floor, fixed) ==
    LET top == IF cap > 0 THEN cap ELSE s.max
    IN  [preset |-> preset, policy |-> policy, adaptive |-> adaptive,
         maxFPS |-> IF fps > 0 THEN Clamp(fps, MinUsableFPS, 240) ELSE s.maxFPS,
         max |-> top, min |-> IF floor > 0 THEN Clamp(floor, Lowest, top) ELSE s.min,
         fixed |-> fixed]

Apply ==
    \E preset \in Presets, policy \in Policies, adaptive \in BOOLEAN,
       fps \in FrameRates, cap \in Caps, floor \in Floors, fixed \in WindowSizes :
        LET new == Requested(preset, policy, adaptive, fps, cap, floor, fixed)
        IN  /\ events < MaxEvents /\ events' = events + 1
            /\ s' = new
            /\ q' = PolicyApplied(PresetApplied(q, new), new)
            /\ went' = "nowhere"
            /\ UNCHANGED <<estimate, window, rescales, still>>

-----------------------------------------------------------------------------
\* Update, once a tick.

Aged(c) == [c EXCEPT !.since = Smaller(@ + 1, Dwell),
                     !.low = Older(@, DownAfter), !.high = Older(@, UpAfter)]

\* Mutant: the change of size is not noted.
ConsiderViewport_NoDwell(c) ==
    LET fit == RoundTo(Smaller(window, Native), Align)
    IN  IF s.policy = "fit" /\ window > 0 /\ c.height # fit /\ c.since >= Dwell /\ rescales
        THEN [c EXCEPT !.height = fit]
        ELSE c

\* The stream is matched to the client's window.
ConsiderViewport(c) ==
    LET fit == RoundTo(Smaller(window, Native), Align)
    IN  IF s.policy = "fit" /\ window > 0 /\ c.height # fit /\ c.since >= Dwell /\ rescales
        THEN [c EXCEPT !.height = fit, !.since = 0]
        ELSE c

Track(c, target) ==
    IF Distance(target, c.bitrate) > c.bitrate \div 20 THEN [c EXCEPT !.bitrate = target] ELSE c

StepDown(c) ==
    IF s.preset = "desktop" /\ c.fps > 30
    THEN [SetFPS(c, 30) EXCEPT !.since = 0, !.low = None]
    ELSE IF c.rung < Len(Ladder) - 1 THEN ApplyRung(c, c.rung + 1, s.policy)
    ELSE IF c.fps > MinUsableFPS
    THEN [SetFPS(c, Larger(MinUsableFPS, c.fps \div 2)) EXCEPT !.since = 0, !.low = None]
    ELSE c

StepUp(c) ==
    IF c.fps < s.maxFPS
    THEN [SetFPS(c, s.maxFPS) EXCEPT !.since = 0, !.high = None]
    ELSE IF c.rung > 0 THEN ApplyRung(c, c.rung - 1, s.policy) ELSE c

TooLittle(c, target) == target < Minimum(c.rung)
\* Mutant: the rung that is left is looked at, instead of the one to be reached.
Plenty_OwnRung(c, target) == c.rung > 0 /\ target * 100 >= Minimum(c.rung) * Margin
Plenty(c, target) == c.rung > 0 /\ target * 100 > Minimum(c.rung - 1) * Margin

\* The condition must have lasted, and so must the last change.
Stepped(c, target) ==
    IF TooLittle(c, target)
    THEN LET d == [c EXCEPT !.high = None, !.low = Larger(@, 0)]
         IN  IF d.low >= DownAfter /\ d.since >= Dwell THEN StepDown(d) ELSE d
    ELSE IF Plenty(c, target)
    THEN LET d == [c EXCEPT !.low = None, !.high = Larger(@, 0)]
         IN  IF d.high >= UpAfter /\ d.since >= Dwell THEN StepUp(d) ELSE d
    ELSE [c EXCEPT !.low = None, !.high = None]

UpdateQuality ==
    LET seen   == ConsiderViewport(Aged(q))
        target == Clamp(estimate, s.min, s.max)
    IN  /\ q' = IF s.adaptive /\ estimate > 0 THEN Stepped(Track(seen, target), target) ELSE seen
        /\ went' = CASE q'.rung > q.rung \/ q'.fps < q.fps -> "down"
                     [] q'.rung < q.rung \/ q'.fps > q.fps -> "up"
                     [] OTHER -> went
        /\ still' = IF q'.height # q.height THEN 0 ELSE Smaller(still + 1, Dwell)
        /\ UNCHANGED <<s, estimate, window, rescales, events>>

QualityNext == Outside \/ Apply \/ UpdateQuality
QualitySpec == QualityInit /\ [][QualityNext]_qualityVars

-----------------------------------------------------------------------------
\* The stream does not pump (quality.go:14-18): while the estimate, the window and
\* the requests stay as they are, the controller never raises what it lowered or
\* lowers what it raised, in rung or in frame rate.  And as every change of size costs
\* a keyframe, two that it makes by itself are rungDwell apart, whether they come from
\* the ladder or from the client's window, and whatever is asked for in between.
NoPumping ==
    [][/\ went' # went => went = "nowhere" \/ went' = "nowhere"
       /\ q'.height # q.height /\ UpdateQuality => still + 1 >= Dwell]_qualityVars
=============================================================================
