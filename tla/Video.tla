------------------------------- MODULE Video -------------------------------
(***************************************************************************)
(* The way of a picture from the desktop to the client: the capture thread *)
(* of agent/native/session.cpp (Run, Rebuild, PublishFrame, NextFrame),    *)
(* pumpFrames and the setters of internal/capture/windows.go, and          *)
(* pumpVideo, readRTCP and the keyframe message of internal/session.       *)
(*                                                                         *)
(* A request for a keyframe is a flag that the thread takes when it begins *)
(* to encode; rebuilding the pipeline asks for one too.  Two bounded       *)
(* queues drop pictures in between.  Windows and the encoder are outside:  *)
(* the encoder gives the picture it was fed, or nothing when it is         *)
(* saturated, and remembers that a keyframe was asked of it.  Pacing,      *)
(* bit rates, sound and the cursor are left out.                           *)
(***************************************************************************)
EXTENDS Integers, Sequences

CONSTANTS
    FramesKept,   \* the 2 of PublishFrame
    FailuresKept, \* the 20 of Run
    MaxPictures,  \* bound: pictures begun
    MaxRequests,  \* bound: requests for a keyframe
    MaxLocks,     \* bound: times the desktop is taken away or given back
    MaxFaults     \* bound: failures of the encoder or of a part of Rebuild, and new settings

ASSUME VideoAssumption ==
    /\ FramesKept \in Nat \ {0} /\ FailuresKept \in Nat
    /\ MaxPictures \in Nat /\ MaxRequests \in Nat /\ MaxLocks \in Nat /\ MaxFaults \in Nat

VARIABLES
    thread,     \* the capture thread: "loop", "coding" or "over"
    capturable, \* Windows lets the desktop be captured
    stale,      \* the duplication is invalid: the next Acquire is AS_ERR_LOST
    pipeline,   \* "whole", "half" (no converter or encoder) or "none" (no duplication)
    inARow,     \* consecutive_failures
    fresh,      \* the desktop has changed since the last picture
    wantKey,    \* want_keyframe_
    dirty,      \* geometry_dirty_
    forced,     \* a keyframe has been asked of the encoder, and not given
    started,    \* pictures begun, the number of the one being encoded
    frames,     \* frames_: pictures [n, key]
    out,        \* the channel windowsSource.frames: none or one picture
    asked,      \* history: pictures begun at the last request of the client
    keySent,    \* history: the newest key picture pumpVideo has written
    keyDropped, \* history: the newest key picture a queue has dropped
    requests, locks, faults \* counters of the bounds

pipelineVars == <<thread, capturable, stale, pipeline, inARow, forced>>
queueVars == <<frames, out, keySent, keyDropped>>
videoVars == <<pipelineVars, queueVars, fresh, wantKey, dirty, started, asked, requests, locks, faults>>

Pictures == [n : 1..MaxPictures, key : BOOLEAN]
NotAsked == -1

VideoTypeOK ==
    /\ thread \in {"loop", "coding", "over"} /\ pipeline \in {"whole", "half", "none"}
    /\ capturable \in BOOLEAN /\ stale \in BOOLEAN /\ fresh \in BOOLEAN
    /\ wantKey \in BOOLEAN /\ dirty \in BOOLEAN /\ forced \in BOOLEAN
    /\ inARow \in 0..FailuresKept + 1 /\ started \in 0..MaxPictures
    /\ frames \in Seq(Pictures) /\ Len(frames) <= FramesKept /\ out \subseteq Pictures
    /\ asked \in NotAsked..MaxPictures
    /\ keySent \in 0..MaxPictures /\ keyDropped \in 0..MaxPictures
    /\ requests \in 0..MaxRequests /\ locks \in 0..MaxLocks /\ faults \in 0..MaxFaults

\* After Session::Open: Rebuild has asked for a keyframe.
VideoInit ==
    /\ thread = "loop" /\ capturable = TRUE /\ stale = FALSE /\ pipeline = "whole"
    /\ inARow = 0 /\ fresh = TRUE /\ wantKey = TRUE /\ dirty = FALSE /\ forced = FALSE
    /\ started = 0 /\ frames = <<>> /\ out = {}
    /\ asked = NotAsked /\ keySent = 0 /\ keyDropped = 0
    /\ requests = 0 /\ locks = 0 /\ faults = 0

Newest(n, picture) == IF picture.key /\ picture.n > n THEN picture.n ELSE n

-----------------------------------------------------------------------------
\* Windows, the settings and the client.

DesktopRedrawn ==
    /\ ~fresh /\ fresh' = TRUE
    /\ UNCHANGED <<pipelineVars, queueVars, wantKey, dirty, started, asked, requests, locks, faults>>

\* A lock, a UAC prompt, another resolution: the desktop goes, comes, or only changes.
DesktopTaken ==
    /\ locks < MaxLocks /\ locks' = locks + 1
    /\ capturable' \in BOOLEAN /\ stale' = TRUE
    /\ UNCHANGED <<thread, pipeline, inARow, forced, queueVars, fresh, wantKey, dirty, started, asked,
                   requests, faults>>

\* SetResolution, SetMonitor or SetPreset with something new.
NewSettings ==
    /\ faults < MaxFaults /\ faults' = faults + 1
    /\ dirty' = TRUE
    /\ UNCHANGED <<pipelineVars, queueVars, fresh, wantKey, started, asked, requests, locks>>

\* A picture loss report, or the message of the client.
RequestKeyframe ==
    /\ requests < MaxRequests /\ requests' = requests + 1
    /\ wantKey' = TRUE /\ asked' = started
    /\ UNCHANGED <<pipelineVars, queueVars, fresh, dirty, started, locks, faults>>

-----------------------------------------------------------------------------
\* The capture thread.

\* Rebuild: everything is thrown away first.  It asks for a keyframe when all parts are there.
Rebuild ==
    \/ /\ capturable
       /\ pipeline' = "whole" /\ stale' = FALSE /\ forced' = FALSE
       /\ dirty' = FALSE /\ wantKey' = TRUE
       /\ UNCHANGED faults
    \/ /\ capturable /\ faults < MaxFaults /\ faults' = faults + 1
       /\ pipeline' = "half" /\ stale' = FALSE /\ forced' = FALSE
       /\ UNCHANGED <<dirty, wantKey>>
    \/ /\ ~capturable
       /\ pipeline' = "none" /\ stale' = FALSE /\ forced' = FALSE
       /\ UNCHANGED <<dirty, wantKey, faults>>

\* At the top of the loop, and retried there while it fails.
RebuildForSettings ==
    /\ thread = "loop" /\ dirty
    /\ Rebuild
    /\ UNCHANGED <<thread, capturable, inARow, queueVars, fresh, started, asked, requests, locks>>

\* AS_ERR_LOST: rebuilt once; a failure is not remembered.
RebuildWhenLost ==
    /\ thread = "loop" /\ ~dirty /\ pipeline # "none" /\ stale
    /\ Rebuild
    /\ UNCHANGED <<thread, capturable, inARow, queueVars, fresh, started, asked, requests, locks>>

\* Acquire without a duplication is AS_ERR_CLOSED; after too many the thread ends,
\* and running_ stays set.
AcquireRefused ==
    /\ thread = "loop" /\ ~dirty /\ pipeline = "none"
    /\ inARow' = inARow + 1
    /\ thread' = IF inARow' > FailuresKept THEN "over" ELSE "loop"
    /\ UNCHANGED <<capturable, stale, pipeline, forced, queueVars, fresh, wantKey, dirty, started,
                   asked, requests, locks, faults>>

\* Nothing changed on the desktop.
AcquireNothing ==
    /\ thread = "loop" /\ ~dirty /\ pipeline # "none" /\ ~stale /\ ~fresh
    /\ inARow > 0 /\ inARow' = 0
    /\ UNCHANGED <<thread, capturable, stale, pipeline, forced, queueVars, fresh, wantKey, dirty,
                   started, asked, requests, locks, faults>>

\* A picture is acquired.  Without a converter it is given up; else the flag is taken
\* in one exchange and the encoder runs.
BeginEncode ==
    /\ thread = "loop" /\ ~dirty /\ pipeline # "none" /\ ~stale /\ fresh
    /\ inARow' = 0 /\ fresh' = FALSE
    /\ IF pipeline = "half"
       THEN dirty' = TRUE /\ UNCHANGED <<thread, forced, wantKey, started>>
       ELSE /\ started < MaxPictures /\ started' = started + 1
            /\ thread' = "coding"
            /\ forced' = (forced \/ wantKey) /\ wantKey' = FALSE
            /\ UNCHANGED dirty
    /\ UNCHANGED <<capturable, stale, pipeline, queueVars, asked, requests, locks, faults>>

\* Encode fails, and the pipeline will be rebuilt.
EncodeFails ==
    /\ thread = "coding" /\ thread' = "loop"
    /\ faults < MaxFaults /\ faults' = faults + 1
    /\ dirty' = TRUE
    /\ UNCHANGED <<capturable, stale, pipeline, inARow, forced, queueVars, fresh, wantKey, started,
                   asked, requests, locks>>

\* The encoder is saturated: this picture is dropped before it.
EncoderBusy ==
    /\ thread = "coding" /\ thread' = "loop"
    /\ UNCHANGED <<capturable, stale, pipeline, inARow, forced, queueVars, fresh, wantKey, dirty,
                   started, asked, requests, locks, faults>>

\* Mutant: the flag is cleared when the picture is published.
PublishFrame_ClearsKey ==
    /\ thread = "coding" /\ thread' = "loop"
    /\ wantKey' = FALSE
    /\ frames' = IF Len(frames) < FramesKept THEN Append(frames, [n |-> started, key |-> forced])
                                             ELSE Append(Tail(frames), [n |-> started, key |-> forced])
    /\ keyDropped' = IF Len(frames) < FramesKept THEN keyDropped ELSE Newest(keyDropped, Head(frames))
    /\ forced' = FALSE
    /\ UNCHANGED <<capturable, stale, pipeline, inARow, out, keySent, fresh, dirty, started, asked,
                   requests, locks, faults>>

\* The oldest picture makes room.
PublishFrame ==
    /\ thread = "coding" /\ thread' = "loop"
    /\ LET room == Len(frames) < FramesKept
           new  == [n |-> started, key |-> forced]
       IN  /\ frames' = Append(IF room THEN frames ELSE Tail(frames), new)
           /\ keyDropped' = IF room THEN keyDropped ELSE Newest(keyDropped, Head(frames))
    /\ forced' = FALSE
    /\ UNCHANGED <<capturable, stale, pipeline, inARow, out, keySent, fresh, wantKey, dirty, started,
                   asked, requests, locks, faults>>

-----------------------------------------------------------------------------
\* The goroutines.

\* NextFrame and the channel of one: a picture that finds it full is dropped.
PumpFrames ==
    /\ frames # <<>> /\ frames' = Tail(frames)
    /\ IF out = {}
       THEN out' = {Head(frames)} /\ UNCHANGED keyDropped
       ELSE keyDropped' = Newest(keyDropped, Head(frames)) /\ UNCHANGED out
    /\ UNCHANGED <<pipelineVars, keySent, fresh, wantKey, dirty, started, asked, requests, locks, faults>>

PumpVideo ==
    /\ \E picture \in out : keySent' = Newest(keySent, picture)
    /\ out' = {}
    /\ UNCHANGED <<pipelineVars, frames, keyDropped, fresh, wantKey, dirty, started, asked, requests,
                   locks, faults>>

VideoNext ==
    \/ DesktopRedrawn \/ DesktopTaken \/ NewSettings \/ RequestKeyframe
    \/ RebuildForSettings \/ RebuildWhenLost \/ AcquireRefused \/ AcquireNothing
    \/ BeginEncode \/ EncodeFails \/ EncoderBusy \/ PublishFrame
    \/ PumpFrames \/ PumpVideo

VideoSpec == VideoInit /\ [][VideoNext]_videoVars

-----------------------------------------------------------------------------
\* A request for a keyframe is never lost between the reader of RTCP, the capture thread
\* and the pumps (session.go:1044-1051, session.cpp:178-244): a key picture begun after it
\* was made is still owed, on its way, or sent, whatever is rebuilt meanwhile.  Unless a
\* queue dropped one (windows.go:340-347), or the thread has given up.
KeyframeOnItsWay ==
    asked # NotAsked /\ thread # "over" /\ pipeline # "none" =>
        \/ wantKey \/ dirty \/ forced \/ pipeline = "half"
        \/ \E picture \in out \cup {frames[i] : i \in DOMAIN frames} :
              picture.key /\ picture.n > asked
        \/ keySent > asked \/ keyDropped > asked
=============================================================================
