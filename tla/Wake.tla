------------------------------- MODULE Wake --------------------------------
(***************************************************************************)
(* How a PC can be woken and how it is kept awake: wake.Manager and the    *)
(* Windows platform (internal/wake), the process of the wake timer         *)
(* (cmdCheckIn in service_windows.go), and their callers in agent.go and   *)
(* main.go.                                                                *)
(*                                                                         *)
(* Every start of the agent, and of "allshare-agent pair" beside it,       *)
(* applies the settings it loads to one scheduled task of Windows, in      *)
(* steps that can fail one by one.  StayAwake is called by the one reader  *)
(* of the link, so calls do not overlap; its hold ends in a goroutine of   *)
(* its own.  The user does not put the PC to sleep by hand here.           *)
(***************************************************************************)
EXTENDS Integers

CONSTANTS
    CheckIns,     \* minutes a user can set; 0 turns waking off
    LeastMinutes, \* the 5 of ScheduleCheckIn
    MostMinutes,  \* the 720 of ScheduleCheckIn
    Stays,        \* durations the server asks for
    CheckInHold,  \* how long cmdCheckIn holds the PC awake
    MaxWakeTime,  \* bound: the clock
    MaxEdits      \* bound: changes of the settings and starts of processes

ASSUME WakeAssumption ==
    /\ CheckIns \subseteq Nat /\ Stays \subseteq Nat \ {0}
    /\ LeastMinutes \in Nat /\ MostMinutes \in Nat /\ LeastMinutes <= MostMinutes
    /\ CheckInHold \in Nat /\ MaxWakeTime \in Nat /\ MaxEdits \in Nat

Never == -1

VARIABLES
    minutes,    \* the check-in of config.json
    manager,    \* the minutes of the running agent's Manager: none or one
    schedule,   \* the scheduled task: none or one [every, wakes]
    nic,        \* an adapter is armed and has an address
    standby,    \* the PC stays on the network while it sleeps
    method,     \* the last method reported to the server
    failed,     \* history: Apply returned an error in the running agent, which logs it
    overridden, \* history: another process applied other settings, or failed to
    hour,       \* the clock
    power,      \* "awake" or "asleep"
    hold,       \* Manager.holdStop: "none", "asking" (PreventSleep runs) or "held"
    holdUntil,  \* Manager.holdUntil
    leaving,    \* holds that have expired and are not yet released
    asking,     \* history: the deadline of the call that PreventSleep runs for
    promise,    \* history: the latest deadline of a call that got a hold
    checkIn,    \* until when cmdCheckIn keeps the PC awake
    edits       \* counter of the bound

scheduleVars == <<minutes, manager, schedule, method, failed, overridden, edits>>
holdVars == <<hold, holdUntil, leaving, asking, promise>>
wakeVars == <<scheduleVars, holdVars, nic, standby, hour, power, checkIn>>

WakeTypeOK ==
    /\ minutes \in CheckIns /\ manager \subseteq CheckIns
    /\ schedule \subseteq [every : LeastMinutes..MostMinutes, wakes : BOOLEAN]
    /\ nic \in BOOLEAN /\ standby \in BOOLEAN
    /\ method \in {"unknown", "modernStandby", "lanPeer", "checkin", "none"}
    /\ failed \in BOOLEAN /\ overridden \in BOOLEAN
    /\ hour \in 0..MaxWakeTime /\ power \in {"awake", "asleep"}
    /\ hold \in {"none", "asking", "held"}
    /\ holdUntil \in Int /\ asking \in Int /\ promise \in Int /\ checkIn \in Int
    /\ leaving \in Nat /\ edits \in 0..MaxEdits

WakeInit ==
    /\ minutes \in CheckIns \ {0} /\ manager = {} /\ schedule = {}
    /\ nic \in BOOLEAN /\ standby \in BOOLEAN
    /\ method = "unknown" /\ failed = FALSE /\ overridden = FALSE /\ edits = 0
    /\ hour = 0 /\ power = "awake"
    /\ hold = "none" /\ holdUntil = Never /\ leaving = 0
    /\ asking = Never /\ promise = Never /\ checkIn = Never

Later(a, b) == IF a > b THEN a ELSE b

-----------------------------------------------------------------------------
\* The schedule.

\* ScheduleCheckIn keeps the interval within its limits.
Every(m) == IF m < LeastMinutes THEN LeastMinutes ELSE IF m > MostMinutes THEN MostMinutes ELSE m

\* Manager.Apply, and whether it returns an error.  A task that cannot be deleted
\* stays, and nobody is told; to change one, it is deleted first, then created, then
\* told to wake the PC.
ApplySchedule(m, error) ==
    IF m = 0 \/ standby
    THEN schedule' \in {{}, schedule} /\ ~error
    ELSE \/ schedule' = {[every |-> Every(m), wakes |-> TRUE]} /\ ~error
         \/ schedule' \in {{}, schedule, {[every |-> Every(m), wakes |-> FALSE]}} /\ error

\* Manager.Capability.
Capability(m) ==
    IF m = 0 THEN "none"
    ELSE IF standby THEN "modernStandby"
    ELSE IF nic THEN "lanPeer"
    ELSE "checkin"

\* allshare-agent config: the file; a running agent does not look at it again.
SetMinutes ==
    /\ power = "awake" /\ edits < MaxEdits /\ edits' = edits + 1
    /\ minutes' \in CheckIns
    /\ UNCHANGED <<holdVars, manager, schedule, method, failed, overridden, nic, standby, hour, power, checkIn>>

\* assemble in cmdRun.
StartAgent ==
    /\ power = "awake" /\ manager = {} /\ edits < MaxEdits /\ edits' = edits + 1
    /\ manager' = {minutes}
    /\ failed' \in BOOLEAN /\ ApplySchedule(minutes, failed')
    /\ overridden' = FALSE /\ method' = "unknown"
    /\ UNCHANGED <<holdVars, minutes, nic, standby, hour, power, checkIn>>

\* assemble in cmdPair, in a process of its own.
PairingProcess ==
    /\ power = "awake" /\ edits < MaxEdits /\ edits' = edits + 1
    /\ \E error \in BOOLEAN :
          /\ ApplySchedule(minutes, error)
          /\ overridden' = (overridden \/ error \/ minutes \notin manager)
    /\ UNCHANGED <<holdVars, minutes, manager, method, failed, nic, standby, hour, power, checkIn>>

StopAgent ==
    /\ power = "awake" /\ manager # {}
    /\ manager' = {} /\ method' = "unknown"
    /\ hold' = "none" /\ holdUntil' = Never /\ leaving' = 0 /\ asking' = Never /\ promise' = Never
    /\ UNCHANGED <<minutes, schedule, failed, overridden, edits, nic, standby, hour, power, checkIn>>

\* register and updateStatus send what Capability returns.
ReportWake ==
    /\ power = "awake"
    /\ \E m \in manager : method' = Capability(m)
    /\ UNCHANGED <<holdVars, minutes, manager, schedule, failed, overridden, edits, nic, standby,
                   hour, power, checkIn>>

AdapterChanges ==
    /\ nic' = ~nic
    /\ UNCHANGED <<holdVars, scheduleVars, standby, hour, power, checkIn>>

-----------------------------------------------------------------------------
\* Staying awake.

\* Mutant: a call that finds a hold leaves it as it is.
StayAwake_KeepsDeadline(d) ==
    /\ power = "awake" /\ manager # {} /\ hold # "asking"
    /\ IF hold = "held"
       THEN promise' = Later(promise, hour + d) /\ UNCHANGED <<hold, holdUntil, asking>>
       ELSE /\ hold' = "asking" /\ asking' = hour + d
            /\ holdUntil' = Later(holdUntil, hour + d) /\ UNCHANGED promise
    /\ UNCHANGED <<scheduleVars, leaving, nic, standby, hour, power, checkIn>>

\* Manager.StayAwake up to PreventSleep: the deadline moves, and a hold that is there
\* goes on until the new one.
StayAwake(d) ==
    /\ power = "awake" /\ manager # {} /\ hold # "asking"
    /\ holdUntil' = Later(holdUntil, hour + d)
    /\ IF hold = "held"
       THEN promise' = Later(promise, hour + d) /\ UNCHANGED <<hold, asking>>
       ELSE hold' = "asking" /\ asking' = hour + d /\ UNCHANGED promise
    /\ UNCHANGED <<scheduleVars, leaving, nic, standby, hour, power, checkIn>>

\* PreventSleep has answered.
HoldMade ==
    /\ power = "awake" /\ hold = "asking"
    /\ hold' = "held" /\ promise' = Later(promise, asking)
    /\ UNCHANGED <<scheduleVars, holdUntil, leaving, asking, nic, standby, hour, power, checkIn>>

HoldRefused ==
    /\ power = "awake" /\ hold = "asking"
    /\ hold' = "none"
    /\ UNCHANGED <<scheduleVars, holdUntil, leaving, asking, promise, nic, standby, hour, power, checkIn>>

\* The ticker of the hold's goroutine: what it finds expired it gives up under the lock,
\* and releases after it.
HoldExpires ==
    /\ power = "awake" /\ hold = "held" /\ hour > holdUntil
    /\ hold' = "none" /\ leaving' = leaving + 1
    /\ UNCHANGED <<scheduleVars, holdUntil, asking, promise, nic, standby, hour, power, checkIn>>

HoldReleased ==
    /\ power = "awake" /\ leaving > 0 /\ leaving' = leaving - 1
    /\ UNCHANGED <<scheduleVars, hold, holdUntil, asking, promise, nic, standby, hour, power, checkIn>>

-----------------------------------------------------------------------------
\* The PC and Windows.

FallsAsleep ==
    /\ power = "awake" /\ hold # "held" /\ leaving = 0 /\ checkIn = Never
    /\ power' = "asleep"
    /\ UNCHANGED <<scheduleVars, holdVars, nic, standby, hour, checkIn>>

\* The task runs, and cmdCheckIn holds the PC awake on its own.
TimerFires ==
    /\ \E s \in schedule : s.wakes \/ power = "awake"
    /\ checkIn = Never
    /\ power' = "awake" /\ checkIn' = hour + CheckInHold
    /\ UNCHANGED <<scheduleVars, holdVars, nic, standby, hour>>

CheckInEnds ==
    /\ power = "awake" /\ checkIn # Never /\ hour >= checkIn
    /\ checkIn' = Never
    /\ UNCHANGED <<scheduleVars, holdVars, nic, standby, hour, power>>

\* A packet, or somebody at the keyboard.
WakesUp ==
    /\ power = "asleep" /\ power' = "awake"
    /\ UNCHANGED <<scheduleVars, holdVars, nic, standby, hour, checkIn>>

HourPasses ==
    /\ hour < MaxWakeTime /\ hour' = hour + 1
    /\ UNCHANGED <<scheduleVars, holdVars, nic, standby, power, checkIn>>

WakeNext ==
    \/ SetMinutes \/ StartAgent \/ PairingProcess \/ StopAgent \/ ReportWake \/ AdapterChanges
    \/ \E d \in Stays : StayAwake(d)
    \/ HoldMade \/ HoldRefused \/ HoldExpires \/ HoldReleased
    \/ FallsAsleep \/ TimerFires \/ CheckInEnds \/ WakesUp \/ HourPasses

WakeSpec == WakeInit /\ [][WakeNext]_wakeVars

-----------------------------------------------------------------------------
\* The PC does not fall asleep before the latest deadline of a call that got a hold
\* (wake.go:340-390: a call that finds a hold extends it, and the hold looks at the
\* deadline again at every tick); and a PC that reports that it checks in has a task
\* that wakes it, at the interval of its settings brought within the limits (wake.go:292-324,
\* platform_windows.go:145-196), unless Apply failed, which is only logged, or another
\* process has applied other settings since.
WakeIsHonest ==
    /\ power = "asleep" => hour > promise
    /\ method = "checkin" /\ ~failed /\ ~overridden =>
          \A m \in manager : [every |-> Every(m), wakes |-> TRUE] \in schedule
=============================================================================
