------------------------------ MODULE Displays -----------------------------
(***************************************************************************)
(* The displays of the PC as five parts of a session see them: the list a  *)
(* source takes when it is opened (internal/capture/windows.go), the       *)
(* display the capture thread duplicates (agent/native/session.cpp and     *)
(* duplication.cpp), the rectangle of the injector that clicks are mapped  *)
(* onto (internal/input/input_windows.go), the list pumpStats compares     *)
(* with, and the picker of the client (internal/session/session.go).       *)
(*                                                                         *)
(* A display has an index and a place (position and size); the index is    *)
(* what a client selects.  One adapter is modelled, one selection is       *)
(* handled at a time, and the desktop can always be duplicated.            *)
(***************************************************************************)
EXTENDS Naturals

CONSTANTS
    Places,          \* positions and sizes
    Indexes,         \* indexes of displays
    MaxArrangements, \* bound: changes of the displays
    MaxSelections,   \* bound: selections of the client
    MaxBacklogs      \* bound: messages dropped because the channel is behind

ASSUME DisplaysAssumption ==
    /\ Indexes \subseteq Nat /\ 0 \in Indexes
    /\ MaxArrangements \in Nat /\ MaxSelections \in Nat /\ MaxBacklogs \in Nat

VARIABLES
    displays,   \* what Windows has
    listed,     \* windowsSource.monitors, none before Open
    want,       \* want_monitor_
    remake,    \* geometry_dirty_
    rebuilding, \* the index that a Rebuild under way has read
    lost,       \* the duplication is of displays that were changed since
    captured,   \* the place that is duplicated
    rect,       \* the injector's rectangle
    selecting,  \* onCtrlMessage is in SetMonitor
    compared,   \* lastMonitors of pumpStats, none before the client is connected
    greeted,    \* the control channel is open and Hello was sent
    picker,     \* the list the client has
    crossed,    \* history: a selection was made while a Rebuild had read another
    misled,     \* history: the last list sent was not the one compared, or was dropped
    arrangements, selections, backlogs \* counters of the bounds

sourceVars == <<listed, want, remake, rebuilding, lost, captured, crossed>>
pickerVars == <<compared, greeted, picker, misled, backlogs>>
displayVars == <<sourceVars, pickerVars, displays, rect, selecting, arrangements, selections>>

Arrangements == UNION {[shown -> Places] : shown \in SUBSET Indexes \ {{}}}

DisplaysTypeOK ==
    /\ displays \in Arrangements /\ listed \subseteq Arrangements /\ compared \subseteq Arrangements
    /\ picker \subseteq Arrangements
    /\ want \in Indexes /\ rebuilding \subseteq Indexes
    /\ remake \in BOOLEAN /\ lost \in BOOLEAN /\ selecting \in BOOLEAN
    /\ greeted \in BOOLEAN /\ crossed \in BOOLEAN /\ misled \in BOOLEAN
    /\ captured \subseteq Places /\ rect \subseteq Places
    /\ arrangements \in 0..MaxArrangements /\ selections \in 0..MaxSelections
    /\ backlogs \in 0..MaxBacklogs

DisplaysInit ==
    /\ displays \in {a \in Arrangements : 0 \in DOMAIN a}
    /\ listed = {} /\ want = 0 /\ remake = FALSE /\ rebuilding = {} /\ lost = FALSE
    /\ captured = {} /\ rect = {} /\ selecting = FALSE
    /\ compared = {} /\ greeted = FALSE /\ picker = {}
    /\ crossed = FALSE /\ misled = FALSE
    /\ arrangements = 0 /\ selections = 0 /\ backlogs = 0

\* Duplicator::Create: the display of the index, or the first one.
Found(index) == IF index \in DOMAIN displays THEN {displays[index]}
                ELSE IF 0 \in DOMAIN displays THEN {displays[0]} ELSE {}

\* The rectangle of an index in a list; a list without it leaves the rectangle alone.
RectOf(list, index) == IF index \in DOMAIN list THEN {list[index]} ELSE rect

-----------------------------------------------------------------------------
\* A screen is plugged in, unplugged, moved or resized.
Rearranged ==
    /\ arrangements < MaxArrangements /\ arrangements' = arrangements + 1
    /\ displays' \in Arrangements \ {displays}
    /\ lost' = (listed # {})
    /\ UNCHANGED <<listed, want, remake, rebuilding, captured, crossed, pickerVars, rect,
                   selecting, selections>>

\* openSource, with Provider.Open.  It fails, and the session ends, without a first display.
OpenSource ==
    /\ listed = {} /\ 0 \in DOMAIN displays
    /\ listed' = {displays}
    /\ captured' = Found(0) /\ rect' = RectOf(displays, 0)
    /\ UNCHANGED <<want, remake, rebuilding, lost, crossed, pickerVars, displays, selecting,
                   arrangements, selections>>

-----------------------------------------------------------------------------
\* The capture thread: Rebuild reads the index first and clears the mark last, whoever
\* set it meanwhile.
RebuildBegins ==
    /\ listed # {} /\ rebuilding = {} /\ (remake \/ lost)
    /\ rebuilding' = {want} /\ crossed' = FALSE /\ lost' = FALSE
    /\ \E index \in rebuilding' : captured' = Found(index)
    /\ UNCHANGED <<listed, want, remake, pickerVars, displays, rect, selecting, arrangements,
                   selections>>

\* Without a display to duplicate it fails and is tried again (Video has the end of that).
RebuildEnds ==
    /\ rebuilding # {} /\ rebuilding' = {}
    /\ IF captured = {} THEN lost' = TRUE /\ UNCHANGED remake
                        ELSE remake' = FALSE /\ UNCHANGED lost
    /\ UNCHANGED <<listed, want, captured, crossed, pickerVars, displays, rect, selecting,
                   arrangements, selections>>

-----------------------------------------------------------------------------
\* The session.

\* onConnected: pumpStats begins with the displays of this moment.
Connected ==
    /\ compared = {} /\ compared' = {displays}
    /\ misled' = (misled \/ (greeted /\ picker # compared'))
    /\ UNCHANGED <<sourceVars, greeted, picker, backlogs, displays, rect, selecting,
                   arrangements, selections>>

\* maybeSendHello, when the channel is open and the source is there: the list of the source.
SayHello ==
    /\ listed # {} /\ ~greeted
    /\ greeted' = TRUE /\ picker' = listed
    /\ misled' = (compared # {} /\ listed # compared)
    /\ UNCHANGED <<sourceVars, compared, backlogs, displays, rect, selecting, arrangements, selections>>

\* sendCtrlJSON with a list: nobody hears of a message that is dropped.
Tell(list) ==
    \/ greeted /\ picker' = list /\ misled' = (list # compared') /\ UNCHANGED backlogs
    \/ ~greeted /\ misled' = TRUE /\ UNCHANGED <<picker, backlogs>>
    \/ /\ greeted /\ backlogs < MaxBacklogs /\ backlogs' = backlogs + 1
       /\ misled' = TRUE /\ UNCHANGED picker

\* pumpStats, every fourth tick.
CheckMonitorChanges ==
    /\ listed # {} /\ compared # {} /\ displays \notin compared
    /\ compared' = {displays}
    /\ Tell({displays})
    /\ UNCHANGED <<sourceVars, greeted, displays, rect, selecting, arrangements, selections>>

\* onCtrlMessage, SelectMonitor: SetMonitor marks the change, unless it is the same index.
SelectMonitor(index) ==
    /\ greeted /\ ~selecting /\ selections < MaxSelections /\ selections' = selections + 1
    /\ \E list \in picker : index \in DOMAIN list
    /\ selecting' = TRUE
    /\ want' = index
    /\ remake' = (remake \/ index # want)
    /\ crossed' = (crossed \/ (rebuilding # {} /\ index # want))
    /\ UNCHANGED <<listed, rebuilding, lost, captured, pickerVars, displays, rect, arrangements>>

\* Mutant: the rectangle is left alone.
MonitorSelected_KeepsRect ==
    /\ selecting /\ selecting' = FALSE
    /\ UNCHANGED compared /\ Tell(listed)
    /\ UNCHANGED <<sourceVars, greeted, displays, rect, arrangements, selections>>

\* The rest, 150 ms later: the rectangle and the answer are from the list of the source.
MonitorSelected ==
    /\ selecting /\ selecting' = FALSE
    /\ \E list \in listed : rect' = RectOf(list, want)
    /\ UNCHANGED compared /\ Tell(listed)
    /\ UNCHANGED <<sourceVars, greeted, displays, arrangements, selections>>

DisplaysNext ==
    \/ Rearranged \/ OpenSource \/ RebuildBegins \/ RebuildEnds
    \/ Connected \/ SayHello \/ CheckMonitorChanges
    \/ \E index \in Indexes : SelectMonitor(index)
    \/ MonitorSelected

DisplaysSpec == DisplaysInit /\ [][DisplaysNext]_displayVars

-----------------------------------------------------------------------------
\* A click lands on the display that is shown: once a selection and a rebuild are over,
\* the injector's rectangle is the place that is captured (session.go:625-636, 1131-1145),
\* while the displays are as they were listed and no selection fell into a rebuild.  And
\* a client that was greeted has the displays in its picker (session.go:926-941), unless
\* they changed between the opening and the connection, a selection was answered from the
\* old list, or the message was dropped.
DisplaysAgree ==
    /\ ~remake /\ ~lost /\ rebuilding = {} /\ ~selecting /\ ~crossed
       /\ listed = {displays} /\ want \in DOMAIN displays => rect = captured
    /\ greeted /\ compared = {displays} /\ ~misled => picker = {displays}
=============================================================================
