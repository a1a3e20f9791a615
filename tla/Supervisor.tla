----------------------------- MODULE Supervisor -----------------------------
(***************************************************************************)
(* The Windows service, agent/cmd/allshare-agent/service_windows.go: it    *)
(* keeps the agent (the helper) running in the session that owns the       *)
(* console.  Execute takes the requests of Windows, in order; Run launches *)
(* the helper, waits for it, kills it and pauses; a channel of requests to *)
(* restart joins them.                                                     *)
(*                                                                         *)
(* Windows is outside: sessions come and go, and each change is reported.  *)
(* A killed process is gone before the next is launched (the 300 ms of     *)
(* kill).  The lengths of the pauses are left out.                         *)
(***************************************************************************)
EXTENDS Naturals

CONSTANTS Desktops,      \* sessions that can own the console, or none of them
          NoDesktop,
          RestartSlots,  \* capacity of hostSupervisor.restart
          MaxChanges,    \* bound: changes of the console's session
          MaxExits,      \* bound: helpers that end by themselves
          MaxCrashes     \* bound: crashes of the service

ASSUME SupervisorAssumption ==
    /\ NoDesktop \notin Desktops
    /\ RestartSlots \in Nat \ {0}
    /\ MaxChanges \in Nat /\ MaxExits \in Nat /\ MaxCrashes \in Nat

VARIABLES
    console,  \* the session that owns the console
    changed,  \* counter of the bound
    reports,  \* changes Execute has not taken
    restart,  \* requests in hostSupervisor.restart
    run,      \* where Run is
    target,   \* the session launchInActiveSession has found
    helpers,  \* helpers that run, by their sessions: one set for each that Run started
    process,  \* hostSupervisor.process: the helper's session, if Run has one
    service,  \* the service: "running", "stopping", "stopped" or "dead"
    exits, crashes, \* counters of the bounds
    orphans,  \* helpers of a service that died
    hurried   \* history: Wait gave up before Run had ended

supervisorVars == <<console, changed, reports, restart, run, target, helpers, process,
                    service, exits, crashes, orphans, hurried>>

Consoles == Desktops \cup {NoDesktop}
Alive == service \in {"running", "stopping"}

SupervisorTypeOK ==
    /\ console \in Consoles /\ target \in Consoles /\ process \in Consoles
    /\ changed \in 0..MaxChanges /\ reports \in 0..MaxChanges
    /\ restart \in 0..RestartSlots
    /\ run \in {"top", "launching", "waiting", "killing", "leaving", "pausing", "over"}
    /\ helpers \subseteq Desktops /\ helpers \subseteq {process}
    /\ service \in {"running", "stopping", "stopped", "dead"}
    /\ exits \in 0..MaxExits /\ crashes \in 0..MaxCrashes /\ orphans \in 0..MaxCrashes
    /\ hurried \in BOOLEAN

SupervisorInit ==
    /\ console = NoDesktop /\ changed = 0 /\ reports = 0
    /\ restart = 0 /\ run = "top" /\ target = NoDesktop
    /\ helpers = {} /\ process = NoDesktop
    /\ service = "running"
    /\ exits = 0 /\ crashes = 0 /\ orphans = 0 /\ hurried = FALSE

-----------------------------------------------------------------------------
\* Windows.

\* A sign-in, a sign-out, a switch of users, or a lock or unlock of the same session.
DesktopChanges ==
    /\ changed < MaxChanges /\ changed' = changed + 1
    /\ console' \in Consoles
    /\ reports' = reports + 1
    \* The processes of a session that is signed out go with it.
    /\ helpers' \in {helpers, helpers \cap {console'}}
    /\ UNCHANGED <<restart, run, target, process, service, exits, crashes, orphans, hurried>>

HelperExits ==
    /\ helpers # {} /\ exits < MaxExits
    /\ helpers' = {} /\ exits' = exits + 1
    /\ UNCHANGED <<console, changed, reports, restart, run, target, process, service,
                   crashes, orphans, hurried>>

\* The service is killed; its helper runs on.  Windows starts it again.
ServiceDies ==
    /\ Alive /\ crashes < MaxCrashes
    /\ crashes' = crashes + 1 /\ service' = "dead"
    /\ orphans' = IF helpers # {} THEN orphans + 1 ELSE orphans
    /\ helpers' = {} /\ process' = NoDesktop /\ restart' = 0 /\ reports' = 0 /\ run' = "over"
    /\ UNCHANGED <<console, changed, target, exits, hurried>>

ServiceStarts ==
    /\ service = "dead" /\ service' = "running" /\ run' = "top"
    /\ UNCHANGED <<console, changed, reports, restart, target, helpers, process, exits,
                   crashes, orphans, hurried>>

-----------------------------------------------------------------------------
\* Execute.

\* A change of session: Restart, which drops the request when the channel is full.
SessionChange ==
    /\ service = "running" /\ reports > 0
    /\ reports' = reports - 1
    /\ restart' = IF restart < RestartSlots THEN restart + 1 ELSE restart
    /\ UNCHANGED <<console, changed, run, target, helpers, process, service, exits,
                   crashes, orphans, hurried>>

\* Stop or Shutdown: the context is cancelled ...
Stop ==
    /\ service = "running" /\ service' = "stopping"
    /\ UNCHANGED <<console, changed, reports, restart, run, target, helpers, process, exits,
                   crashes, orphans, hurried>>

\* ... and Wait waits until Run has ended, for five seconds at most.
WaitReturns ==
    /\ service = "stopping" /\ service' = "stopped"
    /\ hurried' = (run # "over")
    /\ run' = "over"
    /\ UNCHANGED <<console, changed, reports, restart, target, helpers, process, exits,
                   crashes, orphans>>

-----------------------------------------------------------------------------
\* Run.

Cancelled == service = "stopping"

\* The head of the loop.
Top ==
    /\ Alive /\ run = "top"
    /\ run' = IF Cancelled THEN "leaving" ELSE "launching"
    /\ target' = console
    /\ UNCHANGED <<console, changed, reports, restart, helpers, process, service, exits,
                   crashes, orphans, hurried>>

\* Mutant: requests that came before the launch are taken for out of date.
Launch_Drains ==
    /\ Alive /\ run = "launching" /\ target # NoDesktop
    /\ helpers' = helpers \cup {target} /\ process' = target
    /\ run' = "waiting" /\ restart' = 0
    /\ UNCHANGED <<console, changed, reports, target, service, exits, crashes, orphans, hurried>>

\* The token of the session's user is there, and CreateProcessAsUser succeeds.
Launch ==
    /\ Alive /\ run = "launching" /\ target # NoDesktop
    /\ helpers' = helpers \cup {target} /\ process' = target
    /\ run' = "waiting"
    /\ UNCHANGED <<console, changed, reports, restart, target, service, exits, crashes, orphans, hurried>>

\* Nobody is signed in, or a call fails.
LaunchFails ==
    /\ Alive /\ run = "launching" /\ run' = "killing"
    /\ UNCHANGED <<console, changed, reports, restart, target, helpers, process, service,
                   exits, crashes, orphans, hurried>>

\* launchAndWait returns: the context, a request, or the end of the helper.
WaitEnds ==
    /\ Alive /\ run = "waiting" /\ run' = "killing"
    /\ \/ (Cancelled \/ process \notin helpers) /\ UNCHANGED restart
       \/ restart > 0 /\ restart' = restart - 1
    /\ UNCHANGED <<console, changed, reports, target, helpers, process, service, exits,
                   crashes, orphans, hurried>>

\* Mutant: Run returns at once when the context is cancelled.
Kill_NotWhenCancelled ==
    /\ Alive /\ run \in {"killing", "leaving"}
    /\ IF Cancelled THEN UNCHANGED helpers ELSE helpers' = helpers \ {process}
    /\ process' = NoDesktop
    /\ run' = IF run = "leaving" \/ Cancelled THEN "over" ELSE "pausing"
    /\ UNCHANGED <<console, changed, reports, restart, target, service, exits, crashes, orphans, hurried>>

\* kill, and the look at the context after it.
Kill ==
    /\ Alive /\ run \in {"killing", "leaving"}
    /\ helpers' = helpers \ {process} /\ process' = NoDesktop
    /\ run' = IF run = "leaving" \/ Cancelled THEN "over" ELSE "pausing"
    /\ UNCHANGED <<console, changed, reports, restart, target, service, exits, crashes, orphans, hurried>>

\* The pause ends by itself, by a request, or with the context.
Pause ==
    /\ Alive /\ run = "pausing"
    /\ \/ Cancelled /\ run' = "over" /\ UNCHANGED restart
       \/ run' = "top" /\ restart' \in {restart, IF restart > 0 THEN restart - 1 ELSE restart}
    /\ UNCHANGED <<console, changed, reports, target, helpers, process, service, exits,
                   crashes, orphans, hurried>>

SupervisorRun == Top \/ Launch \/ LaunchFails \/ WaitEnds \/ Kill \/ Pause

SupervisorNext ==
    \/ DesktopChanges \/ HelperExits \/ ServiceDies \/ ServiceStarts
    \/ SessionChange \/ Stop \/ WaitReturns \/ SupervisorRun

\* Run and Execute are scheduled, Windows restarts the service, and launches do not
\* fail for ever.
SupervisorFairness ==
    /\ WF_supervisorVars(SupervisorRun) /\ SF_supervisorVars(Launch)
    /\ WF_supervisorVars(SessionChange) /\ WF_supervisorVars(ServiceStarts)

SupervisorSpec ==
    SupervisorInit /\ [][SupervisorNext]_supervisorVars /\ SupervisorFairness

-----------------------------------------------------------------------------
\* When sessions come and go no more, there is one helper and it runs in the session that
\* owns the console (service_windows.go:9-12), though requests to restart are dropped when
\* there are too many, and the session was read before the launch.  No helper is left when
\* the service has stopped, unless Run needed more than the five seconds of Wait.
HelperFollows ==
    <>[](/\ service = "running" /\ console # NoDesktop => helpers = {console}
         /\ service = "stopped" /\ ~hurried => helpers = {})
=============================================================================
