--------------------------- MODULE MCInputChannel ---------------------------
(***************************************************************************)
(* TLC instances of InputChannel, and of Supervisor beside it: the two     *)
(* parts of the PC with something that must happen in the end.  They share *)
(* nothing, so each behaviour is one of one part while the other is at     *)
(* rest.                                                                   *)
(*                                                                         *)
(* InputChannel: a key, a button, and two packets on the way, so that one  *)
(* can be lost or overtaken while the other arrives.  Supervisor: two      *)
(* users, more changes of session than requests fit in the channel, a      *)
(* crash of the service and a helper that ends by itself.                  *)
(***************************************************************************)
EXTENDS InputChannel, Supervisor

CONSTANTS k1, b1

VARIABLE part  \* the part that works

MCInit ==
    /\ Init /\ SupervisorInit
    /\ part \in {"input", "service"}

MCNext ==
    \/ part = "input" /\ Next /\ UNCHANGED <<supervisorVars, part>>
    \/ part = "service" /\ SupervisorNext /\ UNCHANGED <<vars, part>>

\* Fairness is asked of the part that works: input at rest enables nothing that is
\* fair, but the service at rest could start.
ServiceFairness ==
    /\ WF_supervisorVars(part = "service" /\ SupervisorRun)
    /\ SF_supervisorVars(part = "service" /\ Launch)
    /\ WF_supervisorVars(part = "service" /\ SessionChange)
    /\ WF_supervisorVars(part = "service" /\ ServiceStarts)

MCSpec == MCInit /\ [][MCNext]_<<vars, supervisorVars, part>> /\ Fairness /\ ServiceFairness

-----------------------------------------------------------------------------
\* Every variable of the two parts has its type; in particular nothing is left to be
\* injected when no packet is being applied, and Run has one helper at most.
TypesOK == TypeOK /\ SupervisorTypeOK
=============================================================================
