---------------------------- MODULE MCPairStore ----------------------------
(***************************************************************************)
(* TLC instance of the three stores of the server.  They share nothing, so *)
(* each behaviour is one of one store (part) while the others are at rest. *)
(*                                                                         *)
(* PairStore: two windows at most, three PCs and three codes: PCs replace  *)
(* their windows, run into the limit and let windows expire.  Registry:    *)
(* two devices that two clients pair with, more than fit in a list; writes *)
(* fail and the server restarts.  Limiter: three keys, room for fewer.     *)
(***************************************************************************)
EXTENDS PairStore, Registry, Limiter

VARIABLE part  \* the store that works

Parts == {"windows", "registry", "limiter"}

mcVars == <<vars, registryVars, limiterVars, part>>

MCInit ==
    /\ Init /\ RegistryInit /\ LimiterInit
    /\ part \in Parts

MCNext ==
    \/ /\ part = "windows" /\ Next
       /\ UNCHANGED <<registryVars, limiterVars, part>>
    \/ /\ part = "registry" /\ RegistryNext
       /\ UNCHANGED <<vars, limiterVars, part>>
    \/ /\ part = "limiter" /\ LimiterNext
       /\ UNCHANGED <<vars, registryVars, part>>

\* At rest the server has not been started: nothing of it that is fair is enabled.
MCSpec == MCInit /\ [][MCNext]_mcVars /\ RegistryFairness

-----------------------------------------------------------------------------
\* Every variable of the stores has its type: what a call leaves behind, and what a
\* restart reads back, is always a state the code was written for.
TypesOK == TypeOK /\ RegistryTypeOK /\ LimiterTypeOK
=============================================================================
