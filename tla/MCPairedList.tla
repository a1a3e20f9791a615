---------------------------- MODULE MCPairedList ----------------------------
(***************************************************************************)
(* TLC instance of PairedList: the running agent, the command "pair" and   *)
(* a command on one data directory.                                        *)
(***************************************************************************)
EXTENDS PairedList, TLC

CONSTANTS c1, c2, c3, run, pair, command

Symmetry == Permutations({c1, c2, c3})
=============================================================================
