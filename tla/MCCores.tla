------------------------------- MODULE MCCores -------------------------------
(***************************************************************************)
(* Small instances of Cores for TLC.                                       *)
(***************************************************************************)
EXTENDS Cores, TLC

Symmetry == Permutations(Requests) \cup Permutations(Ids)
=============================================================================
