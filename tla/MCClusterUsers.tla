---------------------------- MODULE MCClusterUsers ----------------------------
(***************************************************************************)
(* A small instance of ClusterUsers for TLC.                               *)
(***************************************************************************)
EXTENDS ClusterUsers, TLC

Symmetry == Permutations(Users) \cup Permutations(Runs)
=============================================================================
