---------------------------- MODULE MCAllocations ----------------------------
(***************************************************************************)
(* Small instances of Allocations for TLC.                                 *)
(***************************************************************************)
EXTENDS Allocations, TLC

\* Durations are never checked: negative ones are accepted too.
AnyDurations == {-1, 2}
\* What a client that means it asks for.
UsefulDurations == {0, 2}

PoolSymmetry == Permutations(PoolIps) \cup Permutations(PoolSubnets)
\* Only without scripts, whose experiments are not any experiments.
Symmetry == PoolSymmetry \cup Permutations(Experiments)
=============================================================================
