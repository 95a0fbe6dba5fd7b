----------------------------- MODULE MCPosScripts -----------------------------
(***************************************************************************)
(* A small instance of PosScripts for TLC: two neighbouring subnets, so    *)
(* that an address past the end of one is in the other.                    *)
(***************************************************************************)
EXTENDS PosScripts, TLC

FirstSubnets == {32, 64}
ShortTimes == {0, 1}

\* The params.5g.yaml of an archive that was made for the second subnet.
OldParams == {genIPs(64)}

Symmetry == Permutations(Commands) \cup Permutations(Experiments) \cup Permutations(PoolIps)
=============================================================================
