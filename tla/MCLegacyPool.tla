---------------------------- MODULE MCLegacyPool ----------------------------
(***************************************************************************)
(* Small instances of LegacyPool for TLC.                                  *)
(***************************************************************************)
EXTENDS LegacyPool

ThreeSubnets == <<"net1", "net2", "net3">>
TwoIps == <<"ip1", "ip2">>
TwoSubnets == <<"net1", "net2">>

Symmetry == Permutations(Experiments) \cup Permutations(Requests)
=============================================================================
