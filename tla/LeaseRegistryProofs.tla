------------------------- MODULE LeaseRegistryProofs -------------------------
(***************************************************************************)
(* The promise of LeaseRegistry keeps live leases exclusive.               *)
(***************************************************************************)
EXTENDS LeaseRegistry, TLAPS

HeldTyped == held \subseteq Lease /\ now \in Int

HeldInv == HeldTyped /\ HeldExclusive

\* Telling a lease that keeps clear of the live ones of others is enough.
LEMMA TellKeepsExclusive ==
  ASSUME HeldInv, NEW l \in Lease, Tell(l)
  PROVE  HeldInv'
<1>1. HeldTyped'
  BY DEF HeldInv, HeldTyped, Tell
<1>2. ASSUME NEW m \in held, m.experiment_id # l.experiment_id, IsLive(m)
      PROVE  ~Overlap(l, m) /\ ~Overlap(m, l)
  BY <1>2 DEF Tell, Overlap
<1>3. \A m : IsLive(m)' <=> IsLive(m)
  BY DEF Tell, IsLive
<1>4. held' = {m \in held : m.experiment_id # l.experiment_id} \cup {l}
  BY DEF Tell
<1> QED BY <1>1, <1>2, <1>3, <1>4 DEF HeldInv, HeldExclusive

\* Every step keeps the live leases exclusive.
LEMMA HeldNext ==
  ASSUME Times \subseteq Int
  PROVE  HeldInv /\ [RegistryNext]_registryVars => HeldInv'
<1> SUFFICES ASSUME HeldInv, [RegistryNext]_registryVars PROVE HeldInv'
  OBVIOUS
<1>1. ASSUME NEW l \in Lease, Tell(l) PROVE HeldInv'
  BY <1>1, TellKeepsExclusive
<1>2. ASSUME NEW x \in Experiments, Release(x) PROVE HeldInv'
  BY <1>2 DEF Release, HeldInv, HeldTyped, HeldExclusive, IsLive, Overlap
<1>3. CASE Elapse
  <2>1. \A l \in held : IsLive(l)' => IsLive(l)
    <3>1. now \in Int /\ \A l \in held : l.expiration_time \in Int
      BY DEF HeldInv, HeldTyped, Lease
    <3> QED BY <1>3, <3>1 DEF Elapse, IsLive
  <2> QED BY <1>3, <2>1 DEF Elapse, HeldInv, HeldTyped, HeldExclusive, Overlap
<1>4. CASE UNCHANGED registryVars
  BY <1>4 DEF registryVars, HeldInv, HeldTyped, HeldExclusive, IsLive, Overlap
<1> QED BY <1>1, <1>2, <1>3, <1>4 DEF RegistryNext

(***************************************************************************)
(* A service that keeps the promise never lets two experiments hold live   *)
(* leases of the same address or subnet.                                   *)
(***************************************************************************)
THEOREM HeldExclusiveAlways ==
  ASSUME Times \subseteq Int
  PROVE  RegistrySpec => []HeldExclusive
<1>1. RegistryInit => HeldInv
  BY DEF RegistryInit, HeldInv, HeldTyped, HeldExclusive
<1>2. HeldInv => HeldExclusive
  BY DEF HeldInv
<1> QED BY <1>1, <1>2, HeldNext, PTL DEF RegistrySpec
=============================================================================
