---------------------------- MODULE LeaseRegistry ----------------------------
(***************************************************************************)
(* What POST, DELETE and GET /prefix/ promise to the experiments, with no  *)
(* database and no process in sight: an experiment holds at most one lease *)
(* (a load-balancer address, a subnet and an expiration time), a live      *)
(* lease is never replaced, and two live leases share neither address nor  *)
(* subnet.  The SQLite allocator (module Allocations) is shown to          *)
(* implement this specification when one process serves the requests.      *)
(***************************************************************************)
EXTENDS Integers

CONSTANTS
  Experiments,  \* experiment identifiers, the "sub" claim of the token
  PoolIps,      \* load-balancer addresses
  PoolSubnets,  \* subnets
  Times,        \* expiration times
  MaxTime       \* bound on the clock

VARIABLES
  held,  \* the leases the experiments have been told of
  now    \* the clock, in the unit of the leases' duration

registryVars == <<held, now>>

Lease == [experiment_id : Experiments, ip : PoolIps, prefix : PoolSubnets,
          expiration_time : Times]

IsLive(l) == l.expiration_time >= now

\* Two leases that one tenant could not use beside the other.
Overlap(l, m) == l.ip = m.ip \/ l.prefix = m.prefix

RegistryInit == held = {} /\ now = 0

(***************************************************************************)
(* An experiment is told its lease.  A live lease of its own is repeated   *)
(* unchanged; any other lease must keep clear of what is live elsewhere.   *)
(***************************************************************************)
Tell(l) ==
  /\ \A m \in held : IsLive(m) =>
       IF m.experiment_id = l.experiment_id THEN m = l ELSE ~Overlap(l, m)
  /\ held' = {m \in held : m.experiment_id # l.experiment_id} \cup {l}
  /\ UNCHANGED now

Release(x) ==
  /\ held' = {m \in held : m.experiment_id # x}
  /\ UNCHANGED now

Elapse == now < MaxTime /\ now' = now + 1 /\ UNCHANGED held

RegistryNext ==
  \/ \E l \in Lease : Tell(l)
  \/ \E x \in Experiments : Release(x)
  \/ Elapse

RegistrySpec == RegistryInit /\ [][RegistryNext]_registryVars

(***************************************************************************)
(* Two experiments never hold live leases of the same address or subnet.   *)
(***************************************************************************)
HeldExclusive ==
  \A l, m \in held : l # m /\ IsLive(l) /\ IsLive(m) => ~Overlap(l, m)
==============================================================================
