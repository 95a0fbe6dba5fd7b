----------------------------- MODULE Allocations -----------------------------
(***************************************************************************)
(* The SQLite allocator of ips/allocations.py and the /prefix/ handlers of *)
(* ips/api.py that call it.  Every process that opens network_data.db (the *)
(* server, and the script that allocations.py is when it is run by itself) *)
(* executes one request at a time, one SQL statement per step, so a crash, *)
(* the clock or another process may come between two statements.           *)
(***************************************************************************)
EXTENDS Integers, FiniteSets

CONSTANTS
  Servers,            \* processes that run ips/api.py
  Scripts,            \* processes that run ips/allocations.py as a script
  Experiments,        \* experiment identifiers
  ScriptExperiments,  \* the xp_0, xp_1, ... of the script
  PoolIps,            \* "ips" of pool.json
  PoolSubnets,        \* "subnets" of pool.json
  Durations,          \* durations a request may ask for: any int is accepted
  MaxTime,            \* bound on the clock
  MaxCrashes,         \* bound on the number of crashes
  DbErrors,           \* may a statement or a commit fail (locked file, full disk)?
  None                \* an unset field of a frame

Procs == Servers \cup Scripts

ASSUME ProcsAssumption == Servers \cap Scripts = {}
ASSUME ExperimentsAssumption == ScriptExperiments \subseteq Experiments /\ None \notin Experiments
ASSUME PoolAssumption ==
  /\ IsFiniteSet(PoolIps) /\ None \notin PoolIps
  /\ IsFiniteSet(PoolSubnets) /\ None \notin PoolSubnets
ASSUME BoundsAssumption ==
  Durations \subseteq Int /\ MaxTime \in Nat /\ MaxCrashes \in Nat /\ DbErrors \in BOOLEAN

VARIABLES
  ips,          \* table ips
  subnets,      \* table subnets
  allocations,  \* table allocations
  now,          \* the clock
  pc,           \* the statement each process is about to execute
  row,          \* the local variables of the request each process serves
  arrival,      \* when that request was accepted
  reply,        \* the status of the last answer of each process
  leases,       \* the last lease each experiment was told, until it asks for its release
  crashes       \* crashes so far

tables == <<ips, subnets, allocations>>
vars == <<ips, subnets, allocations, now, pc, row, arrival, reply, leases, crashes>>

ExpirationTimes == {t + duration : t \in 0..MaxTime, duration \in Durations}

Allocation == [experiment_id : Experiments, ip : PoolIps, prefix : PoolSubnets,
               expiration_time : ExpirationTimes]

Frame == [experiment_id : Experiments \cup {None}, ip : PoolIps \cup {None},
          prefix : PoolSubnets \cup {None}, expiration_time : ExpirationTimes \cup {0}]

NoRow == [experiment_id |-> None, ip |-> None, prefix |-> None, expiration_time |-> 0]

FrameOf(x) == [NoRow EXCEPT !.experiment_id = x]

Labels == {"down", "add_ips", "add_subnets", "idle", "post_purge", "get_purge",
           "script_purge", "lookup", "pick_ip", "pick_prefix", "insert", "answer",
           "delete", "deleted", "not_deleted", "list"}

Init ==
  /\ ips = {} /\ subnets = {} /\ allocations = {}
  /\ now = 0 /\ leases = {} /\ crashes = 0
  /\ pc = [p \in Procs |-> "down"]
  /\ row = [p \in Procs |-> NoRow]
  /\ arrival = [p \in Procs |-> 0]
  /\ reply = [p \in Procs |-> "none"]

-----------------------------------------------------------------------------
(***************************************************************************)
(* The queries.                                                            *)
(***************************************************************************)
\* Slip: the NOT IN clause is lost.
AnyIp == ips

\* ips WHERE ip_address NOT IN (SELECT ip FROM allocations)
FreeIps == ips \ {a.ip : a \in allocations}
\* subnets WHERE subnet NOT IN (SELECT prefix FROM allocations)
FreeSubnets == subnets \ {a.prefix : a \in allocations}

\* Slip: <= for <.
ExpiredOnTheDot(a) == a.expiration_time <= now
\* expiration_time < CURRENT_TIMESTAMP
Expired(a) == a.expiration_time < now

RowsOf(x) == {a \in allocations : a.experiment_id = x}

\* Slip: of the UNIQUE columns only experiment_id is left.
ConflictOnExperiment(r) ==
  RowsOf(r.experiment_id) # {} \/ r.ip \notin ips \/ r.prefix \notin subnets

\* INSERT INTO allocations raises IntegrityError: a UNIQUE column or a foreign key
Conflict(r) ==
  \/ \E a \in allocations :
       a.ip = r.ip \/ a.prefix = r.prefix \/ a.experiment_id = r.experiment_id
  \/ r.ip \notin ips
  \/ r.prefix \notin subnets

-----------------------------------------------------------------------------
(***************************************************************************)
(* Control flow shared by the actions.                                     *)
(***************************************************************************)
Goto(p, label) == pc' = [pc EXCEPT ![p] = label]

SetRow(p, r) == row' = [row EXCEPT ![p] = r]

\* The request of p ends with this status; its frame is gone.
Finish(p, status) ==
  /\ Goto(p, "idle") /\ SetRow(p, NoRow)
  /\ arrival' = [arrival EXCEPT ![p] = 0]
  /\ reply' = [reply EXCEPT ![p] = status]

\* p accepts a request for experiment x and goes to its first statement.
Begin(p, label, x) ==
  /\ pc[p] = "idle"
  /\ Goto(p, label) /\ SetRow(p, FrameOf(x))
  /\ arrival' = [arrival EXCEPT ![p] = now]
  /\ reply' = [reply EXCEPT ![p] = "none"]
  /\ UNCHANGED <<tables, now, crashes>>

\* The next statement of the same request.
Continue(p, label, r) ==
  /\ Goto(p, label) /\ SetRow(p, r)
  /\ UNCHANGED <<now, arrival, reply, leases, crashes>>

\* sqlite3.Error in get_allocation: it returns None, which the handler subscripts.
Fail(p) ==
  /\ DbErrors
  /\ Finish(p, "500")
  /\ UNCHANGED <<tables, now, leases, crashes>>

-----------------------------------------------------------------------------
(***************************************************************************)
(* Start: create_db() creates the tables, then adds the addresses and the  *)
(* subnets of pool.json in a transaction each.                             *)
(***************************************************************************)
Boot(p) ==
  /\ pc[p] = "down"
  /\ Goto(p, "add_ips")
  /\ UNCHANGED <<tables, now, row, arrival, reply, leases, crashes>>

AddIps(p) ==
  /\ pc[p] = "add_ips"
  /\ ips' = ips \cup PoolIps
  /\ Goto(p, "add_subnets")
  /\ UNCHANGED <<subnets, allocations, now, row, arrival, reply, leases, crashes>>

AddSubnets(p) ==
  /\ pc[p] = "add_subnets"
  /\ subnets' = subnets \cup PoolSubnets
  /\ Goto(p, IF p \in Servers THEN "idle" ELSE "script_purge")
  /\ UNCHANGED <<ips, allocations, now, row, arrival, reply, leases, crashes>>

Down(p) ==
  /\ Goto(p, "down") /\ SetRow(p, NoRow)
  /\ arrival' = [arrival EXCEPT ![p] = 0]
  /\ UNCHANGED <<tables, now, leases>>

\* A kill, or an exception nobody catches during the start.  What is not
\* committed is rolled back; the answer is lost.
Crash(p) ==
  /\ pc[p] # "down" /\ crashes < MaxCrashes
  /\ crashes' = crashes + 1
  /\ reply' = [reply EXCEPT ![p] = "none"]
  /\ Down(p)

\* The script has made all its calls.
ScriptExit(p) ==
  /\ p \in Scripts /\ pc[p] = "idle"
  /\ Down(p)
  /\ UNCHANGED <<reply, crashes>>

-----------------------------------------------------------------------------
(***************************************************************************)
(* Requests.                                                               *)
(***************************************************************************)
\* Slip: the handler forgets remove_expired_allocations().
BeginPostWithoutPurge(p, x) ==
  p \in Servers /\ Begin(p, "lookup", x) /\ UNCHANGED leases

BeginPost(p, x) ==
  p \in Servers /\ Begin(p, "post_purge", x) /\ UNCHANGED leases

\* Whatever the answer will be, x has given its lease up.
BeginDelete(p, x) ==
  /\ p \in Servers /\ Begin(p, "delete", x)
  /\ leases' = {l \in leases : l.experiment_id # x}

BeginList(p) ==
  p \in Servers /\ Begin(p, "get_purge", None) /\ UNCHANGED leases

\* get_allocation(experiment_id = "xp_i") of the script: no purge before it
BeginScript(p, x) ==
  /\ p \in Scripts /\ x \in ScriptExperiments
  /\ Begin(p, "lookup", x) /\ UNCHANGED leases

\* An expired or invalid token, or one without the claim the handler reads.
Deny(p) ==
  /\ p \in Servers /\ pc[p] = "idle"
  /\ \E status \in {"401", "500"} : reply' = [reply EXCEPT ![p] = status]
  /\ UNCHANGED <<tables, now, pc, row, arrival, leases, crashes>>

AfterPurge == [post_purge |-> "lookup", get_purge |-> "list", script_purge |-> "idle"]

\* Slip: the purge is not committed.
PurgeWithoutCommit(p) ==
  /\ pc[p] \in DOMAIN AfterPurge
  /\ UNCHANGED tables
  /\ Continue(p, AfterPurge[pc[p]], row[p])

\* remove_expired_allocations(): an error of the database is printed and forgotten
Purge(p) ==
  /\ pc[p] \in DOMAIN AfterPurge
  /\ \/ allocations' = {a \in allocations : ~Expired(a)}
     \/ DbErrors /\ UNCHANGED allocations
  /\ UNCHANGED <<ips, subnets>>
  /\ Continue(p, AfterPurge[pc[p]], row[p])

\* Slip: a POST allocates again without looking for the experiment's row.
AllocateAgain(p) == pc[p] = "lookup" /\ UNCHANGED tables /\ Continue(p, "pick_ip", row[p])

\* SELECT ... FROM allocations WHERE experiment_id = ?
Lookup(p) ==
  /\ pc[p] = "lookup"
  /\ \/ /\ \E a \in RowsOf(row[p].experiment_id) : Continue(p, "answer", a)
        /\ UNCHANGED tables
     \/ /\ RowsOf(row[p].experiment_id) = {}
        /\ Continue(p, "pick_ip", row[p])
        /\ UNCHANGED tables
     \/ Fail(p)

\* NoIPAvailable or NoPrefixAvailable: 404 from a server, the end of a script
Refuse(p) ==
  \/ p \in Servers /\ Finish(p, "404") /\ UNCHANGED <<tables, now, leases, crashes>>
  \/ p \in Scripts /\ Down(p) /\ UNCHANGED <<reply, crashes>>

\* Slip: the result of the query is not compared with None.
PickIpUnchecked(p) ==
  /\ pc[p] = "pick_ip"
  /\ \E ip \in IF FreeIps = {} THEN {None} ELSE FreeIps :
       Continue(p, "pick_prefix", [row[p] EXCEPT !.ip = ip])
  /\ UNCHANGED tables

PickIp(p) ==
  /\ pc[p] = "pick_ip"
  /\ \/ /\ \E ip \in FreeIps : Continue(p, "pick_prefix", [row[p] EXCEPT !.ip = ip])
        /\ UNCHANGED tables
     \/ FreeIps = {} /\ Refuse(p)
     \/ Fail(p)

\* The expiration time is computed here, from the clock of the process.
PickPrefix(p) ==
  /\ pc[p] = "pick_prefix"
  /\ \/ /\ \E prefix \in FreeSubnets, duration \in Durations :
             Continue(p, "insert", [row[p] EXCEPT !.prefix = prefix,
                                                  !.expiration_time = now + duration])
        /\ UNCHANGED tables
     \/ FreeSubnets = {} /\ Refuse(p)
     \/ Fail(p)

\* An IntegrityError is logged, and the triple is returned all the same.
Insert(p) ==
  /\ pc[p] = "insert"
  /\ \/ /\ allocations' = IF Conflict(row[p]) THEN allocations ELSE allocations \cup {row[p]}
        /\ UNCHANGED <<ips, subnets>>
        /\ Continue(p, "answer", row[p])
     \/ Fail(p)

\* The lease an experiment is told replaces the one it knew.
Answer(p) ==
  /\ pc[p] = "answer"
  /\ leases' = {l \in leases : l.experiment_id # row[p].experiment_id} \cup {row[p]}
  /\ Finish(p, "200")
  /\ UNCHANGED <<tables, now, crashes>>

(***************************************************************************)
(* delete_allocation().  An error of the statement leaves rowcount at -1,  *)
(* which the handler takes for "nothing allocated"; an error of the commit *)
(* leaves it at 1, which the handler takes for success.                    *)
(***************************************************************************)
Delete(p) ==
  LET mine == RowsOf(row[p].experiment_id) IN
  /\ pc[p] = "delete"
  /\ \/ /\ mine # {}
        /\ Continue(p, "deleted", row[p])
        /\ \/ allocations' = allocations \ mine
           \/ DbErrors /\ UNCHANGED allocations
     \/ /\ mine = {} \/ DbErrors
        /\ Continue(p, "not_deleted", row[p])
        /\ UNCHANGED allocations
  /\ UNCHANGED <<ips, subnets>>

AnswerDelete(p) ==
  /\ \/ pc[p] = "deleted" /\ Finish(p, "200")
     \/ pc[p] = "not_deleted" /\ Finish(p, "404")
  /\ UNCHANGED <<tables, now, leases, crashes>>

\* get_all_allocations(): the rows, or [] on an error
List(p) ==
  /\ pc[p] = "list"
  /\ Finish(p, "200")
  /\ UNCHANGED <<tables, now, leases, crashes>>

Tick ==
  /\ now < MaxTime
  /\ now' = now + 1
  /\ UNCHANGED <<tables, pc, row, arrival, reply, leases, crashes>>

\* The statements of what p is busy with: these p executes without being asked.
Statement(p) ==
  \/ AddIps(p) \/ AddSubnets(p)
  \/ Purge(p) \/ Lookup(p) \/ PickIp(p) \/ PickPrefix(p) \/ Insert(p) \/ Answer(p)
  \/ Delete(p) \/ AnswerDelete(p) \/ List(p)

Request(p) ==
  \/ \E x \in Experiments : BeginPost(p, x) \/ BeginDelete(p, x) \/ BeginScript(p, x)
  \/ BeginList(p) \/ Deny(p)

Next ==
  \/ \E p \in Procs : Boot(p) \/ Crash(p) \/ ScriptExit(p) \/ Request(p) \/ Statement(p)
  \/ Tick

Spec == Init /\ [][Next]_vars

\* A live process executes its next statement sooner or later.
FairSpec == Spec /\ \A p \in Procs : WF_vars(Statement(p))

-----------------------------------------------------------------------------
(***************************************************************************)
(* Type invariant: the value every variable of the model ranges over.      *)
(***************************************************************************)
TypeOK ==
  /\ ips \subseteq PoolIps
  /\ subnets \subseteq PoolSubnets
  /\ allocations \subseteq Allocation
  /\ leases \subseteq Allocation
  /\ now \in 0..MaxTime /\ crashes \in 0..MaxCrashes
  /\ pc \in [Procs -> Labels]
  /\ row \in [Procs -> Frame]
  /\ arrival \in [Procs -> 0..MaxTime]
  /\ reply \in [Procs -> {"none", "200", "401", "404", "500"}]

\* An experiment may count on this lease now.
Live(l) == l.expiration_time >= now

(***************************************************************************)
(* No two experiments were told live leases with an address or a subnet in *)
(* common, whatever the clock did between the SELECTs and the INSERT and   *)
(* whatever request was cut short (allocate_ip_to_subnet, lines 130-179).  *)
(***************************************************************************)
LeasesExclusive ==
  \A l, m \in leases : l # m /\ Live(l) /\ Live(m) => l.ip # m.ip /\ l.prefix # m.prefix

(***************************************************************************)
(* What an experiment was told and may still count on is in the table:     *)
(* with one process the purge takes no live row, and allocate_ip_to_subnet *)
(* (lines 124 to 179) returns no triple that it did not store.             *)
(***************************************************************************)
LeaseBacked == \A l \in leases : Live(l) => l \in allocations

(***************************************************************************)
(* No address and no subnet is lost or counted twice: what remaining_ips() *)
(* and remaining_subnets() report, with one of each per row, is the pool.  *)
(***************************************************************************)
Accounted ==
  /\ Cardinality(FreeIps) + Cardinality(allocations) = Cardinality(ips)
  /\ Cardinality(FreeSubnets) + Cardinality(allocations) = Cardinality(subnets)

(***************************************************************************)
(* "Return the allocation details for a given experiment_id"               *)
(* (get_allocation, line 100): a triple that leaves the INSERT to be       *)
(* returned is a row of the table at that moment.  False where another     *)
(* process may insert between the SELECTs and the INSERT (line 174).       *)
(***************************************************************************)
ReturnedIsStored ==
  [][\A p \in Procs :
       pc[p] = "insert" /\ pc'[p] = "answer" => row'[p] \in allocations']_vars

HoldsSince(t) == {a \in allocations : a.expiration_time >= t}

(***************************************************************************)
(* A POST is refused for want of an address or a subnet only when leases   *)
(* that were live when it was accepted hold every address or every subnet: *)
(* what had expired by then has been given back.                           *)
(***************************************************************************)
RefusedOnlyWhenFull ==
  [][\A p \in Servers :
       pc[p] \in {"pick_ip", "pick_prefix"} /\ reply'[p] = "404" =>
         \/ ips \subseteq {a.ip : a \in HoldsSince(arrival[p])}
         \/ subnets \subseteq {a.prefix : a \in HoldsSince(arrival[p])}]_vars

(***************************************************************************)
(* No POST answers with a lease that had already expired when the request  *)
(* was accepted: an old row found by the lookup is never an expired one.   *)
(***************************************************************************)
AnswersAreFresh ==
  \A p \in Servers : pc[p] = "answer" => row[p].expiration_time >= arrival[p]

Stale(x) == \E a \in RowsOf(x) : Expired(a)

(***************************************************************************)
(* An expired row is removed sooner or later, provided requests that purge *)
(* (POST and GET) keep coming.                                             *)
(***************************************************************************)
ExpiredReclaimed ==
  []<>(\E p \in Servers : pc[p] \in {"post_purge", "get_purge"})
    => \A x \in Experiments : Stale(x) ~> ~Stale(x)

(***************************************************************************)
(* The allocator keeps the promise of LeaseRegistry: answering a POST is   *)
(* telling a lease, accepting a DELETE is releasing it.                    *)
(***************************************************************************)
Registry == INSTANCE LeaseRegistry WITH held <- leases, Times <- ExpirationTimes

ImplementsRegistry == Registry!RegistrySpec

-----------------------------------------------------------------------------
(***************************************************************************)
(* Inductive strengthenings.  Those of the tables hold however many        *)
(* processes share the file; a frame describes the tables between two      *)
(* statements only while no other process writes them (SingleProcess).     *)
(***************************************************************************)
SingleProcess == \A p, q \in Procs : p = q

FrameTyped(p) ==
  /\ pc[p] \in {"post_purge", "lookup", "pick_ip", "pick_prefix", "insert", "answer", "delete"}
       => row[p].experiment_id \in Experiments
  /\ pc[p] = "pick_prefix" => row[p].ip \in PoolIps
  /\ pc[p] \in {"insert", "answer"} => row[p] \in Allocation

TypeInv == TypeOK /\ \A p \in Procs : FrameTyped(p)

UniqueRows ==
  \A a, b \in allocations :
    a # b => a.ip # b.ip /\ a.prefix # b.prefix /\ a.experiment_id # b.experiment_id

ForeignKeys == \A a \in allocations : a.ip \in ips /\ a.prefix \in subnets

TableInv == TypeInv /\ UniqueRows /\ ForeignKeys

FrameCurrent(p) ==
  /\ pc[p] \in {"pick_ip", "pick_prefix", "insert"} => RowsOf(row[p].experiment_id) = {}
  /\ pc[p] \in {"pick_prefix", "insert"} => row[p].ip \in FreeIps
  /\ pc[p] = "insert" => row[p].prefix \in FreeSubnets
  /\ pc[p] = "answer" => row[p] \in allocations
  /\ pc[p] = "delete" => \A l \in leases : l.experiment_id # row[p].experiment_id

(***************************************************************************)
(* What makes LeasesExclusive and LeaseBacked inductive in one process: no *)
(* INSERT can conflict, so the triple that is returned is the stored one.  *)
(***************************************************************************)
LeaseInv == TableInv /\ LeaseBacked /\ \A p \in Procs : FrameCurrent(p)

=============================================================================
