-------------------------- MODULE AllocationsProofs --------------------------
(***************************************************************************)
(* What holds of the allocator for every pool, every set of experiments,   *)
(* every duration and every bound; TLC checks the same on small instances. *)
(***************************************************************************)
EXTENDS Allocations, FiniteSetTheorems, TLAPS

-----------------------------------------------------------------------------
(***************************************************************************)
(* Type correctness, with any number of processes on the file.             *)
(***************************************************************************)

\* PickPrefix computes an expiration time of the right type.
LEMMA ExpirationTyped ==
  ASSUME now \in 0..MaxTime, NEW duration \in Durations
  PROVE  now + duration \in ExpirationTimes
BY DEF ExpirationTimes

\* Expiration times and the clock are comparable.
LEMMA TimesAreInts == ExpirationTimes \subseteq Int
BY BoundsAssumption DEF ExpirationTimes

\* The initial state is typed.
LEMMA TypeInit == Init => TypeInv
BY BoundsAssumption DEF Init, TypeInv, TypeOK, FrameTyped, Labels, NoRow, Frame

\* A process that becomes idle or goes down keeps the frames typed.
LEMMA TypeFinish ==
  ASSUME TypeInv, NEW p \in Procs, NEW label \in {"idle", "down"},
         Goto(p, label), SetRow(p, NoRow)
  PROVE  /\ pc' \in [Procs -> Labels]
         /\ row' \in [Procs -> Frame]
         /\ \A q \in Procs : FrameTyped(q)'
BY DEF TypeInv, TypeOK, FrameTyped, Goto, SetRow, NoRow, Frame, Labels

\* Whatever p executes is typed.
LEMMA TypeStatement ==
  ASSUME TypeInv, NEW p \in Procs, Statement(p)
  PROVE  TypeInv'
<1> USE BoundsAssumption DEF TypeInv, TypeOK, tables
<1>1. CASE AddIps(p)
  BY <1>1 DEF AddIps, Goto, FrameTyped, Labels
<1>2. CASE AddSubnets(p)
  BY <1>2 DEF AddSubnets, Goto, FrameTyped, Labels
<1>3. CASE Purge(p)
  BY <1>3 DEF Purge, Continue, AfterPurge, Goto, SetRow, FrameTyped, Labels
<1>4. CASE Lookup(p)
  <2>1. CASE Fail(p)
    BY <2>1, TypeFinish DEF Fail, Finish
  <2>2. ASSUME NEW a \in RowsOf(row[p].experiment_id), Continue(p, "answer", a), UNCHANGED tables
        PROVE  TypeInv'
    <3>1. a \in Allocation /\ a \in Frame
      BY <2>2 DEF RowsOf, Allocation, Frame
    <3> QED BY <2>2, <3>1 DEF Continue, Goto, SetRow, FrameTyped, Labels, Allocation
  <2>3. CASE pc[p] = "lookup" /\ Continue(p, "pick_ip", row[p]) /\ UNCHANGED tables
    BY <2>3 DEF Continue, Goto, SetRow, FrameTyped, Labels
  <2> QED BY <1>4, <2>1, <2>2, <2>3 DEF Lookup
<1>5. CASE PickIp(p)
  <2>1. CASE Fail(p)
    BY <2>1, TypeFinish DEF Fail, Finish
  <2>2. CASE Refuse(p)
    BY <2>2, TypeFinish DEF Refuse, Finish, Down
  <2>3. ASSUME NEW ip \in FreeIps, pc[p] = "pick_ip",
               Continue(p, "pick_prefix", [row[p] EXCEPT !.ip = ip]), UNCHANGED tables
        PROVE  TypeInv'
    BY <2>3 DEF Continue, Goto, SetRow, FrameTyped, Labels, Frame, FreeIps
  <2> QED BY <1>5, <2>1, <2>2, <2>3 DEF PickIp
<1>6. CASE PickPrefix(p)
  <2>1. CASE Fail(p)
    BY <2>1, TypeFinish DEF Fail, Finish
  <2>2. CASE Refuse(p)
    BY <2>2, TypeFinish DEF Refuse, Finish, Down
  <2>3. ASSUME NEW prefix \in FreeSubnets, NEW duration \in Durations, pc[p] = "pick_prefix",
               Continue(p, "insert", [row[p] EXCEPT !.prefix = prefix,
                                                    !.expiration_time = now + duration]),
               UNCHANGED tables
        PROVE  TypeInv'
    <3> DEFINE r == [row[p] EXCEPT !.prefix = prefix, !.expiration_time = now + duration]
    <3>1. now + duration \in ExpirationTimes
      BY ExpirationTyped
    <3>2. r \in Allocation /\ r \in Frame
      BY <2>3, <3>1 DEF FrameTyped, Frame, Allocation, FreeSubnets
    <3> HIDE DEF r
    <3> QED BY <2>3, <3>2 DEF r, Continue, Goto, SetRow, FrameTyped, Labels, Allocation
  <2> QED BY <1>6, <2>1, <2>2, <2>3 DEF PickPrefix
<1>7. CASE Insert(p)
  <2>1. CASE Fail(p)
    BY <2>1, TypeFinish DEF Fail, Finish
  <2>2. CASE /\ pc[p] = "insert"
             /\ allocations' = IF Conflict(row[p]) THEN allocations ELSE allocations \cup {row[p]}
             /\ UNCHANGED <<ips, subnets>>
             /\ Continue(p, "answer", row[p])
    <3>1. row[p] \in Allocation
      BY <2>2 DEF FrameTyped
    <3> QED BY <2>2, <3>1 DEF Continue, Goto, SetRow, FrameTyped, Labels
  <2> QED BY <1>7, <2>1, <2>2 DEF Insert
<1>8. CASE Answer(p)
  <2>1. row[p] \in Allocation
    BY <1>8 DEF Answer, FrameTyped
  <2> QED BY <1>8, <2>1, TypeFinish DEF Answer, Finish
<1>9. CASE Delete(p)
  BY <1>9 DEF Delete, Continue, Goto, SetRow, FrameTyped, Labels
<1>10. CASE AnswerDelete(p)
  BY <1>10, TypeFinish DEF AnswerDelete, Finish
<1>11. CASE List(p)
  BY <1>11, TypeFinish DEF List, Finish
<1> QED BY <1>1, <1>2, <1>3, <1>4, <1>5, <1>6, <1>7, <1>8, <1>9, <1>10, <1>11 DEF Statement

\* Every step is typed.
LEMMA TypeNext == TypeInv /\ [Next]_vars => TypeInv'
<1> SUFFICES ASSUME TypeInv, [Next]_vars PROVE TypeInv'
  OBVIOUS
<1> USE BoundsAssumption, ExperimentsAssumption DEF TypeInv, TypeOK, tables
<1>1. ASSUME NEW p \in Procs, Boot(p) PROVE TypeInv'
  BY <1>1 DEF Boot, Goto, FrameTyped, Labels
<1>2. ASSUME NEW p \in Procs, Crash(p) PROVE TypeInv'
  BY <1>2, TypeFinish DEF Crash, Down
<1>3. ASSUME NEW p \in Procs, ScriptExit(p) PROVE TypeInv'
  BY <1>3, TypeFinish DEF ScriptExit, Down
<1>4. ASSUME NEW p \in Procs, NEW x \in Experiments, BeginPost(p, x) PROVE TypeInv'
  BY <1>4 DEF BeginPost, Begin, FrameOf, NoRow, Frame, Goto, SetRow, FrameTyped, Labels
<1>5. ASSUME NEW p \in Procs, NEW x \in Experiments, BeginDelete(p, x) PROVE TypeInv'
  BY <1>5 DEF BeginDelete, Begin, FrameOf, NoRow, Frame, Goto, SetRow, FrameTyped, Labels
<1>6. ASSUME NEW p \in Procs, NEW x \in Experiments, BeginScript(p, x) PROVE TypeInv'
  BY <1>6 DEF BeginScript, Begin, FrameOf, NoRow, Frame, Goto, SetRow, FrameTyped, Labels
<1>7. ASSUME NEW p \in Procs, BeginList(p) PROVE TypeInv'
  BY <1>7 DEF BeginList, Begin, FrameOf, NoRow, Frame, Goto, SetRow, FrameTyped, Labels
<1>8. ASSUME NEW p \in Procs, Deny(p) PROVE TypeInv'
  BY <1>8 DEF Deny, FrameTyped
<1>9. ASSUME NEW p \in Procs, Statement(p) PROVE TypeInv'
  BY <1>9, TypeStatement
<1>10. CASE Tick
  BY <1>10 DEF Tick, FrameTyped
<1>11. CASE UNCHANGED vars
  BY <1>11 DEF vars, FrameTyped
<1> QED BY <1>1, <1>2, <1>3, <1>4, <1>5, <1>6, <1>7, <1>8, <1>9, <1>10, <1>11 DEF Next, Request

(***************************************************************************)
(* The variables keep their types, with any number of processes.           *)
(***************************************************************************)
THEOREM TypeCorrect == Spec => []TypeOK
<1>1. TypeInv => TypeOK
  BY DEF TypeInv
<1> QED BY <1>1, TypeInit, TypeNext, PTL DEF Spec

-----------------------------------------------------------------------------
(***************************************************************************)
(* The tables: rows are unique and refer to the pool, with any number of   *)
(* processes, so nothing of the pool is lost or counted twice.             *)
(***************************************************************************)

\* Every write to the tables preserves the constraints the schema declares.
LEMMA TableNext == TableInv /\ [Next]_vars => TableInv'
<1> SUFFICES ASSUME TableInv, [Next]_vars PROVE TableInv'
  OBVIOUS
<1>1. TypeInv'
  BY TypeNext DEF TableInv
<1>2. ASSUME allocations' \subseteq allocations, ips \subseteq ips', subnets \subseteq subnets'
      PROVE  UniqueRows' /\ ForeignKeys'
  BY <1>2 DEF TableInv, UniqueRows, ForeignKeys
<1>3. ASSUME NEW r, ~Conflict(r), allocations' = allocations \cup {r}, UNCHANGED <<ips, subnets>>
      PROVE  UniqueRows' /\ ForeignKeys'
  BY <1>3 DEF TableInv, UniqueRows, ForeignKeys, Conflict
<1>4. ASSUME NEW p \in Procs, Statement(p)
      PROVE  UniqueRows' /\ ForeignKeys'
  <2>1. CASE AddIps(p) \/ AddSubnets(p)
    BY <2>1, <1>2 DEF AddIps, AddSubnets
  <2>2. CASE Purge(p) \/ Delete(p)
    BY <2>2, <1>2 DEF Purge, Delete, tables
  <2>3. CASE Insert(p)
    BY <2>3, <1>2, <1>3 DEF Insert, Fail, tables
  <2>4. CASE Lookup(p) \/ PickIp(p) \/ PickPrefix(p)
    BY <2>4, <1>2 DEF Lookup, PickIp, PickPrefix, Refuse, Fail, Down, tables
  <2>5. CASE Answer(p) \/ AnswerDelete(p) \/ List(p)
    BY <2>5, <1>2 DEF Answer, AnswerDelete, List, tables
  <2> QED BY <1>4, <2>1, <2>2, <2>3, <2>4, <2>5 DEF Statement
<1>5. ASSUME NEW p \in Procs, Boot(p) \/ Crash(p) \/ ScriptExit(p) \/ Request(p)
      PROVE  UniqueRows' /\ ForeignKeys'
  BY <1>5, <1>2 DEF Boot, Crash, ScriptExit, Down, Request, BeginPost, BeginDelete, BeginScript,
                    BeginList, Begin, Deny, tables
<1>6. ASSUME Tick \/ UNCHANGED vars
      PROVE  UniqueRows' /\ ForeignKeys'
  BY <1>6, <1>2 DEF Tick, vars, tables
<1> QED BY <1>1, <1>4, <1>5, <1>6 DEF Next, TableInv

\* The tables keep the constraints.
THEOREM TablesConsistent == Spec => []TableInv
<1>1. Init => TableInv
  BY TypeInit DEF Init, TableInv, UniqueRows, ForeignKeys
<1> QED BY <1>1, TableNext, PTL DEF Spec

\* Rows that differ in a column are as many as the values they hold there, and
\* the values they leave free are the others.
LEMMA ColumnCount ==
  ASSUME NEW rows, NEW pool, IsFiniteSet(pool), NEW col,
         col \in [rows -> pool], \A a, b \in rows : a # b => col[a] # col[b],
         NEW free, free = pool \ {col[a] : a \in rows}
  PROVE  Cardinality(free) + Cardinality(rows) = Cardinality(pool)
<1> DEFINE taken == {col[a] : a \in rows}
<1>1. taken \subseteq pool /\ IsFiniteSet(taken)
  BY FS_Subset
<1>2. col \in Injection(rows, taken) /\ col \in Surjection(rows, taken)
  BY DEF Injection, Surjection, IsInjective
<1>3. IsFiniteSet(rows) /\ Cardinality(rows) = Cardinality(taken)
  BY <1>1, <1>2, FS_Injection
<1> HIDE DEF taken
<1>4. free = pool \ taken /\ pool \cap taken = taken
  BY <1>1 DEF taken
<1>5. Cardinality(free) = Cardinality(pool) - Cardinality(rows)
  <2>1. Cardinality(pool \ taken) = Cardinality(pool) - Cardinality(pool \cap taken)
    BY FS_Difference
  <2> QED BY <1>3, <1>4, <2>1, Zenon
<1>6. Cardinality(pool) \in Nat /\ Cardinality(rows) \in Nat
  BY <1>3, FS_CardinalityType
<1> QED BY <1>5, <1>6

(***************************************************************************)
(* remaining_ips() and remaining_subnets() always add up with the rows,    *)
(* with any number of processes and any failures.                          *)
(***************************************************************************)
THEOREM AccountedAlways == Spec => []Accounted
<1>1. TableInv => Accounted
  <2> SUFFICES ASSUME TableInv PROVE Accounted
    OBVIOUS
  <2>1. IsFiniteSet(ips) /\ IsFiniteSet(subnets)
    BY PoolAssumption, FS_Subset DEF TableInv, TypeInv, TypeOK
  <2> DEFINE ipOf == [a \in allocations |-> a.ip]
             prefixOf == [a \in allocations |-> a.prefix]
  <2>2. /\ ipOf \in [allocations -> ips]
        /\ \A a, b \in allocations : a # b => ipOf[a] # ipOf[b]
    BY DEF TableInv, ForeignKeys, UniqueRows
  <2>3. /\ prefixOf \in [allocations -> subnets]
        /\ \A a, b \in allocations : a # b => prefixOf[a] # prefixOf[b]
    BY DEF TableInv, ForeignKeys, UniqueRows
  <2>4. FreeIps = ips \ {ipOf[a] : a \in allocations}
    BY DEF FreeIps
  <2>5. FreeSubnets = subnets \ {prefixOf[a] : a \in allocations}
    BY DEF FreeSubnets
  <2> HIDE DEF ipOf, prefixOf
  <2>6. Cardinality(FreeIps) + Cardinality(allocations) = Cardinality(ips)
    BY <2>1, <2>2, <2>4, ColumnCount
  <2>7. Cardinality(FreeSubnets) + Cardinality(allocations) = Cardinality(subnets)
    BY <2>1, <2>3, <2>5, ColumnCount
  <2> QED BY <2>6, <2>7 DEF Accounted
<1> QED BY <1>1, TablesConsistent, PTL

-----------------------------------------------------------------------------
(***************************************************************************)
(* One process on the file: what the experiments were told is what the     *)
(* table holds.                                                            *)
(***************************************************************************)

\* Leases stay backed while the clock runs, rows stay and no lease is added.
LEMMA BackedWhileRowsStay ==
  ASSUME LeaseBacked, TypeInv, now' \in Int, now' >= now,
         allocations \subseteq allocations', leases' \subseteq leases
  PROVE  LeaseBacked'
<1>1. now \in Int
  BY BoundsAssumption DEF TypeInv, TypeOK
<1>2. \A l \in leases : l.expiration_time \in Int
  BY TimesAreInts DEF TypeInv, TypeOK, Allocation
<1> QED BY <1>1, <1>2 DEF LeaseBacked, Live

\* What p executes keeps the leases backed and its frame current.
LEMMA LeaseStatement ==
  ASSUME SingleProcess, LeaseInv, NEW p \in Procs, Statement(p)
  PROVE  LeaseBacked' /\ FrameCurrent(p)'
<1>1. TypeInv /\ TableInv /\ FrameTyped(p) /\ FrameCurrent(p) /\ LeaseBacked
  BY DEF LeaseInv, TableInv, TypeInv
<1>2. p \in DOMAIN pc /\ p \in DOMAIN row /\ now \in Int
  BY <1>1, BoundsAssumption DEF TypeInv, TypeOK
<1>3. ASSUME UNCHANGED <<leases, allocations, now>>
      PROVE  LeaseBacked'
  BY <1>1, <1>3 DEF LeaseBacked, Live
<1>4. ASSUME pc'[p] \in {"idle", "down", "add_subnets", "script_purge", "list", "deleted",
                         "not_deleted", "lookup"}
      PROVE  FrameCurrent(p)'
  BY <1>4 DEF FrameCurrent
<1>5. CASE AddIps(p) \/ AddSubnets(p)
  BY <1>2, <1>3, <1>4, <1>5 DEF AddIps, AddSubnets, Goto
<1>6. CASE Purge(p)
  <2>1. pc'[p] \in {"idle", "list", "lookup"}
    BY <1>2, <1>6 DEF Purge, Continue, Goto, AfterPurge
  <2>2. LeaseBacked'
    BY <1>1, <1>2, <1>6, TimesAreInts
       DEF Purge, Continue, Expired, LeaseBacked, Live, TypeInv, TypeOK, Allocation
  <2> QED BY <1>4, <2>1, <2>2
<1>7. CASE Fail(p) \/ Refuse(p)
  BY <1>2, <1>3, <1>4, <1>7 DEF Fail, Refuse, Finish, Down, Goto, tables
<1>8. CASE Lookup(p) /\ ~Fail(p)
  <2>1. LeaseBacked'
    BY <1>3, <1>8 DEF Lookup, Continue, tables
  <2>2. FrameCurrent(p)'
    BY <1>2, <1>8 DEF Lookup, Continue, Goto, SetRow, FrameCurrent, RowsOf, tables
  <2> QED BY <2>1, <2>2
<1>9. CASE PickIp(p) /\ ~Fail(p) /\ ~Refuse(p)
  <2>1. LeaseBacked'
    BY <1>3, <1>9 DEF PickIp, Continue, tables
  <2>2. FrameCurrent(p)'
    <3>1. PICK ip \in FreeIps : Continue(p, "pick_prefix", [row[p] EXCEPT !.ip = ip])
      BY <1>9 DEF PickIp
    <3>2. /\ row'[p].experiment_id = row[p].experiment_id /\ row'[p].ip = ip
          /\ pc'[p] = "pick_prefix" /\ UNCHANGED tables
      BY <1>1, <1>2, <1>9, <3>1 DEF PickIp, Continue, Goto, SetRow, TypeInv, TypeOK, Frame
    <3> QED BY <1>1, <1>9, <3>2 DEF PickIp, FrameCurrent, RowsOf, FreeIps, tables
  <2> QED BY <2>1, <2>2
<1>10. CASE PickPrefix(p) /\ ~Fail(p) /\ ~Refuse(p)
  <2>1. LeaseBacked'
    BY <1>3, <1>10 DEF PickPrefix, Continue, tables
  <2>2. FrameCurrent(p)'
    <3>1. PICK prefix \in FreeSubnets, duration \in Durations :
            Continue(p, "insert", [row[p] EXCEPT !.prefix = prefix,
                                                 !.expiration_time = now + duration])
      BY <1>10 DEF PickPrefix
    <3>2. row[p] \in Frame
      BY <1>1 DEF TypeInv, TypeOK
    <3>3. row'[p] = [row[p] EXCEPT !.prefix = prefix, !.expiration_time = now + duration]
      BY <1>2, <3>1 DEF Continue, SetRow
    <3>4. /\ row'[p].experiment_id = row[p].experiment_id /\ row'[p].ip = row[p].ip
          /\ row'[p].prefix = prefix
      BY <3>2, <3>3 DEF Frame
    <3>5. pc'[p] = "insert" /\ UNCHANGED tables
      BY <1>2, <1>10, <3>1 DEF PickPrefix, Continue, Goto
    <3> QED BY <1>1, <1>10, <3>4, <3>5
            DEF PickPrefix, FrameCurrent, RowsOf, FreeIps, FreeSubnets, tables
  <2> QED BY <2>1, <2>2
<1>11. CASE Insert(p) /\ ~Fail(p)
  <2>1. ~Conflict(row[p])
    BY <1>1, <1>11 DEF Insert, FrameCurrent, Conflict, RowsOf, FreeIps, FreeSubnets
  <2>2. allocations' = allocations \cup {row[p]} /\ UNCHANGED <<leases, now>>
    BY <1>11, <2>1 DEF Insert, Continue
  <2>3. LeaseBacked'
    BY <1>1, <2>2 DEF LeaseBacked, Live
  <2>4. FrameCurrent(p)'
    BY <1>2, <1>11, <2>2 DEF Insert, Continue, Goto, SetRow, FrameCurrent
  <2> QED BY <2>3, <2>4
<1>12. CASE Answer(p)
  <2>1. FrameCurrent(p)'
    BY <1>2, <1>4, <1>12 DEF Answer, Finish, Goto
  <2>2. LeaseBacked'
    BY <1>1, <1>12 DEF Answer, FrameCurrent, LeaseBacked, Live, tables
  <2> QED BY <2>1, <2>2
<1>13. CASE Delete(p)
  <2>1. FrameCurrent(p)'
    BY <1>2, <1>4, <1>13 DEF Delete, Continue, Goto
  <2>2. LeaseBacked'
    BY <1>1, <1>13 DEF Delete, Continue, FrameCurrent, RowsOf, LeaseBacked, Live
  <2> QED BY <2>1, <2>2
<1>14. CASE AnswerDelete(p) \/ List(p)
  BY <1>2, <1>3, <1>4, <1>14 DEF AnswerDelete, List, Finish, Goto, tables
<1> QED BY <1>5, <1>6, <1>7, <1>8, <1>9, <1>10, <1>11, <1>12, <1>13, <1>14
        DEF Statement, Lookup, PickIp, PickPrefix, Insert

\* The other steps write neither table and tell no lease.
LEMMA LeaseRequest ==
  ASSUME SingleProcess, LeaseInv, NEW p \in Procs, TypeInv',
         Boot(p) \/ Crash(p) \/ ScriptExit(p) \/ Request(p)
  PROVE  LeaseBacked' /\ FrameCurrent(p)'
<1>1. TypeInv /\ LeaseBacked /\ FrameCurrent(p)
  BY DEF LeaseInv, TableInv
<1>2. p \in DOMAIN pc /\ p \in DOMAIN row /\ now \in Int
  BY <1>1, BoundsAssumption DEF TypeInv, TypeOK
<1>3. UNCHANGED <<tables, now>> /\ leases' \subseteq leases
  BY DEF Boot, Crash, ScriptExit, Down, Request, BeginPost, BeginDelete, BeginScript, BeginList,
         Begin, Deny, tables
<1>4. LeaseBacked'
  BY <1>1, <1>2, <1>3, BackedWhileRowsStay DEF tables
<1>5. FrameCurrent(p)'
  <2>1. CASE Boot(p) \/ Crash(p) \/ ScriptExit(p)
    BY <1>2, <2>1 DEF Boot, Crash, ScriptExit, Down, Goto, FrameCurrent
  <2>2. CASE BeginList(p) \/ \E x \in Experiments : BeginPost(p, x) \/ BeginScript(p, x)
    BY <1>2, <2>2 DEF BeginPost, BeginScript, BeginList, Begin, Goto, FrameCurrent
  <2>3. ASSUME NEW x \in Experiments, BeginDelete(p, x) PROVE FrameCurrent(p)'
    <3>1. row'[p].experiment_id = x /\ pc'[p] = "delete"
      BY <1>2, <2>3 DEF BeginDelete, Begin, Goto, SetRow, FrameOf, NoRow
    <3> QED BY <2>3, <3>1 DEF BeginDelete, FrameCurrent
  <2>4. CASE Deny(p)
    BY <1>1, <2>4 DEF Deny, FrameCurrent, RowsOf, FreeIps, FreeSubnets, tables
  <2> QED BY <2>1, <2>2, <2>3, <2>4 DEF Request
<1> QED BY <1>4, <1>5

\* LeaseInv is inductive when one process has the file.
LEMMA LeaseNext == SingleProcess /\ LeaseInv /\ [Next]_vars => LeaseInv'
<1> SUFFICES ASSUME SingleProcess, LeaseInv, [Next]_vars PROVE LeaseInv'
  OBVIOUS
<1>1. TableInv' /\ TypeInv'
  BY TableNext DEF LeaseInv, TableInv
<1>2. ASSUME NEW p \in Procs, LeaseBacked' /\ FrameCurrent(p)'
      PROVE  LeaseInv'
  BY <1>1, <1>2 DEF SingleProcess, LeaseInv
<1>3. ASSUME NEW p \in Procs, Statement(p) PROVE LeaseInv'
  BY <1>2, <1>3, LeaseStatement
<1>4. ASSUME NEW p \in Procs, Boot(p) \/ Crash(p) \/ ScriptExit(p) \/ Request(p)
      PROVE  LeaseInv'
  BY <1>1, <1>2, <1>4, LeaseRequest
<1>5. CASE Tick
  <2>1. now \in Int /\ now' \in Int /\ now' >= now
    BY <1>5, BoundsAssumption DEF Tick, LeaseInv, TableInv, TypeInv, TypeOK
  <2>2. LeaseBacked'
    BY <1>5, <2>1, BackedWhileRowsStay DEF Tick, tables, LeaseInv, TableInv
  <2>3. \A p \in Procs : FrameCurrent(p)'
    BY <1>5 DEF Tick, tables, LeaseInv, FrameCurrent, RowsOf, FreeIps, FreeSubnets
  <2> QED BY <1>1, <2>2, <2>3 DEF LeaseInv
<1>6. CASE UNCHANGED vars
  BY <1>1, <1>6 DEF vars, LeaseInv, LeaseBacked, Live, FrameCurrent, RowsOf, FreeIps, FreeSubnets
<1> QED BY <1>3, <1>4, <1>5, <1>6 DEF Next

\* The strengthening holds from the first state on.
LEMMA LeaseInvariant == ASSUME SingleProcess PROVE Spec => []LeaseInv
<1>1. Init => LeaseInv
  BY TypeInit DEF Init, LeaseInv, TableInv, UniqueRows, ForeignKeys, LeaseBacked, FrameCurrent
<1>2. LeaseInv /\ [Next]_vars => LeaseInv'
  BY LeaseNext
<1> QED BY <1>1, <1>2, PTL DEF Spec

(***************************************************************************)
(* What an experiment was told and may still count on is in the table,     *)
(* whatever fails, when one process serves the requests.                   *)
(***************************************************************************)
THEOREM LeaseBackedAlways == ASSUME SingleProcess PROVE Spec => []LeaseBacked
<1>1. LeaseInv => LeaseBacked
  BY DEF LeaseInv
<1> QED BY <1>1, LeaseInvariant, PTL

(***************************************************************************)
(* Two experiments are never told live leases with an address or a subnet  *)
(* in common, whatever fails, when one process serves the requests.        *)
(***************************************************************************)
THEOREM LeasesExclusiveAlways == ASSUME SingleProcess PROVE Spec => []LeasesExclusive
<1>1. LeaseInv => LeasesExclusive
  BY DEF LeaseInv, TableInv, UniqueRows, LeaseBacked, LeasesExclusive
<1> QED BY <1>1, LeaseInvariant, PTL

-----------------------------------------------------------------------------
(***************************************************************************)
(* The allocator implements LeaseRegistry.                                 *)
(***************************************************************************)

\* Answering a POST tells a lease that keeps clear of the live ones.
LEMMA AnswerTells ==
  ASSUME LeaseInv, NEW p \in Procs, Answer(p)
  PROVE  \E l \in Registry!Lease : Registry!Tell(l)
<1>1. TypeInv /\ UniqueRows /\ LeaseBacked /\ row[p] \in allocations
  BY DEF LeaseInv, TableInv, FrameCurrent, Answer
<1>2. row[p] \in Registry!Lease
  BY <1>1 DEF TypeInv, TypeOK, Allocation, Registry!Lease
<1>3. ASSUME NEW m \in leases, Registry!IsLive(m)
      PROVE  IF m.experiment_id = row[p].experiment_id
             THEN m = row[p] ELSE ~Registry!Overlap(row[p], m)
  <2>1. m \in allocations
    BY <1>1, <1>3 DEF LeaseBacked, Live, Registry!IsLive
  <2> QED BY <1>1, <2>1 DEF UniqueRows, Registry!Overlap
<1>4. Registry!Tell(row[p])
  BY <1>3 DEF Answer, Registry!Tell
<1> QED BY <1>2, <1>4

\* Every step of the allocator is a step of the registry or none.
LEMMA RegistryStep ==
  ASSUME LeaseInv, [Next]_vars
  PROVE  [Registry!RegistryNext]_Registry!registryVars
<1> USE DEF Registry!RegistryNext, Registry!registryVars
<1>1. ASSUME NEW p \in Procs, Answer(p) PROVE Registry!RegistryNext
  BY <1>1, AnswerTells
<1>2. ASSUME NEW p \in Procs, NEW x \in Experiments, BeginDelete(p, x)
      PROVE  Registry!RegistryNext
  BY <1>2 DEF BeginDelete, Begin, Registry!Release
<1>3. CASE Tick
  BY <1>3 DEF Tick, Registry!Elapse
<1>4. ASSUME NEW p \in Procs, Statement(p), ~Answer(p)
      PROVE  UNCHANGED <<leases, now>>
  BY <1>4 DEF Statement, AddIps, AddSubnets, Purge, Lookup, PickIp, PickPrefix, Insert, Delete,
              AnswerDelete, List, Continue, Fail, Refuse, Down
<1>5. ASSUME NEW p \in Procs,
             \/ Boot(p) \/ Crash(p) \/ ScriptExit(p) \/ BeginList(p) \/ Deny(p)
             \/ \E x \in Experiments : BeginPost(p, x) \/ BeginScript(p, x)
      PROVE  UNCHANGED <<leases, now>>
  BY <1>5 DEF Boot, Crash, ScriptExit, Down, BeginList, Deny, BeginPost, BeginScript, Begin
<1>6. CASE UNCHANGED vars
  BY <1>6 DEF vars
<1> QED BY <1>1, <1>2, <1>3, <1>4, <1>5, <1>6 DEF Next, Request

(***************************************************************************)
(* One process serving the requests keeps the promise of LeaseRegistry,    *)
(* whatever fails and whenever it crashes.                                 *)
(***************************************************************************)
THEOREM ImplementsRegistryAlways == ASSUME SingleProcess PROVE Spec => ImplementsRegistry
<1>1. Init => Registry!RegistryInit
  BY DEF Init, Registry!RegistryInit
<1>2. LeaseInv /\ [Next]_vars => [Registry!RegistryNext]_Registry!registryVars
  BY RegistryStep
<1> QED BY <1>1, <1>2, LeaseInvariant, PTL DEF Spec, ImplementsRegistry, Registry!RegistrySpec

-----------------------------------------------------------------------------
(***************************************************************************)
(* What a purge does for the request it belongs to.  A row that another    *)
(* process adds may have expired before it is stored, and a purge that     *)
(* fails is not repeated: so this is for one process and a database that   *)
(* works.                                                                  *)
(***************************************************************************)
WorkingDb == ~DbErrors

\* A server's request finds no row that had expired when it was accepted.
FreshRequest(p) ==
  /\ arrival[p] <= now
  /\ pc[p] \in {"lookup", "pick_ip", "pick_prefix", "insert"} =>
       \A a \in allocations : a.expiration_time >= arrival[p]
  /\ Durations \subseteq Nat /\ pc[p] \in {"insert", "answer"} =>
       row[p].expiration_time >= arrival[p]
  /\ pc[p] \in {"post_purge", "lookup", "pick_ip", "pick_prefix"} => reply[p] = "none"

FreshInv == TypeInv /\ \A p \in Servers : FreshRequest(p)

LEMMA FreshStatement ==
  ASSUME WorkingDb, FreshInv, NEW p \in Servers, Statement(p)
  PROVE  FreshRequest(p)'
<1>1. /\ TypeInv /\ FreshRequest(p) /\ p \in Procs /\ p \notin Scripts
      /\ now \in Nat /\ arrival[p] \in Nat /\ ~Fail(p)
      /\ \A a \in allocations : a.expiration_time \in Int
  <2>1. TypeInv /\ FreshRequest(p) /\ p \in Procs /\ p \notin Scripts /\ ~Fail(p)
    BY ProcsAssumption DEF FreshInv, Procs, WorkingDb, Fail
  <2>2. now \in Nat /\ arrival[p] \in Nat
    BY <2>1, BoundsAssumption DEF TypeInv, TypeOK
  <2>3. \A a \in allocations : a.expiration_time \in Int
    BY <2>1, TimesAreInts DEF TypeInv, TypeOK, Allocation
  <2> QED BY <2>1, <2>2, <2>3
<1>2. /\ pc \in [Procs -> Labels] /\ row \in [Procs -> Frame] /\ arrival \in [Procs -> 0..MaxTime]
      /\ reply \in [Procs -> {"none", "200", "401", "404", "500"}]
  BY <1>1 DEF TypeInv, TypeOK
<1>3. ASSUME NEW status, Finish(p, status), now' = now PROVE FreshRequest(p)'
  BY <1>1, <1>2, <1>3 DEF Finish, Goto, SetRow, FreshRequest
<1>4. CASE AddIps(p) \/ AddSubnets(p)
  BY <1>1, <1>2, <1>4 DEF AddIps, AddSubnets, Goto, FreshRequest
<1>5. CASE Purge(p)
  <2>1. /\ allocations' = {a \in allocations : ~Expired(a)} /\ pc'[p] \in {"lookup", "list", "idle"}
        /\ pc'[p] = "lookup" => pc[p] = "post_purge"
        /\ UNCHANGED <<now, arrival, reply>>
    BY <1>1, <1>2, <1>5 DEF Purge, WorkingDb, Continue, Goto, AfterPurge
  <2>2. \A a \in allocations' : a.expiration_time >= arrival[p]
    BY <1>1, <2>1 DEF Expired, FreshRequest
  <2> QED BY <1>1, <2>1, <2>2 DEF FreshRequest
<1>6. CASE Lookup(p)
  <2>1. CASE \E a \in RowsOf(row[p].experiment_id) : Continue(p, "answer", a)
    <3>1. PICK a \in allocations : pc'[p] = "answer" /\ row'[p] = a
      BY <1>1, <1>2, <2>1 DEF RowsOf, Continue, Goto, SetRow
    <3> QED BY <1>1, <1>6, <2>1, <3>1 DEF Lookup, Continue, FreshRequest
  <2>2. CASE Continue(p, "pick_ip", row[p])
    BY <1>1, <1>2, <1>6, <2>2 DEF Lookup, Continue, Goto, FreshRequest, tables
  <2> QED BY <1>1, <1>6, <2>1, <2>2 DEF Lookup
<1>7. CASE Refuse(p)
  BY <1>1, <1>3, <1>7 DEF Refuse
<1>8. CASE PickIp(p) /\ ~Refuse(p)
  <2>1. /\ pc'[p] = "pick_prefix" /\ pc[p] = "pick_ip"
        /\ UNCHANGED <<allocations, now, arrival, reply>>
    BY <1>1, <1>2, <1>8 DEF PickIp, Continue, Goto, tables
  <2> QED BY <1>1, <2>1 DEF FreshRequest
<1>9. CASE PickPrefix(p) /\ ~Refuse(p)
  <2>1. PICK prefix \in FreeSubnets, duration \in Durations :
          Continue(p, "insert", [row[p] EXCEPT !.prefix = prefix,
                                               !.expiration_time = now + duration])
    BY <1>1, <1>9 DEF PickPrefix
  <2>2. /\ pc'[p] = "insert" /\ pc[p] = "pick_prefix"
        /\ row'[p] = [row[p] EXCEPT !.prefix = prefix, !.expiration_time = now + duration]
        /\ UNCHANGED <<allocations, now, arrival, reply>>
    BY <1>1, <1>2, <1>9, <2>1 DEF PickPrefix, Continue, Goto, SetRow, tables
  <2>3. row'[p].expiration_time = now + duration
    <3>1. row[p] \in Frame
      BY <1>1, <1>2
    <3> QED BY <2>2, <3>1 DEF Frame
  <2>4. Durations \subseteq Nat => row'[p].expiration_time >= arrival[p]
    BY <1>1, <2>3 DEF FreshRequest
  <2> QED BY <1>1, <2>2, <2>4 DEF FreshRequest
<1>10. CASE Insert(p)
  BY <1>1, <1>2, <1>10 DEF Insert, Continue, Goto, SetRow, FreshRequest
<1>11. CASE Answer(p) \/ AnswerDelete(p) \/ List(p)
  BY <1>3, <1>11 DEF Answer, AnswerDelete, List
<1>12. CASE Delete(p)
  <2>1. /\ pc'[p] \in {"deleted", "not_deleted"} /\ row'[p] = row[p]
        /\ UNCHANGED <<now, arrival, reply>>
    BY <1>1, <1>2, <1>12 DEF Delete, Continue, Goto, SetRow
  <2> QED BY <1>1, <2>1 DEF FreshRequest
<1> QED BY <1>4, <1>5, <1>6, <1>7, <1>8, <1>9, <1>10, <1>11, <1>12 DEF Statement

LEMMA FreshNext == SingleProcess /\ WorkingDb /\ FreshInv /\ [Next]_vars => FreshInv'
<1> SUFFICES ASSUME SingleProcess, WorkingDb, FreshInv, [Next]_vars PROVE FreshInv'
  OBVIOUS
<1>1. TypeInv /\ TypeInv'
  BY TypeNext DEF FreshInv
<1>2. ASSUME NEW p \in Procs, p \in Servers => FreshRequest(p)' PROVE FreshInv'
  BY <1>1, <1>2 DEF SingleProcess, FreshInv, Procs
<1>3. ASSUME NEW p \in Procs, Statement(p) PROVE FreshInv'
  BY <1>2, <1>3, FreshStatement
<1>4. ASSUME NEW p \in Procs, Boot(p) \/ Crash(p) \/ ScriptExit(p) \/ Request(p)
      PROVE  FreshInv'
  <2> SUFFICES ASSUME p \in Servers PROVE FreshRequest(p)'
    BY <1>2
  <2>1. FreshRequest(p) /\ p \notin Scripts /\ now \in Nat /\ UNCHANGED <<tables, now>>
    BY <1>1, <1>4, BoundsAssumption, ProcsAssumption
       DEF FreshInv, TypeInv, TypeOK, Boot, Crash, ScriptExit, Down, Request, BeginPost,
           BeginDelete, BeginScript, BeginList, Begin, Deny
  <2>2. /\ pc \in [Procs -> Labels] /\ arrival \in [Procs -> 0..MaxTime]
        /\ reply \in [Procs -> {"none", "200", "401", "404", "500"}]
    BY <1>1 DEF TypeInv, TypeOK
  <2>3. CASE Boot(p) \/ Crash(p)
    BY <2>1, <2>2, <2>3 DEF Boot, Crash, Down, Goto, FreshRequest
  <2>4. ASSUME NEW x, NEW label \in {"post_purge", "delete", "get_purge"}, Begin(p, label, x)
        PROVE  FreshRequest(p)'
    BY <2>1, <2>2, <2>4 DEF Begin, Goto, FreshRequest
  <2>5. CASE Deny(p)
    BY <2>1, <2>2, <2>5 DEF Deny, FreshRequest, tables
  <2> QED BY <1>4, <2>1, <2>3, <2>4, <2>5
          DEF ScriptExit, Request, BeginPost, BeginDelete, BeginScript, BeginList
<1>5. CASE Tick
  <2>1. now \in Nat /\ now' = now + 1 /\ \A p \in Procs : arrival[p] \in Nat
    BY <1>1, <1>5, BoundsAssumption DEF Tick, TypeInv, TypeOK
  <2> QED BY <1>1, <1>5, <2>1 DEF Tick, FreshInv, FreshRequest, tables, Procs
<1>6. CASE UNCHANGED vars
  BY <1>1, <1>6 DEF vars, FreshInv, FreshRequest
<1> QED BY <1>3, <1>4, <1>5, <1>6 DEF Next

LEMMA FreshInvariant == ASSUME SingleProcess, WorkingDb PROVE Spec => []FreshInv
<1>1. Init => FreshInv
  BY TypeInit DEF Init, FreshInv, FreshRequest, Procs
<1>2. FreshInv /\ [Next]_vars => FreshInv'
  BY FreshNext
<1> QED BY <1>1, <1>2, PTL DEF Spec

(***************************************************************************)
(* A POST never answers with a lease that had expired when the request was *)
(* accepted: remove_expired_allocations() comes first (api.py, /prefix/).  *)
(***************************************************************************)
THEOREM AnswersAreFreshAlways ==
  ASSUME SingleProcess, WorkingDb, Durations \subseteq Nat PROVE Spec => []AnswersAreFresh
<1>1. FreshInv => AnswersAreFresh
  BY DEF FreshInv, FreshRequest, AnswersAreFresh
<1> QED BY <1>1, FreshInvariant, PTL

(***************************************************************************)
(* A POST is refused only when leases that were live when it was accepted  *)
(* hold the whole pool of addresses or of subnets, whatever durations are  *)
(* asked for (the two 404 of allocate_ip_to_subnet).                       *)
(***************************************************************************)
THEOREM RefusedOnlyWhenFullAlways ==
  ASSUME SingleProcess, WorkingDb PROVE Spec => RefusedOnlyWhenFull
<1> DEFINE Full(p) == \/ ips \subseteq {a.ip : a \in HoldsSince(arrival[p])}
                      \/ subnets \subseteq {a.prefix : a \in HoldsSince(arrival[p])}
<1>1. FreshInv /\ [Next]_vars =>
        [\A p \in Servers :
           pc[p] \in {"pick_ip", "pick_prefix"} /\ reply'[p] = "404" => Full(p)]_vars
  <2> SUFFICES ASSUME FreshInv, Next, NEW p \in Servers,
                      pc[p] \in {"pick_ip", "pick_prefix"}, reply'[p] = "404"
               PROVE  Full(p)
    BY DEF vars
  <2>1. FreshRequest(p) /\ TypeInv /\ p \in Procs /\ reply[p] = "none"
    BY DEF FreshInv, FreshRequest, Procs
  <2>2. HoldsSince(arrival[p]) = allocations
    BY <2>1 DEF FreshRequest, HoldsSince
  <2>3. FreeIps = {} \/ FreeSubnets = {} => Full(p)
    BY <2>2 DEF FreeIps, FreeSubnets
  <2>4. ~Fail(p)
    BY DEF WorkingDb, Fail
  <2>5. \A q \in Procs : q = p
    BY <2>1 DEF SingleProcess
  <2>6. ASSUME Statement(p) PROVE FreeIps = {} \/ FreeSubnets = {}
    BY <2>1, <2>4, <2>6
       DEF Statement, AddIps, AddSubnets, Purge, AfterPurge, Lookup, PickIp, PickPrefix, Insert,
           Answer, Delete, AnswerDelete, List, Continue
  <2>7. ASSUME Boot(p) \/ Crash(p) \/ ScriptExit(p) \/ Request(p) \/ Tick PROVE FALSE
    BY <2>1, <2>7
       DEF TypeInv, TypeOK, Boot, Crash, ScriptExit, Request, BeginPost, BeginDelete, BeginScript,
           BeginList, Begin, Deny, Tick
  <2> QED BY <2>3, <2>5, <2>6, <2>7 DEF Next
<1> QED BY <1>1, FreshInvariant, PTL DEF Spec, RefusedOnlyWhenFull

=============================================================================
