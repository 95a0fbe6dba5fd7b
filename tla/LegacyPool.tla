------------------------------ MODULE LegacyPool ------------------------------
(***************************************************************************)
(* The older allocator of ips/api.py: the free subnets and load-balancer   *)
(* addresses are lists of the global db, which /prefixold/ pops and        *)
(* appends and which a middleware writes to /db.json after each request.   *)
(* The roles are in the same file; an operator edits it, and an admin      *)
(* loads it with /reset/.  A handler runs to its end on the event loop;    *)
(* other requests may run between a handler and the save that follows it,  *)
(* and between that save and the response.                                 *)
(***************************************************************************)
EXTENDS Integers, FiniteSets, SequencesExt

CONSTANTS
  Requests,        \* slots for requests in flight
  Experiments,     \* experiment identifiers
  Users,           \* who may ask for a reset; db["_roles"]["admin"] at first
  InitialSubnets,  \* db["cluster"]["subnets"] of the first /db.json
  InitialIps,      \* db["metallb"]["ips"] of the first /db.json
  MaxCrashes,      \* bound on the number of crashes
  MaxResets,       \* bound on the number of GET /reset/
  MaxEdits,        \* bound on the edits of /db.json
  MaxList,         \* bound on the list of subnets, which failing DELETEs lengthen
  Torn,            \* what a truncated /db.json holds
  None             \* no value

Subnets == ToSet(InitialSubnets)
Ips == ToSet(InitialIps)

ASSUME PoolAssumption ==
  /\ InitialSubnets \in Seq(Subnets) /\ IsInjective(InitialSubnets)
  /\ InitialIps \in Seq(Ips) /\ IsInjective(InitialIps)
ASSUME NoneAssumption == None \notin Subnets \cup Ips \cup Experiments
ASSUME BoundsAssumption == {MaxCrashes, MaxResets, MaxEdits, MaxList} \subseteq Nat

VARIABLES
  db,       \* the global db of the server
  file,     \* /db.json: a database, or Torn
  server,   \* "up", "stopping" (in the save of the shutdown) or "down"
  pc,       \* what each request in flight waits for
  frame,    \* the experiment and the outcome of each request
  told,     \* the lease each experiment was told, until it asks for its release
  forgotten, \* experiments whose allocation a reset dropped
  edited,   \* the roles the operator wrote last, and what became of them
  crashes,  \* crashes so far
  resets,   \* resets so far
  edits     \* edits so far

counters == <<crashes, resets, edits>>

vars == <<db, file, server, pc, frame, told, forgotten, edited, counters>>

Database == [subnets : Seq(Subnets), ips : Seq(Ips),
             admins : SUBSET Users,                            \* ["_roles"]["admin"]
             cluster : [Experiments -> Subnets \cup {None}],   \* ["cluster"]["allocated"]
             metallb : [Experiments -> Ips \cup {None}]]       \* ["metallb"]["allocated"]

ASSUME TornAssumption == Torn \notin Database

Lease == [subnet : Subnets, lb : Ips]
NoLease == [subnet |-> None, lb |-> None]

\* Slip: the two values are swapped.
SwappedLeaseIn(d, x) == [subnet |-> d.metallb[x], lb |-> d.cluster[x]]

LeaseIn(d, x) == [subnet |-> d.cluster[x], lb |-> d.metallb[x]]

NoFrame == [experiment_id |-> None, lease |-> NoLease, status |-> "none"]

FrameOf(x, lease, status) == [experiment_id |-> x, lease |-> lease, status |-> status]

InitialDb == [subnets |-> InitialSubnets, ips |-> InitialIps, admins |-> Users,
              cluster |-> [x \in Experiments |-> None],
              metallb |-> [x \in Experiments |-> None]]

Init ==
  /\ db = InitialDb /\ file = InitialDb
  /\ server = "down"
  /\ pc = [r \in Requests |-> "idle"]
  /\ frame = [r \in Requests |-> NoFrame]
  /\ told = [x \in Experiments |-> NoLease]
  /\ forgotten = {} /\ edited = [admins |-> Users, fate |-> "loaded"]
  /\ crashes = 0 /\ resets = 0 /\ edits = 0

-----------------------------------------------------------------------------
\* save_db() does not yield: nothing else runs on the loop before it is done.
LoopFree == server = "up" /\ \A r \in Requests : pc[r] # "write"

\* A handler returned or raised HTTPException: the middleware will save.
Handled(r, x, lease, status) ==
  /\ pc' = [pc EXCEPT ![r] = "save"]
  /\ frame' = [frame EXCEPT ![r] = FrameOf(x, lease, status)]

\* A handler raised anything else: the exception goes past the middleware.
Raised(r, x) ==
  /\ pc' = [pc EXCEPT ![r] = "respond"]
  /\ frame' = [frame EXCEPT ![r] = FrameOf(x, NoLease, "500")]

\* Slip: the last subnet is read but stays in the list.
TakeWithoutPop(x) ==
  [db EXCEPT !.cluster[x] = Last(db.subnets), !.ips = Front(db.ips), !.metallb[x] = Last(db.ips)]

\* Both pops of post_prefix succeed.
TakeBoth(x) ==
  [db EXCEPT !.subnets = Front(db.subnets), !.cluster[x] = Last(db.subnets),
             !.ips = Front(db.ips), !.metallb[x] = Last(db.ips)]

\* Slip: the lookup is in the file, which is behind the db until the next save.
AllocatedInFile(x) == file.cluster[x] # None

Allocated(x) == db.cluster[x] # None

\* POST /prefixold/
PostPrefix(r, x) ==
  /\ LoopFree /\ pc[r] = "idle"
  /\ \/ /\ Allocated(x) /\ db.metallb[x] # None
        /\ Handled(r, x, LeaseIn(db, x), "200") /\ UNCHANGED db
     \/ /\ Allocated(x) /\ db.metallb[x] = None
        /\ Raised(r, x) /\ UNCHANGED db
     \/ /\ ~Allocated(x) /\ db.subnets = <<>>
        /\ Handled(r, x, NoLease, "404") /\ UNCHANGED db
     \/ /\ ~Allocated(x) /\ db.subnets # <<>> /\ db.ips = <<>>
        /\ Handled(r, x, NoLease, "404")
        /\ db' = [db EXCEPT !.subnets = Front(db.subnets), !.cluster[x] = Last(db.subnets)]
     \/ /\ ~Allocated(x) /\ db.subnets # <<>> /\ db.ips # <<>>
        /\ db' = TakeBoth(x)
        /\ Handled(r, x, LeaseIn(db', x), "200")
  /\ UNCHANGED <<file, server, told, forgotten, edited, counters>>

\* x gives up its lease, and any answer to another request of x that is on its way.
GiveUp(x) ==
  told' = [told EXCEPT ![x] = NoLease]

Outdated(x, frames) ==
  [q \in Requests |-> IF frames[q].experiment_id = x
                      THEN [frames[q] EXCEPT !.lease = NoLease] ELSE frames[q]]

\* Slip: the entries of "allocated" are not deleted.
ReturnWithoutDelete(x) ==
  [db EXCEPT !.subnets = Append(@, db.cluster[x]), !.ips = Append(@, db.metallb[x])]

\* Slip: the address is not given back.
ReturnSubnetOnly(x) ==
  [db EXCEPT !.subnets = Append(@, db.cluster[x]), !.cluster[x] = None, !.metallb[x] = None]

\* get_prefix gives both values back, then deletes both entries.
ReturnBoth(x) ==
  [db EXCEPT !.subnets = Append(@, db.cluster[x]), !.ips = Append(@, db.metallb[x]),
             !.cluster[x] = None, !.metallb[x] = None]

\* DELETE /prefixold/
DeletePrefix(r, x) ==
  LET Answered(label, status) ==
        /\ pc' = [pc EXCEPT ![r] = label]
        /\ frame' = Outdated(x, [frame EXCEPT ![r] = FrameOf(x, NoLease, status)])
  IN
  /\ LoopFree /\ pc[r] = "idle"
  /\ \/ /\ db.cluster[x] = None
        /\ Answered("save", "404") /\ UNCHANGED db
     \/ /\ db.cluster[x] # None /\ db.metallb[x] = None /\ Len(db.subnets) < MaxList
        /\ db' = [db EXCEPT !.subnets = Append(@, db.cluster[x])]
        /\ Answered("respond", "500")
     \/ /\ db.cluster[x] # None /\ db.metallb[x] # None
        /\ db' = ReturnBoth(x)
        /\ Answered("save", "200")
  /\ GiveUp(x)
  /\ UNCHANGED <<file, server, forgotten, edited, counters>>

\* Any request whose handler leaves db alone, an early return of those above included.
OtherRequest(r) ==
  /\ LoopFree /\ pc[r] = "idle"
  /\ Handled(r, None, NoLease, "200") \/ Raised(r, None)
  /\ UNCHANGED <<db, file, server, told, forgotten, edited, counters>>

\* The dependency check_role(["admin"]) of GET /reset/, which runs in a thread of its own.
CheckRole(r, u) ==
  /\ server = "up" /\ pc[r] = "idle" /\ resets < MaxResets
  /\ IF u \in db.admins THEN pc' = [pc EXCEPT ![r] = "reset"] /\ UNCHANGED frame
                       ELSE Handled(r, None, NoLease, "403")
  /\ resets' = resets + 1
  /\ UNCHANGED <<db, file, server, told, forgotten, edited, crashes, edits>>

\* What becomes of an edit that is in the file when the file is read, or written.
Fate(fate) == [edited EXCEPT !.fate = IF @ = "waiting" THEN fate ELSE @]

\* Slip: the lists are loaded, the roles are not.
ResetPools(r) ==
  /\ LoopFree /\ pc[r] = "reset"
  /\ db' = [file EXCEPT !.admins = db.admins]
  /\ forgotten' = forgotten \cup {x \in Experiments : LeaseIn(db, x) # LeaseIn(file, x)}
  /\ edited' = Fate("loaded")
  /\ Handled(r, None, NoLease, "200")
  /\ UNCHANGED <<file, server, told, counters>>

\* GET /reset/
GetReset(r) ==
  /\ LoopFree /\ pc[r] = "reset"
  /\ db' = file
  /\ forgotten' = forgotten \cup {x \in Experiments : LeaseIn(db, x) # LeaseIn(file, x)}
  /\ edited' = Fate("loaded")
  /\ Handled(r, None, NoLease, "200")
  /\ UNCHANGED <<file, server, told, counters>>

-----------------------------------------------------------------------------
\* Slip: the response is sent first.
RespondFirst(r) ==
  /\ LoopFree /\ pc[r] = "save"
  /\ pc' = [pc EXCEPT ![r] = "respond"]
  /\ UNCHANGED <<db, file, server, frame, told, forgotten, edited, counters>>

\* The middleware calls save_db(), which opens the file for writing.
SaveDb(r) ==
  /\ LoopFree /\ pc[r] = "save"
  /\ file' = Torn
  /\ edited' = Fate("overwritten")
  /\ pc' = [pc EXCEPT ![r] = "write"]
  /\ UNCHANGED <<db, server, frame, told, forgotten, counters>>

\* json.dump and the close of the file.
WriteDb(r) ==
  /\ server = "up" /\ pc[r] = "write"
  /\ file' = db
  /\ pc' = [pc EXCEPT ![r] = "respond"]
  /\ UNCHANGED <<db, server, frame, told, forgotten, edited, counters>>

Respond(r) ==
  /\ LoopFree /\ pc[r] = "respond"
  /\ told' = IF frame[r].lease = NoLease THEN told
             ELSE [told EXCEPT ![frame[r].experiment_id] = frame[r].lease]
  /\ pc' = [pc EXCEPT ![r] = "idle"]
  /\ frame' = [frame EXCEPT ![r] = NoFrame]
  /\ UNCHANGED <<db, file, server, forgotten, edited, counters>>

\* db = load_db() at import; a file that is not JSON stops the server right there.
Boot ==
  /\ server = "down" /\ file # Torn
  /\ db' = file /\ server' = "up"
  /\ edited' = Fate("loaded")
  /\ UNCHANGED <<file, pc, frame, told, forgotten, counters>>

\* uvicorn stops when no request is left, and shutdown_method() saves.
Shutdown ==
  /\ server = "up" /\ \A r \in Requests : pc[r] = "idle"
  /\ server' = "stopping" /\ file' = Torn
  /\ edited' = Fate("overwritten")
  /\ UNCHANGED <<db, pc, frame, told, forgotten, counters>>

FinishShutdown ==
  /\ server = "stopping"
  /\ server' = "down" /\ file' = db
  /\ UNCHANGED <<db, pc, frame, told, forgotten, edited, counters>>

Crash ==
  /\ server # "down" /\ crashes < MaxCrashes
  /\ server' = "down" /\ crashes' = crashes + 1
  /\ pc' = [r \in Requests |-> "idle"]
  /\ frame' = [r \in Requests |-> NoFrame]
  /\ UNCHANGED <<db, file, told, forgotten, edited, resets, edits>>

\* An operator changes who is an admin; the editor replaces a file that is whole.
EditFile(admins) ==
  /\ file # Torn /\ edits < MaxEdits
  /\ file' = [file EXCEPT !.admins = admins]
  /\ edited' = [admins |-> admins, fate |-> "waiting"]
  /\ edits' = edits + 1
  /\ UNCHANGED <<db, server, pc, frame, told, forgotten, crashes, resets>>

Next ==
  \/ \E r \in Requests :
       \/ \E x \in Experiments : PostPrefix(r, x) \/ DeletePrefix(r, x)
       \/ \E u \in Users : CheckRole(r, u)
       \/ OtherRequest(r) \/ GetReset(r) \/ SaveDb(r) \/ WriteDb(r) \/ Respond(r)
  \/ Boot \/ Shutdown \/ FinishShutdown \/ Crash
  \/ \E admins \in SUBSET Users : EditFile(admins)

Spec == Init /\ [][Next]_vars

-----------------------------------------------------------------------------
(***************************************************************************)
(* Type invariant: the value every variable of the model ranges over.      *)
(***************************************************************************)
TypeOK ==
  /\ db \in Database
  /\ file = Torn \/ file \in Database
  /\ server \in {"up", "stopping", "down"}
  /\ pc \in [Requests -> {"idle", "reset", "save", "write", "respond"}]
  /\ \A r \in Requests :
       /\ frame[r].experiment_id \in Experiments \cup {None}
       /\ frame[r].lease \in Lease \cup {NoLease}
       /\ frame[r].lease # NoLease => frame[r].experiment_id # None
  /\ told \in [Experiments -> Lease \cup {NoLease}]
  /\ forgotten \subseteq Experiments
  /\ edited \in [admins : SUBSET Users, fate : {"waiting", "loaded", "overwritten"}]
  /\ crashes \in 0..MaxCrashes /\ resets \in 0..MaxResets /\ edits \in 0..MaxEdits

Places(list, allocated, value) ==
  Cardinality({i \in DOMAIN list : list[i] = value})
    + Cardinality({x \in Experiments : allocated[x] = value})

\* In memory, and in the file a restart would load.
Databases == {db} \cup ({file} \ {Torn})

(***************************************************************************)
(* Every address is in one place and no other, the list of free ones or    *)
(* one experiment, in memory and in the file: a handler moves two values   *)
(* and may fail between the moves, and a crash, a reload or a reset may    *)
(* come between any two saves.                                             *)
(***************************************************************************)
IpsInOnePlace ==
  \A d \in Databases, ip \in Ips : Places(d.ips, d.metallb, ip) = 1

(***************************************************************************)
(* No subnet is lost, and a subnet is in two places only when one of them  *)
(* is an experiment for which no address was left: its DELETE gives the    *)
(* subnet back, fails, and leaves the entry behind (get_prefix, lines      *)
(* 695-702).                                                               *)
(***************************************************************************)
SubnetsInOnePlace ==
  \A d \in Databases, s \in Subnets :
    \/ Places(d.subnets, d.cluster, s) = 1
    \/ \E x \in Experiments : d.cluster[x] = s /\ d.metallb[x] = None

(***************************************************************************)
(* A lease an experiment was told survives a crash: as soon as the answer  *)
(* is out, and until the experiment asks for its release, the lease is in  *)
(* the file a restart would load, whatever other requests save meanwhile.  *)
(***************************************************************************)
ToldIsDurable ==
  file # Torn => \A x \in Experiments : told[x] # NoLease => told[x] = LeaseIn(file, x)

(***************************************************************************)
(* Without resets, and with an address for every subnet, this allocator    *)
(* keeps the promise of LeaseRegistry too, with leases that never expire.  *)
(***************************************************************************)
HeldLeases ==
  {[experiment_id |-> x, ip |-> told[x].lb, prefix |-> told[x].subnet, expiration_time |-> 0] :
     x \in {y \in Experiments : told[y] # NoLease}}

Registry == INSTANCE LeaseRegistry
  WITH held <- HeldLeases, now <- 0, PoolIps <- Ips, PoolSubnets <- Subnets, Times <- {0},
       MaxTime <- 0

ImplementsRegistry == Registry!RegistrySpec

(***************************************************************************)
(* "The function ensures resources are allocated only once per experiment" *)
(* (docstring of post_prefix, api.py line 607): what an experiment was     *)
(* told and has not released is what it is told again, unless a reset came *)
(* between a handler of its own and the save after it.                     *)
(***************************************************************************)
OncePerExperiment ==
  [][\A x \in Experiments \ forgotten :
       told[x] # NoLease /\ told'[x] # NoLease => told'[x] = told[x]]_vars

(***************************************************************************)
(* A change of the roles that a reset or a start has read is not undone by *)
(* the saves that follow, of requests that began before it included; only  *)
(* a save that comes before the reset may overwrite it (api.py lines 175   *)
(* and 344).                                                               *)
(***************************************************************************)
LoadedEditStays ==
  edited.fate = "loaded" =>
    /\ server # "down" => db.admins = edited.admins
    /\ file # Torn => file.admins = edited.admins

=============================================================================
