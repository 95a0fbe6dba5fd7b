# TLA+ specifications of the SLICES backend

This directory models the stateful parts of the repository in TLA+, checks the
models with TLC on small instances and proves their safety properties with TLAPS
for every instance. `PROJECT.json` lists the components, the runs,
the source lines of every definition, the hazards and the findings.

## 1. The system

The repository holds four programs.

| program | language | state | entry points |
|---|---|---|---|
| `src/ips` | Python, FastAPI on uvicorn | `network_data.db` (SQLite), the global `db` and `/db.json`, S3 objects, temporary files | `/prefix/`, `/prefixold/`, `/reset/`, `/pos/`, `/pos/script/`, `/k8s/`, `/r2lab/` |
| `src/openapi` | Go, net/http | table `cores` of a SQLite file | `/core/`, `/core/{id}`, `/cores/` |
| `src/core` | Go, net/http | the global `Token`, a cookie in each browser | `/authentication`, `/redirect-call`, `/token`, `/logout` |
| `src/cli` | Python command line | none of its own; blueprints at the NFVCL, VMs at a local registrar | one process per command |

### Components, what they keep, what makes them correct

**`/prefix/` allocator** (`ips/allocations.py`, the `/prefix/` handlers of
`ips/api.py`). Tables `ips`, `subnets` and `allocations`; an allocation gives
one experiment an address, a subnet and an expiration time. POST purges the
expired rows, then looks for the experiment's row, then picks a free address,
a free subnet and inserts; DELETE removes the row; GET purges and lists. Each
statement opens the file anew, so a kill, the clock, a failing statement or
another process comes between any two. `allocations.py` run by itself is a
script that allocates in the same file. *Correct when* live leases never
overlap, what an experiment was told is stored, refusals happen only when the
pool is really exhausted, an expired row is reclaimed and never handed out,
nothing is lost from the pool.

**`/prefixold/` allocator** (`ips/api.py`). The global `db`: lists of free
subnets and addresses, two maps of allocated ones, and the roles of the users.
Handlers run to their end on the event loop; a middleware saves `db` to
`/db.json` after each request, `/reset/` reloads it, the shutdown saves it. An
operator who changes the roles edits the file. *Correct when* each
value is in one place, in memory and in the file, what was told survives
a crash, an experiment has one allocation, a change of the roles stays.

**Core registry** (`openapi/api/core.go`, `paths_core.go`). Rows with an id
and a state. Every request is a goroutine that reads, then writes.
*Correct when* a deleted core stays deleted, only a stopped core is deleted,
what is announced is stored, a missing core is a 404.

**OIDC login** (`core/main.go`). The callback exchanges a code and puts the
answer in a *global* `Token`, verifies it, and sets it as a cookie. Guarded pages
verify the cookie; the server exits when it cannot fetch the keys.
*Correct when* a browser gets the token of its own code, verified.

**Command line client** (`cli/src`). One process per command. `vm create` and
`k8s create` post a blueprint to the NFVCL, poll the task of the answer until
it is done, and register the machine with a local registrar; no exception is
handled, and no request has a timeout. The other commands read and print. *Correct when* only what was built
is registered, nothing is made twice, and a task that is done ends the loop.

**OAI addressing and templates** (`ips/oai/gen_oai.py`, `pos.py`). The
addresses of eighteen interfaces of the network functions, in the subnet of an
experiment, and the charts and scripts that name them. *Correct when*
interfaces that are deployed together differ, the distributed unit finds its
central unit, and two experiments do not collide.

**Scripts of an experiment** (`ips/api.py`, `pos_xp.py`, `get_scripts.py`,
`unzip.py`). POST `/pos/script/` builds an archive of the charts and the
scripts and stores it in S3 under the experiment. On the node `pos_xp.py get`
clones a repository into the directory of the experiment, downloads the
archive and extracts it there; `pos_xp.py launch` runs `deploy.sh`. *Correct
when* what runs is of one upload.

**Kubernetes users** (`ips/k8s`). POST `/k8s/{cluster}` runs `add.sh` on a host
of the cluster over ssh: if `RBAC/<user>` is not there, `add_user.sh` makes a
key and a signing request, deletes the old request of that name, applies and
approves the new one, fetches the certificate and writes the configuration.
Then `add.sh` prints the configuration and moves the directory, through one
named by the second, into `rbac.tar`. No command's failure stops the scripts.
The handler reads the output to its end, asks for no exit status and
answers what it has read.
*Correct when* a certificate belongs to the key beside it, what was answered
is in `rbac.tar` or still where a run left it, and a user is not locked out by
leftovers.

**Token checks and roles** guard the handlers; **R2lab** and the namespace
cleanup send one ssh command each; the **access control** of `openapi` is
commented out; the **proxy**, the **bucket utilities** and the **generated
bindings** keep no state.

The components interact little: the client calls the backends over HTTP; the
server and the script share `network_data.db`; `/prefix/` and `/prefixold/`
hand out the same fourteen subnets and 120 addresses from separate stores
(`pool.json`, `db.json`); `/pos/` renders what `/prefix/` allocated, and the
experiment keeps using it after the lease has ended.

### What is hard

* two processes on one SQLite file, a row read and a row written in different
  transactions, and an `INSERT` whose refusal is logged and forgotten;
* a clock that advances between the purge, the lookup and the answer; leases
  of zero or negative duration;
* statements or commits that fail in a handler that goes on all the same;
* a crash between the handler and its save, in the middle of the save, between
  a commit and the answer, between the two commits of the start;
* a reset, or an edit of the file, between a request and its save;
* a global that one callback fills between another's verification and its cookie;
* a core that another goroutine deletes or deploys between two statements;
* a client that stops, or whose answer is lost or never comes, between two requests;
* a directory that two commands, or one after another that failed, share;
* a signing request that outlives the run that made it, a certificate that is
  read before it is issued, a run that goes on after its server is gone, the
  output of a run that was killed and is answered all the same;
* addresses that a request brings along, beside those made of a lease.

`PROJECT.json` lists each at its line under "hazards".

## 2. Modules

| module | models | role |
|---|---|---|
| `LeaseRegistry` | what POST, DELETE and GET `/prefix/` promise | abstract specification |
| `Allocations` | `allocations.py` and the `/prefix/` handlers | detailed specification, implements `LeaseRegistry` |
| `LegacyPool` | `/prefixold/`, `/reset/` with its role check, `load_db`, `save_db`, the middleware, an operator's edit | detailed specification, implements `LeaseRegistry` without resets |
| `Cores` | `core.go` and the `/core/` handlers | detailed specification |
| `OidcLogin` | `core/main.go` and its token verification | detailed specification |
| `Provisioning` | the create commands of the client, with the NFVCL and the registrar around them | detailed specification, with liveness |
| `Addressing` | `genIPs` and the charts that use its result | functions on numbers |
| `PosScripts` | POST `/pos/script/`, the bucket, `pos_xp.py` | composes the leases of `LeaseRegistry` with `Addressing` and the node |
| `ClusterUsers` | POST `/k8s/{cluster}`, `add.sh`, `add_user.sh` | detailed specification |
| `LeaseRegistryProofs`, `AllocationsProofs`, `LegacyPoolProofs`, `CoresProofs`, `OidcLoginProofs`, `ProvisioningProofs`, `PosScriptsProofs`, `ClusterUsersProofs` | the specification each is named after | theorems |
| `MCAllocations`, `MCLegacyPool`, `MCCores`, `MCOidcLogin`, `MCProvisioning`, `MCPosScripts`, `MCClusterUsers` | | constants and symmetry for TLC |

### `LeaseRegistry`

`held` is the set of leases the experiments were told, `now` the clock. `Tell`
hands a lease to an experiment: a live lease of its own may only be repeated,
and a new one must not overlap a live one. `Release` forgets, `Elapse` is time.

### `Allocations`

`ips`, `subnets` and `allocations` are the tables (a row of `allocations` is a
record; `owner` and `allocation_time` are stored and never read, so they are
left out). Each process `p` serves one request at a time: `pc[p]` names the
next statement, `row[p]` is the handler's local variables, `arrival[p]` when
the request was accepted. uvicorn runs one process, and its `async` handlers
call `sqlite3` without awaiting, so one request at a time is what the code
does; the script is a second process.

| action | code |
|---|---|
| `Boot`, `AddIps`, `AddSubnets` | `create_db`: the tables, then one commit for each pool |
| `BeginPost`, `BeginDelete`, `BeginList`, `Deny` | a handler up to its first statement |
| `Purge` | `remove_expired_allocations`, its error swallowed |
| `Lookup` | the `SELECT` of `get_allocation` |
| `PickIp`, `PickPrefix` | the two `SELECT ... LIMIT 1` of `allocate_ip_to_subnet`; `PickPrefix` also reads the clock |
| `Insert` | the `INSERT`; `Conflict` are the UNIQUE and foreign-key constraints |
| `Answer` | the 200 of POST: the experiment is told |
| `Delete`, `AnswerDelete` | `delete_allocation` and what the handler makes of `rowcount` |
| `List` | `get_all_allocations` |
| `BeginScript`, `ScriptExit` | the loop at the end of `allocations.py` |
| `Crash`, `Tick` | a kill at any point; the clock |

SQLite gives no order for `LIMIT 1`, so the choice is nondeterministic. With
`DbErrors` every statement may raise, and a commit may fail after its
statement succeeded. `leases` is a history variable: what each experiment was
told last, dropped when it asks for a release (it cannot count on the lease
any more, whatever the answer is). `arrival` and `reply` are read by
properties only. The refinement maps `held` to `leases`: `Answer` is `Tell`,
`BeginDelete` is `Release`, `Tick` is `Elapse`, the rest stutters.

### `LegacyPool`

`db` is the global, `file` is `/db.json` (`Torn` between the `open(..., "w")`,
which truncates, and the close). A handler is one step, because nothing in it
awaits. The save and the response are steps of their own: the middleware awaits
the handler before it and the send after it. `LoopFree` says that nothing else
runs while `save_db` does. An exception other than `HTTPException` passes the
middleware by and skips the save (`Raised`). `told` is a history variable.

`CheckRole` is the dependency of `/reset/`, a plain function that FastAPI runs
in a thread, so it is a step before the handler and may see `db` at any
moment. `EditFile` is the operator: the roles are nowhere else, so this is how
they change; the editor replaces a whole file. `edited` (history) is the last
edit and its fate, `forgotten` (history) the experiments whose allocation a
reset changed.

### `Cores`

One goroutine per request, one SQL statement per step. `created` are the ids a
client can know: those that were announced, and those of the table, which GET
`/cores/` shows to anybody; `drawn` those `uuid.New` returned (never the same twice),
`missed[r]` (history) what was removed, or missed by a failing read, while `r`
was running. `overtaken` (history) are the requests during which their
core left the state `stopped`. `getCore` returns nil for a missing row and for an error alike,
`updateCore` and `deleteCore` log their errors.

### `OidcLogin`

One user per browser, one navigation at a time; `pc[b]` is how far it is, in the
browser, at the provider or in the server.

| action | code |
|---|---|
| `Visit`, `RequireAuth` | `requireAuth` and the handler behind it; that of `/token` clears the cookie |
| `Login` | `authUser`, the provider, the return to `/redirect-call` with a code |
| `Exchange` | `callback` up to the parsed answer: a token, JSON without `id_token`, or an error |
| `StoreData`, `StoreLength` | `json.Unmarshal(body, &Token)`, which keeps what it stored also when it then finds a field of another type and the callback ends in a 500 |
| `Verify` | the first read of `Token.IDToken` |
| `SetCookie` | the second read, the cookie, the redirect; or the 400 for a state that does not decode |
| `Fatal`, `Restart` | `log.Fatalf` in `VerifyToken`; somebody starts the server again |
| `Logout`, `Expire` | `/logout`; the life of a token |

The global is written and read without a lock, which is a data race. A Go string
is two words, so `token` has two fields, written in two steps; a reader that
finds them of different tokens gets `Mixed`, or the first of them if both have
the same length. `clean[b]` (history) says that no other callback wrote since
`b` began to. A goal `tilde` is a page whose URI has a `+` in its base64 form
(a `~` in the right place is enough): `authUser` does not escape it, so it
comes back as a space.

### `Provisioning`

| action | code |
|---|---|
| `Post`, `Posted` | `new_vm` or `new_cluster` up to `requests.post`, and from its answer |
| `Poll`, `Polled`, `Wake` | one turn of the loop of `get_blueprint_id`: up to `requests.get`, from its answer, its `sleep(1)` |
| `Register`, `Registered` | `register_vm` up to `requests.post`, and from its answer; the print |
| `Raise`, `Kill` | an exception, which nothing catches; the user interrupts the command |
| `TakePost`, `TakeRegister` | the NFVCL or the registrar takes a request up, also when its command has ended |
| `Build` | the NFVCL ends a task, as done or as failed |

Between a request and its answer the command is in a label of `Awaiting`, and
may stay there for ever: `requests.get` and `requests.post` are called without
a timeout.

A task is named by the blueprint it builds: that a finished task names its own
blueprint is the NFVCL's part (the client does not look at what `result` is,
so it may try to register `None`). `vm create` and `k8s create` take the same
steps. `RegisteredIsBuilt` and `NothingTwice` say what a retry or a loop that
looks for anything but `done` would break.

### `Addressing` and `PosScripts`

An address is a number, a subnet the number of its first address. `Offset` are
the additions of `genIPs`; `Splits` says which interfaces the charts of each
deployment hold, `CuHost` which one the chart of the distributed unit points
to. `cu_f1` and `cucp_f1` are both 8 on purpose: the two charts are never
deployed together and the distributed unit has one `cuHost` for both.

| action | code |
|---|---|
| `Leases` | any step of `LeaseRegistry`, which `Allocations` implements |
| `PostPosScript` | POST `/pos/script/`, which does not yield: charts, scripts, archive, bucket; the addresses are those of `genIPs`, or `multus.ips` of the request, taken as they are |
| `Start` | the arguments of `pos_xp.py` and `prepare_dir` |
| `Clone`, `EndClone` | `Repo.clone_from`; git refuses a directory that is not empty and takes away what a failed clone made |
| `Download` | `download_file` |
| `Extract` | `extractall`, in the order of the archive: charts, `deploy.sh`, the other files of `pos/` |
| `Launch`, `Run` | `launch_experiment`, whose shell may find no `deploy.sh` or may not execute it, and what `deploy.sh` then finds |
| `Kill` | the user interrupts the command, which leaves everything as it is |

`dir[x]` is the directory of `x`, each part known by the number of the upload
it is from; an archive holds its addresses as well. `Brought` are the addresses
that requests bring along, as a client does that takes the `params.5g.yaml` of
an archive it got before for its next request. An experiment asks for scripts
with a subnet it was told, live or expired: the handler does not ask the
registry. `OneUpload` holds because git
refuses the second `get` before it downloads, and so does `GetIsComplete`: what
a `get` has brought is not touched again; `ScriptHasCharts` because the
archive has the charts before the script. `extractall` does not restore the
mode of a file, so `deploy.sh` runs only once somebody has made it executable;
the model has both outcomes. boto3 downloads into a
temporary file and renames it, which the model takes as one step.

### `ClusterUsers`

Each command of the two scripts that touches a file or a signing request is a
step, and may find what another run left or took away.

| action | code |
|---|---|
| `Post`, `Answer` | `post_kubeconfig` up to the ssh command, and from the end of its output |
| `Check` | the two `if` of `add.sh`, lines 12 to 22 |
| `Genrsa` | `mkdir -p`, the key and the request made with it |
| `DeleteRequest`, `ApplyRequest`, `ApproveRequest`, `Fetch` | the four `kubectl` commands; each may fail and the script goes on |
| `WriteConfig`, `SetCredentials` | the file without credentials, then `kubectl config` |
| `Cat` | the output of `add.sh` |
| `MakeDated`, `Move`, `PutAway` | `d=$(date +%s)`, `mkdir`, `mv`, `tar -uf`, `rm -r` |
| `Issue` | the signer of the cluster |
| `ConnectionLost` | the server ends, or its connection to the host: what arrived is answered, if anybody is there to do so, and the run goes on |
| `BrokenPipe` | an `echo` of `add_user.sh` whose output nobody reads any more ends that script, and `add.sh` goes on |
| `HostStop` | the host stops in the middle of a run; what it printed is answered |
| `Tick` | the second changes, of which only `date` takes notice |

The output of a run is one value: its configuration, the error text, or `Null`
for nothing and for a part (`yaml.safe_load` makes `None` or a stump of it, or
raises, and then there is no answer). `Prints` loses what a run prints for
nobody.

`overlapped`, `cut` and the `clean` of a configuration are history: which runs
met another on the host, which runs were cut short or lost whoever waited for
them, whether a run had the request deleted and the directory to itself.
The server starts runs one after another, so two meet only after a lost
connection or a crash of the server. The role bindings are left out, as nothing
reads them, and local commands (`mkdir`, `openssl`, `tar`) do not fail.

### Slips

An operator whose comment starts with *Slip* is a plausible mistake in the
definition after it (a forgotten guard, a missing commit, a swapped order). No
specification uses them. Substituted for the operator it precedes, each makes
the property it is paired with in `PROJECT.json` fail: they show that the
properties would notice.

## 3. Runs

Each row is one TLC run; states are distinct states.

| run | instance | shows |
|---|---|---|
| `alloc_server` | 1 server, 3 experiments, 2 + 2 values, 1 crash, durations 0 and 2 (785,000 states) | a working database: no POST answers with a lease that had expired; a refusal means live leases hold the pool; expired rows are reclaimed |
| `alloc_failures` | the same, any statement or commit may fail, durations -1 and 2 (383,000) | live leases stay exclusive and stored, and the promise is kept |
| `alloc_script` | server and script, 1 address, 2 subnets, failures, a crash (1,050,000) | the tables still account for the whole pool |
| `alloc_ghost` | server and script | **fails**: both pick one address, the refused `INSERT` is forgotten and its triple returned |
| `legacy_pool` | 3 requests, 3 experiments, 2 + 2 values, 2 crashes, shutdowns, no reset (42,000) | what was told is durable; the promise is kept |
| `legacy_reset` | 2 requests, 3 experiments, 3 subnets, 2 addresses, 1 reset, 1 edit, no crash (2,540,000) | every value stays in one place; an edit that was loaded stays; an experiment is given another allocation only after a reset dropped its own |
| `cores` | 3 requests, 2 cores, failing statements (796,000) | no resurrection; nil only after a race or a failed read; a core that is not stopped is deleted only after a race |
| `oidc` | 2 browsers, 2 logins each, 1 exit, expiry (4,416,000) | a callback that no other disturbed gives its browser the token it received |
| `oidc_crosstalk` | 2 browsers, 1 login each, every answer a token | **fails**: a browser gets the other user's token |
| `provisioning` | 3 commands, 3 blueprints (318,000) | only what was built is registered; nothing is made twice; a task that is done is noticed, unless a request is never answered |
| `scripts` | 2 experiments, 2 neighbouring subnets, 2 addresses, 2 uploads, the addresses of one subnet to bring along, 2 commands on the node (268,000) | the addresses that are made of two live leases do not collide; a directory is of one upload; what a `get` brought stays; a script finds its charts |
| `kubeconfig` | 3 runs for 1 user, 1 lost connection, 1 stop of the host, 2 seconds (3,847,000) | certificates fit their keys; what a whole run answered is archived; nothing that was answered is lost unless two runs met; the error only after a run that was cut short |

**Bounds.** `MaxTime` 2 lets a lease be live, end on the dot and be expired,
and a second request be served after that. Three experiments on two values make
the pool run out and hand a reclaimed value to a third. One crash is enough to
meet every `pc`, because nothing but the tables survives and the tables of the
next start are those any crash leaves; `legacy_pool` has two, so that a
restart from a saved file is followed by another. `legacy_reset` has none: a
shutdown and a start already load the file, and the crash is `legacy_pool`'s
question. Two requests suffice there: one to load, one that began before; a
third experiment finds a subnet and no address. `MaxList` bounds the free
list, which a failing DELETE of `LegacyPool` lengthens each time it is retried;
it is the number of subnets, which is enough for the same subnet to be in the list
twice. Two ids and three requests
suffice for `Cores`: the code never relates two cores, and the longest race
(read, delete, write) takes two requests and a third to create or stop. In
`alloc_server` negative durations are left out: a client that asks for one
asks for a lease that has expired, and `alloc_failures` covers them. The
instances of the failing runs are small ones that show the behaviour.

Two browsers are enough for
`OidcLogin`: a callback is disturbed by one other, and two logins each let an old
token be in the global when a new one comes. In `Provisioning` the commands
never meet, except in the NFVCL; three of them would show a blueprint of one in
the hands of another. In `scripts` the subnets are neighbours (32 and 64), so
an address past the end of one is in the other; with two uploads for an
experiment and two commands, one can get or launch what the other is still
writing, and a third command would find the directory as the second did.
`MaxTime` 1 lets a lease end while its archive stays. `OldParams`
brings along the addresses of one of the two subnets, which may be leased to the
experiment itself, to the other or to nobody, so a collision that the code
allows does happen in the instance. In `kubeconfig` three runs are one that is
cut short, one that goes on beside it after a lost connection, and one that
finds what both left; two seconds are the same and another. One user is the
hard case, since runs of different users share nothing but a dated directory
when they overlap; the theorems are for any number of users.

**Symmetry** permutes experiments, pool values, requests and ids where no
definition tells them apart, and is off in `alloc_server`, which checks a
liveness property. With a script the experiments differ and only the pool is
symmetric.

**Fairness.** `FairSpec` has weak fairness on `Statement(p)`: a process that is
executing a request goes on. Nothing makes requests arrive, servers start or
crashes happen. `ExpiredReclaimed` therefore assumes what the code needs,
that requests which purge are served again and again: there is no background
purge, and without requests expired rows stay for ever. `Provisioning` has weak
fairness on `OwnStep(c)`: what a command does by itself, to send a request or
to wake up. No answer is owed, neither by the NFVCL nor by the registrar: a
request may hang for ever, and a task may run for ever. `DoneIsNoticed` therefore
says that a command whose task is done ends, or waits for ever for one answer;
what it denies is a loop that goes on polling.

**Deadlock** is checked, with three exceptions, each where the system really
stops. In `legacy_pool` a crash may tear `/db.json`; `load_db` then raises at
import, and the server does not start again until somebody repairs the file.
In `provisioning` and `kubeconfig` every command and every run ends.

## 4. What is proved

Every type invariant, safety invariant, action property and refinement that a
passing run checks is a theorem as well: the run shows it on a small instance,
the theorem for every value of the constants. Each proof module holds one
inductive invariant for each group of theorems; TLC checked these invariants as
they stand before they were proved.

The constants are assumed to be what the code takes them for: pools are finite,
bounds are numbers, and a value that stands for "nothing", "torn", "absent" or an error
text is none of the values it is compared with (`NoneAssumption`,
`TornAssumption`, `AbsentAssumption`, `ValuesAssumption`). What a theorem needs
beyond that is a hypothesis of its own:

| hypothesis | says | justified by |
|---|---|---|
| `SingleProcess` | one server, no script | uvicorn runs one process; without it `alloc_ghost` is a counterexample |
| `WorkingDb` | no statement fails | a purge that fails is logged and not repeated, so expired rows are handed out and hold the pool |
| `Durations \subseteq Nat` | no negative duration is asked for | a lease that is over when it is asked for is answered as it is |
| `MaxResets = 0` | GET `/reset/` is not used | a reset drops what was not saved (section 5) |
| `EnoughIps` | an address for every subnet | the code has 14 subnets and 120 addresses |

### `/prefix/`: `AllocationsProofs`, `LeaseRegistryProofs`

For every pool, every set of experiments, any durations and bounds, crashes,
with or without failing statements unless the table says otherwise.

| theorem | hypotheses | statement |
|---|---|---|
| `TypeCorrect` | | `TypeOK` |
| `TablesConsistent` | | rows are unique in each column and refer to the pool (`TableInv`) |
| `AccountedAlways` | | free plus allocated is the whole pool, for addresses and for subnets |
| `LeaseBackedAlways` | `SingleProcess` | a live lease that was told is a row |
| `LeasesExclusiveAlways` | `SingleProcess` | live leases of two experiments are disjoint |
| `ImplementsRegistryAlways` | `SingleProcess` | every step is a step of `LeaseRegistry` or a stutter |
| `RefusedOnlyWhenFullAlways` | `SingleProcess`, `WorkingDb` | a 404 of POST means that live leases hold the pool |
| `AnswersAreFreshAlways` | `SingleProcess`, `WorkingDb`, `Durations \subseteq Nat` | no POST answers with a lease that had expired |
| `HeldExclusiveAlways` | | of the promise itself: live leases are exclusive |

The argument has four layers.

1. `TypeInv` adds to `TypeOK` what each statement needs of its frame
   (`FrameTyped`): by the `INSERT` the experiment, the address and the subnet
   are set. `TypeOK` alone does not say that the inserted row is an allocation.
2. `TableInv` adds `UniqueRows` and `ForeignKeys`. They are inductive without
   any statement about the frames, because `Insert` tests `Conflict` itself:
   this is why the tables are safe with any number of processes. `Accounted`
   follows by counting: a column with unique values is in bijection with the
   rows (`ColumnCount`).
3. `LeaseInv` adds `LeaseBacked` and `FrameCurrent`: between two statements the
   frame still describes the tables (no row for the experiment, the picked
   address and subnet still free, the answer stored). Only the absence of a
   second writer makes it inductive. From it no `INSERT` conflicts, so the
   triple that is returned is the stored one. `LeasesExclusive` follows from
   `LeaseBacked` and `UniqueRows`.
4. `FreshInv` says what a purge leaves for the request it belongs to: from the
   purge to the answer no row had expired when the request arrived. The clock
   does not disturb it (it speaks of the arrival, not of now), the purge
   establishes it only if it does not fail, and a second process could add a
   row in between.

### `/prefixold/`: `LegacyPoolProofs`

For every pool, any number of requests and experiments, and any crashes,
shutdowns, resets and edits unless the table says otherwise.

| theorem | hypotheses | statement |
|---|---|---|
| `LegacyTypeCorrect` | | `TypeOK` |
| `IpsInOnePlaceAlways` | | an address is free once or allocated once, in the global and in the file |
| `SubnetsInOnePlaceAlways` | | so is a subnet, unless its experiment got no address with it |
| `LoadedEditStaysAlways` | | an edit of the roles that was loaded stays |
| `OncePerExperimentAlways` | | an experiment that no reset forgot is told one lease until it releases it |
| `DurableUntilReset` | | what was told is in the file, until a reset drops something |
| `ToldIsDurableAlways` | `MaxResets = 0` | what was told is in the file |
| `LegacyImplementsRegistry` | `MaxResets = 0`, `EnoughIps` | every step is a step of `LeaseRegistry` or a stutter |

`DbInv` is the invariant of one database, and it is asked of the global and of
the file alike, because a save copies one to the other and a start copies it
back. It says more than that every value is in one place: no experiment has an
address without a subnet (`Paired`), so a DELETE gives both back, or in the state
that `SubnetsInOnePlace` names the subnet alone. Counting is left to one lemma
(`OnePlaceCounted`); the handlers are three list operations, each with a lemma
of its own (`TakenInOnePlace` for `pop`, two for giving back). `FileInv`
says who may have torn the file: one request or the shutdown that is writing
it, or nobody that still runs. `LeaseInv` follows an answer on its way: it is in
the global when the handler has ended, in the file when the save has, and what
was told is in both, but for experiments in `forgotten`. This is the part that
makes `ToldIsDurable` inductive. `EditInv` adds to `LoadedEditStays` that an edit which waits to be
loaded is in the file. For the refinement, `PlentyInv` counts: there are at
least as many free addresses as free subnets, so no POST finds a subnet and no
address, and the lease that is told overlaps no other.

### Core registry: `CoresProofs`

For any number of cores and requests, failing statements included.

| theorem | statement |
|---|---|
| `CoresTypeCorrect` | `TypeOK` |
| `NeverResurrectedAlways` | a deleted core never comes back |
| `PanicOnlyWhenMissedAlways` | a nil core is dereferenced only after a race or a failed read |
| `DeletedWhenStoppedAlways` | a core that is not stopped is deleted only after a race |

The invariant relates each request to the table between its two accesses. The id
of a creation is known to nobody else (`IdKnown`, `CreatedOnce`), so no
`INSERT` meets a core that was announced; an `UPDATE` of a row that is gone
changes nothing. A row that was found and is gone at the second read is in
`missed` (`ReadBefore`); one that was stopped at the check and is not at the
`DELETE` makes its request `overtaken` (`CheckedBefore`).

### Login and client: `OidcLoginProofs`, `ProvisioningProofs`

For any number of browsers, logins and exits; for any number of commands and
blueprints.

| theorem | statement |
|---|---|
| `LoginTypeCorrect` | `TypeOK` |
| `LoginIsOwnAlways` | a clean callback gives its browser the token it received |
| `ProvisioningTypeCorrect` | `TypeOK` |
| `RegisteredIsBuiltAlways` | what is registered was built for the command that registered it |
| `NothingTwiceAlways` | one blueprint at most for a command, one registration at most for a blueprint |

For `OidcLogin` the strengthening is `TokenIsMine`: while a callback is clean the
global holds what it wrote, in whole once its write is over, and nobody else is
half way through a write. The last part is what makes it inductive: a write
that began before would end after.

For `Provisioning` the invariant `Inv` adds to `TypeOK` who holds which task: a
blueprint that was not accepted has no maker, a command before its POST made
none, a command that holds a task made it, and a blueprint is registered by a
command past its loop; and who still has a request under way, since it may be taken up
when its command is gone. `RegisteredIsBuilt` alone is not inductive,
because two commands might share a task.

### Scripts of an experiment: `PosScriptsProofs`

For every pool whose subnets are multiples of 32, any number of experiments,
uploads and commands.

| theorem | statement |
|---|---|
| `ScriptsTypeCorrect` | `TypeOK` |
| `LiveArchivesDisjointAlways` | the archives of two live leases share an address only if one of them was brought addresses that are not of its own subnet |
| `OneUploadAlways` | the files of a directory come from one archive |
| `ScriptHasChartsAlways` | a script that runs finds the charts of its own archive |
| `GetIsCompleteAlways` | what a `get` that ended without an error brought stays, as a whole |

Every step is a step of `LeaseRegistry` or leaves the leases
alone (`RegistryStep`), so `LeaseRegistryProofs!HeldExclusiveAlways` holds here
too: live leases have different subnets, different subnets are at least 32
apart (`SubnetsApart`), and `genIPs` adds at most 19 (`OffsetBounded`). What
the property excepts is exactly the branch that skips `genIPs`, for addresses
outside the archive's own subnet. Two lemmas keep what there is to know of the
offsets: interfaces deployed together differ (`AddressesDistinct`), and the
distributed unit is pointed to its central unit (`DuFindsCu`).

On the node the argument is `OneWriter`: a directory is written by one command
at a time, because only the command that made it gets past the clone. `DirOk`
says what a directory holds at any time, also after a command was interrupted,
and `Finds` what the command that is writing it finds there.

### Kubernetes users: `ClusterUsersProofs`

For any number of users and runs, and any lost connections, crashes of the
server and stops of the host.

| theorem | statement |
|---|---|
| `ClusterTypeCorrect` | `TypeOK` |
| `CertificateFitsAlways` | an answered configuration that is clean holds no certificate of another key |
| `AnsweredIsArchivedAlways` | what was answered for a run that was alone and came to its end is in `rbac.tar` |
| `AnsweredIsKeptAlways` | as long as no two runs met, what was answered is in `rbac.tar`, in a dated directory or in `RBAC` |
| `ErrorOnlyWhenCutAlways` | the error is told only to users with a run that was cut short |

`AloneInv` carries the others: the server waits for every run that it did not
lose, so a run that did not overlap is the only one on the host.
`ErrorInv`: a directory without a configuration is one that a run is filling,
or belongs to a user with a run in `cut`; a run at the check fills nothing, so
at the check it is the latter. `KeyInv`: between the deletion of the old
request and the fetch, the request of a lone run is of the key in the
directory, unless the deletion failed and the directory is not clean.
`ClockInv`: a directory named by the current second belongs to a run that is
between `mkdir` and `rm`, as a stop of the host takes longer than a second. So
a lone run finds none, the `mv` cannot be refused, and `ArchiveInv` follows its
configuration from the output through the directory into the archive.
`KeptInv` asks of what was printed or answered, also by a run that was killed,
that it is in one of the three places: a run that starts on a directory with a
configuration goes to `cat` and writes nothing in it, and `rm` removes only
what `tar` has taken.

### Model-checked only

`ExpiredReclaimed` and `DoneIsNoticed`: the prover does not reason about liveness under
fairness or about ENABLED. The instances show them, and no theorem does.

## 5. Findings

1. `allocate_ip_to_subnet` returns a triple whose `INSERT` was refused, when
   the script picked the same address (`alloc_ghost`).
2. Two logins at a time may swap tokens (`oidc_crosstalk`).

The models show more, where a property that holds names the exception, or where
nothing in the repository says otherwise:

* `delete_allocation` returns the `rowcount` of a statement whose commit failed
  and was rolled back, so a DELETE of `/prefix/` is answered as a release and
  the row is still there.
* `/reset/` drops an allocation whose request has not been saved, and the
  experiment is then given another: `forgotten` in `OncePerExperiment`.
* An edit of the roles in `/db.json` is overwritten when a request is saved
  before the reset: `LoadedEditStays` speaks of edits that were loaded.
* With fewer addresses than subnets a POST of `/prefixold/` may record a subnet
  and find no address; the DELETE that follows gives the subnet back, raises
  `KeyError` and leaves the entry, so the subnet is free and allocated at once,
  and repeating the DELETE puts it in the list again: two experiments can then
  be told the same subnet. `SubnetsInOnePlace` names that state as its only
  exception.
* A crash in the middle of a save tears `/db.json`, and the server does not
  start again.
* A core that another request deploys after the check of a DELETE is deleted:
  `overtaken` in `DeletedWhenStopped`. A core whose `INSERT` failed is announced with 201.
* A login for a URI whose base64 holds a `+` ends in a 400 after the token was
  verified.
* A task that fails is polled for ever; a request that is never answered blocks
  its command for ever; a command that ends early leaves a blueprint that nobody
  registers.
* Addresses that a request brings along are not compared with its subnet: an
  experiment that takes an old `params.5g.yaml` to its next subnet may share
  addresses with the experiment that holds the old one now: `Inside` in
  `LiveArchivesDisjoint`.
* A `launch` after a `get` that was interrupted may find `deploy.sh` without the
  files of `pos/` it uses; `extractall` leaves `deploy.sh` without the mode to
  be executed.
* The configuration of a user may hold no certificate, because nothing waits
  for the signer (`CertificateFits` allows it). A run that is cut short leaves
  `RBAC/<user>` without a configuration, and every later request of that user
  is answered with the text of an error, with status 200: `cut` in
  `ErrorOnlyWhenCut`. Two runs in the same second share a directory:
  `overlapped` in `AnsweredIsArchived` and `AnsweredIsKept`. A run that is killed
  before `cat` is answered with `null` and status 200, one that is killed between
  `cat` and `tar` with a configuration that is not in
  `rbac.tar`: `cut` in `AnsweredIsArchived`; `AnsweredIsKept` says where it is.

Met while reading and not modelled: a comma is missing at `api.py:466` between
`"qhat02"` and `"qhat03"`, so R2lab offers one device `qhat02qhat03` in place
of the two.

## 6. Plan

Every module planned so far is written, with its runs. Two ideas were dropped.
A composition of `Allocations` and `LegacyPool`, which hand out the same
values, would have nothing to check: no code relates the two stores. The life
of a core as an abstract specification (created, deployed, stopped, deleted) is
not what `Cores` implements: two requests that race take a core from any of
these states to any other but back from deleted. `NeverResurrected` and
`DeletedWhenStopped` say what is left of it.

Every safety property of the runs is a theorem. What the proofs leave is the
liveness of section 4, which stays with TLC, and the limits of the models
themselves, which section 7 lists.

## 7. Not modelled

* Text: templates, rendered scripts, log lines, the layout of JSON answers and
  of the payloads of the client.
* S3, git, ssh, Kubernetes, SLICES, the NFVCL and the registrar themselves, and
  the parts of the code that only forward to them: R2lab power, the namespace
  cleanup, GET `/pos/`, GET `/pos/script/{id}`, the client's `vm list`,
  `flavor list` and `k8s kubeconfig`. `unzip.py` extracts one archive;
  `ssh.py` is used by no command.
* The load-balancer address that a request to `/pos/script/` names is text; the
  subnet is related to a lease, `multus.ips` to the subnet.
* An experiment that keeps running when its lease ends: nothing in the code
  stops it, so its addresses may collide with those of the next holder. The
  model has those states; `LiveArchivesDisjoint` speaks of live leases.
* `network_data.db` lives in the container, which the documentation does not
  mount: a new container starts empty. The model keeps the file across
  crashes, as a restart of the same container does.
* Times are numbers. The code compares text in the format of
  `CURRENT_TIMESTAMP`, whose order is that of the times for the years 1000 to
  9999.
* Access control of `openapi` (commented out), the proxy, the bucket
  utilities, the generated bindings.

## 8. Running

    tlc -config AllocServer.cfg MCAllocations
    tlapm AllocationsProofs.tla

and so on for each run of `PROJECT.json`.
