------------------------------ MODULE PosScripts ------------------------------
(***************************************************************************)
(* The scripts of an experiment.  POST /pos/script/ (ips/api.py) builds an *)
(* archive for the subnet an experiment leased and puts it into a bucket;  *)
(* pos_xp.py, on the node that runs the experiments, gets it into a        *)
(* directory and launches it.  The leases are those of LeaseRegistry: they *)
(* end while archives and directories stay.  The bucket and git are        *)
(* external.  The files of an archive are known by the number of its       *)
(* upload; of what is in them only the addresses count.                    *)
(***************************************************************************)
EXTENDS LeaseRegistry, Addressing, FiniteSets

CONSTANTS
  Commands,    \* runs of pos_xp.py
  MaxUploads,  \* bound on the uploads
  Brought,     \* addresses (multus.ips) that requests bring along
  None         \* no archive, or no experiment

ASSUME TimesAssumption == Times \subseteq Int
ASSUME BroughtAssumption == Brought \subseteq [Interfaces -> Nat]
ASSUME BoundsAssumption == MaxUploads \in Nat /\ MaxTime \in Nat
ASSUME SubnetsAssumption ==
  /\ PoolSubnets \subseteq Nat /\ \A s \in PoolSubnets : s % SubnetSize = 0
ASSUME NoneAssumption == None \notin Experiments

VARIABLES
  archive,   \* the bucket: the archive of each experiment, or None
  uploads,   \* uploads so far
  dir,       \* the directory of each experiment on the node
  pc,        \* what each command does next, or how it ended
  exp,       \* the experiment of each command
  launched   \* what the launches found

nodeVars == <<dir, pc, exp, launched>>
vars == <<held, now, archive, uploads, nodeVars>>

Uploads == 0..MaxUploads   \* 0: none
Archive == [upload : Uploads \ {0}, network : PoolSubnets, ips : [Interfaces -> Nat]]

\* The clone of the repository, pos.zip, and what was extracted: the charts,
\* pos/deploy.sh and the files of pos/ that deploy.sh uses.
Directory ==
  [repo : {"none", "cloning", "cloned"},
   zip : Uploads, charts : Uploads, deploy : Uploads, params : Uploads]

EmptyDir == [repo |-> "none", zip |-> 0, charts |-> 0, deploy |-> 0, params |-> 0]

Init ==
  /\ RegistryInit
  /\ archive = [x \in Experiments |-> None]
  /\ uploads = 0
  /\ dir = [x \in Experiments |-> EmptyDir]
  /\ pc = [c \in Commands |-> "start"]
  /\ exp = [c \in Commands |-> None]
  /\ launched = {}

-----------------------------------------------------------------------------
\* Leases are told, released and expire, as /prefix/ promises.
Leases == RegistryNext /\ UNCHANGED <<archive, uploads, nodeVars>>

\* Slip: the network is named by an address in it, which ipaddr keeps as net.ip.
PostWithHost(x) ==
  /\ uploads < MaxUploads
  /\ \E l \in held :
       /\ l.experiment_id = x
       /\ archive' = [archive EXCEPT ![x] = [upload |-> uploads + 1, network |-> l.prefix + 1,
                                            ips |-> genIPs(l.prefix + 1)]]
  /\ uploads' = uploads + 1
  /\ UNCHANGED <<held, now, nodeVars>>

(***************************************************************************)
(* POST /pos/script/ does not yield: generate_oai, the zip file, then the  *)
(* bucket.  Each may raise, and nothing was stored then.  The experiment   *)
(* asks for a subnet it was told, which may have expired since.  build()   *)
(* puts the addresses of genIPs into the charts, unless the request brings *)
(* some along, as a params.5g.yaml of an earlier archive does.             *)
(***************************************************************************)
PostPosScript(x) ==
  /\ uploads < MaxUploads
  /\ \E l \in held : \E ips \in {genIPs(l.prefix)} \cup Brought :
       /\ l.experiment_id = x
       /\ archive' = [archive EXCEPT ![x] = [upload |-> uploads + 1, network |-> l.prefix,
                                            ips |-> ips]]
  /\ uploads' = uploads + 1
  /\ UNCHANGED <<held, now, nodeVars>>

Goto(c, label) == pc' = [pc EXCEPT ![c] = label]

\* Command c writes in its directory and goes on.
Write(c, d, label) ==
  /\ dir' = [dir EXCEPT ![exp[c]] = d]
  /\ Goto(c, label)
  /\ UNCHANGED <<held, now, archive, uploads, exp, launched>>

Raise(c) == Write(c, dir[exp[c]], "raised")

\* The arguments; prepare_dir makes the directory if there is none.
Start(c, x) ==
  /\ pc[c] = "start"
  /\ Goto(c, "clone") \/ Goto(c, "launch")
  /\ exp' = [exp EXCEPT ![c] = x]
  /\ UNCHANGED <<held, now, archive, uploads, dir, launched>>

\* Slip: a clone that is there is taken for the own one.
CloneOrKeep(c) ==
  LET d == dir[exp[c]] IN
  /\ pc[c] = "clone"
  /\ IF d.repo = "cloned" THEN Write(c, d, "download")
                          ELSE Write(c, [d EXCEPT !.repo = "cloning"], "cloning")

\* Slip: a directory that is there is cleared for the clone.
CloneAnew(c) ==
  /\ pc[c] = "clone"
  /\ Write(c, [EmptyDir EXCEPT !.repo = "cloning"], "cloning")

\* Repo.clone_from: git refuses a directory that is not empty.
Clone(c) ==
  LET d == dir[exp[c]] IN
  /\ pc[c] = "clone"
  /\ IF d.repo = "none" THEN Write(c, [d EXCEPT !.repo = "cloning"], "cloning")
                        ELSE Raise(c)

\* A clone that fails takes away what it made.
EndClone(c) ==
  LET d == dir[exp[c]] IN
  /\ pc[c] = "cloning"
  /\ \/ Write(c, [d EXCEPT !.repo = "cloned"], "download")
     \/ Write(c, [d EXCEPT !.repo = "none"], "raised")

\* The credentials and download_file, which renames pos.zip into its place.
Download(c) ==
  LET x == exp[c] IN
  /\ pc[c] = "download"
  /\ \/ archive[x] # None /\ Write(c, [dir[x] EXCEPT !.zip = archive[x].upload], "charts")
     \/ Raise(c)

\* Slip: the scripts are put into the archive before the charts.
ScriptFirst(c) ==
  LET d == dir[exp[c]] IN
  \/ pc[c] = "charts" /\ Write(c, [d EXCEPT !.deploy = d.zip], "deploy")
  \/ pc[c] = "deploy" /\ Write(c, [d EXCEPT !.charts = d.zip], "params")
  \/ pc[c] = "params" /\ Write(c, [d EXCEPT !.params = d.zip], "got")

\* extractall goes through the archive in the order POST filled it.  What POST
\* stores is a zip file, so the test of is_zipfile passes.
Extract(c) ==
  LET d == dir[exp[c]] IN
  \/ pc[c] = "charts" /\ Write(c, [d EXCEPT !.charts = d.zip], "deploy")
  \/ pc[c] = "deploy" /\ Write(c, [d EXCEPT !.deploy = d.zip], "params")
  \/ pc[c] = "params" /\ Write(c, [d EXCEPT !.params = d.zip], "got")

\* launch_experiment: the shell finds no pos/deploy.sh, or may not execute it
\* (extractall does not restore the mode, somebody else has to), or runs it.
Launch(c) ==
  /\ pc[c] = "launch"
  /\ Goto(c, "done") \/ (dir[exp[c]].deploy # 0 /\ Goto(c, "run"))
  /\ UNCHANGED <<held, now, archive, uploads, dir, exp, launched>>

\* deploy.sh reads what is there when it gets to it.
Run(c) ==
  /\ pc[c] = "run"
  /\ launched' = launched \cup {dir[exp[c]]}
  /\ Goto(c, "done")
  /\ UNCHANGED <<held, now, archive, uploads, dir, exp>>

\* The user interrupts a command, which leaves everything as it is.
Kill(c) ==
  /\ pc[c] \notin {"start", "got", "done", "raised"}
  /\ Raise(c)

Command(c) ==
  \/ \E x \in Experiments : Start(c, x)
  \/ Clone(c) \/ EndClone(c) \/ Download(c) \/ Extract(c) \/ Launch(c) \/ Run(c) \/ Kill(c)

Next ==
  \/ Leases
  \/ \E x \in Experiments : PostPosScript(x)
  \/ \E c \in Commands : Command(c)

Spec == Init /\ [][Next]_vars

-----------------------------------------------------------------------------
(***************************************************************************)
(* Type invariant: the value every variable of the model ranges over.      *)
(***************************************************************************)
TypeOK ==
  /\ held \subseteq Lease /\ now \in 0..MaxTime
  /\ archive \in [Experiments -> Archive \cup {None}]
  /\ uploads \in Uploads
  /\ dir \in [Experiments -> Directory]
  /\ pc \in [Commands -> {"start", "clone", "cloning", "download", "charts", "deploy", "params",
                          "got", "launch", "run", "done", "raised"}]
  /\ \A c \in Commands : exp[c] \in Experiments \cup {None}
  /\ launched \subseteq Directory

\* The addresses of the charts lie in the subnet the archive was asked for.
Inside(a) == Addresses(a.ips) \subseteq a.network .. (a.network + SubnetSize - 1)

(***************************************************************************)
(* The archives two experiments built for the leases they hold now share   *)
(* an address only if a request brought addresses along that are not of    *)
(* its own subnet: what genIPs makes of one lease never reaches into       *)
(* another (gen_oai.py lines 17-65 and 175-177).                           *)
(***************************************************************************)
LiveArchivesDisjoint ==
  \A l, m \in held :
    LET a == archive[l.experiment_id]
        b == archive[m.experiment_id]
    IN
    /\ l # m /\ IsLive(l) /\ IsLive(m)
    /\ a # None /\ b # None /\ a.network = l.prefix /\ b.network = m.prefix
    /\ Addresses(a.ips) \cap Addresses(b.ips) # {}
    => \E c \in {a, b} : c.ips # genIPs(c.network) /\ ~Inside(c)

(***************************************************************************)
(* The scripts and charts of a directory come from one archive, however    *)
(* often they are posted again and however many commands get them          *)
(* (get_experiment, pos_xp.py lines 39-62).                                *)
(***************************************************************************)
OneUpload ==
  \A x \in Experiments : {dir[x].charts, dir[x].deploy, dir[x].params} \subseteq {0, dir[x].zip}

(***************************************************************************)
(* A deploy.sh that runs, though the get before it was interrupted or is   *)
(* still under way, finds the charts of the archive it is from.            *)
(***************************************************************************)
ScriptHasCharts == \A d \in launched : d.deploy # 0 /\ d.charts = d.deploy

(***************************************************************************)
(* Where a get ended without an error, the directory holds one upload as a *)
(* whole, and no command that gets, fails or is interrupted there later    *)
(* takes any of it away (get_experiment, pos_xp.py lines 39-62): a launch  *)
(* after it finds pos/5g.sh and the variables.                             *)
(***************************************************************************)
GetIsComplete ==
  \A c \in Commands : pc[c] = "got" =>
    LET d == dir[exp[c]] IN
    d.zip # 0 /\ d.charts = d.zip /\ d.deploy = d.zip /\ d.params = d.zip
=============================================================================
