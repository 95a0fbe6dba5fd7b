--------------------------- MODULE PosScriptsProofs ---------------------------
(***************************************************************************)
(* The addresses in the archives of live leases, for any pool of /27, and  *)
(* the directories on the node, for any number of commands and uploads.    *)
(***************************************************************************)
EXTENDS PosScripts, LeaseRegistryProofs

LEMMA OffsetBounded == \A i \in Interfaces : Offset[i] \in 0..17
  BY DEF Interfaces, Offset

LEMMA GenIPsTyped == \A net \in Nat : genIPs(net) \in [Interfaces -> Nat]
  <1> SUFFICES ASSUME NEW net \in Nat, NEW i \in Interfaces PROVE net + 2 + Offset[i] \in Nat
    BY DEF genIPs
  <1> QED
    BY OffsetBounded

Subnet(net) == net .. (net + SubnetSize - 1)

\* genIPs stays in the subnet it is given.
LEMMA AddressesInSubnet == \A net \in Nat : Addresses(genIPs(net)) \subseteq Subnet(net)
  <1> SUFFICES ASSUME NEW net \in Nat, NEW i \in Interfaces
               PROVE  genIPs(net)[i] \in Subnet(net)
    BY DEF Addresses
  <1>1. genIPs(net)[i] = net + 2 + Offset[i]
    BY DEF genIPs
  <1> QED
    BY <1>1, OffsetBounded DEF Subnet, SubnetSize

\* Two subnets of the pool are the same or share no address.
LEMMA SubnetsApart ==
  ASSUME NEW s \in Nat, NEW t \in Nat, s % SubnetSize = 0, t % SubnetSize = 0, s # t
  PROVE  Subnet(s) \cap Subnet(t) = {}
  <1>1. s + SubnetSize <= t \/ t + SubnetSize <= s
    BY DEF SubnetSize
  <1> QED
    BY <1>1 DEF Subnet, SubnetSize

LEMMA RegistryStep == [Next]_vars => [RegistryNext]_registryVars
  BY DEF Next, vars, nodeVars, registryVars, Leases, PostPosScript, Command, Write, Raise, Start,
         Clone, EndClone, Download, Extract, Launch, Run, Kill

(***************************************************************************)
(* Whoever builds and runs scripts leaves the leases alone: the promise of *)
(* /prefix/ is kept.                                                       *)
(***************************************************************************)
LEMMA RegistryKept == Spec => RegistrySpec
  <1>1. Init => RegistryInit
    BY DEF Init
  <1> QED
    BY <1>1, RegistryStep, PTL DEF Spec, RegistrySpec

(***************************************************************************)
(* The archives two experiments built for the leases they hold now share   *)
(* an address only if one of them brought addresses of another subnet      *)
(* along (build and genIPs, gen_oai.py lines 17-65 and 175-177), for every *)
(* pool of /27 subnets and whatever requests bring along.                  *)
(***************************************************************************)
THEOREM LiveArchivesDisjointAlways == Spec => []LiveArchivesDisjoint
  <1>1. HeldInv => LiveArchivesDisjoint
    <2> SUFFICES ASSUME HeldInv, NEW l \in held, NEW m \in held,
                        l # m, IsLive(l), IsLive(m),
                        archive[l.experiment_id].network = l.prefix,
                        archive[m.experiment_id].network = m.prefix,
                        \A c \in {archive[l.experiment_id], archive[m.experiment_id]} :
                          c.ips = genIPs(c.network) \/ Inside(c)
                 PROVE  Addresses(archive[l.experiment_id].ips)
                          \cap Addresses(archive[m.experiment_id].ips) = {}
      BY DEF LiveArchivesDisjoint
    <2>1. l.prefix # m.prefix
      BY DEF HeldInv, HeldExclusive, Overlap
    <2>2. l.prefix \in PoolSubnets /\ m.prefix \in PoolSubnets
      BY DEF HeldInv, HeldTyped, Lease
    <2>3. \A c \in {archive[l.experiment_id], archive[m.experiment_id]} :
            Addresses(c.ips) \subseteq Subnet(c.network)
      BY <2>2, AddressesInSubnet, SubnetsAssumption DEF Inside, Subnet
    <2>4. Subnet(l.prefix) \cap Subnet(m.prefix) = {}
      BY <2>1, <2>2, SubnetsApart, SubnetsAssumption
    <2> QED
      BY <2>3, <2>4
  <1>2. RegistryInit => HeldInv
    BY DEF RegistryInit, HeldInv, HeldTyped, HeldExclusive
  <1>3. HeldInv /\ [RegistryNext]_registryVars => HeldInv'
    BY HeldNext, TimesAssumption
  <1> QED
    BY <1>1, <1>2, <1>3, RegistryKept, PTL DEF RegistrySpec

-----------------------------------------------------------------------------
(***************************************************************************)
(* Of genIPs itself: interfaces that are deployed together have addresses  *)
(* of their own, and the distributed unit is pointed to its central unit   *)
(* (F1 of the CU and of the CU-CP share an address on purpose, gen_oai.py  *)
(* lines 44 and 51).                                                       *)
(***************************************************************************)
LEMMA AddressesDistinct == \A net \in Nat : Distinct(net)
  <1> SUFFICES ASSUME NEW net \in Nat, NEW s \in DOMAIN Splits,
                      NEW i \in Core \cup Splits[s], NEW j \in Core \cup Splits[s], i # j
               PROVE  genIPs(net)[i] # genIPs(net)[j]
    BY DEF Distinct
  <1>1. i \in Interfaces /\ j \in Interfaces
    BY DEF Core, Splits, Interfaces, Offset
  <1>2. Offset[i] # Offset[j]
    BY DEF Core, Splits, Offset
  <1>3. Offset[i] \in Int /\ Offset[j] \in Int
    BY <1>1, OffsetBounded
  <1> QED
    BY <1>1, <1>2, <1>3 DEF genIPs

LEMMA DuFindsCu == \A net \in Nat : F1Connected(net)
  BY DEF F1Connected, CuHost, CentralF1, genIPs, Interfaces, Offset

-----------------------------------------------------------------------------
(***************************************************************************)
(* The directories.  git makes a directory for one command only, and that  *)
(* command alone writes in it until it is done or killed.                  *)
(***************************************************************************)
BucketTyped ==
  /\ held \subseteq Lease /\ now \in 0..MaxTime
  /\ uploads \in Uploads
  /\ archive \in [Experiments -> Archive \cup {None}]

Labels == {"start", "clone", "cloning", "download", "charts", "deploy", "params", "got", "launch",
           "run", "done", "raised"}

\* The commands whose directory it is: git made it for them.
Writing == {"cloning", "download", "charts", "deploy", "params", "got"}

\* What a directory holds at any time.
DirOk(d) ==
  /\ d \in Directory
  /\ d.repo # "cloned" => d.zip = 0
  /\ {d.charts, d.deploy, d.params} \subseteq {0, d.zip}
  /\ d.deploy # 0 => d.charts = d.deploy

\* What a command that has come to a label finds there.
Finds(label, d) ==
  /\ label = "cloning" => d.repo = "cloning"
  /\ label \in Writing \ {"cloning"} => d.repo = "cloned"
  /\ label = "download" => d.zip = 0
  /\ label \in {"download", "charts", "deploy"} => d.deploy = 0 /\ d.params = 0
  /\ label \in {"charts", "deploy", "params", "got"} => d.zip # 0
  /\ label \in {"deploy", "params", "got"} => d.charts = d.zip
  /\ label \in {"params", "got"} => d.deploy = d.zip
  /\ label = "got" => d.params = d.zip
  /\ label = "run" => d.deploy # 0

NodeTyped ==
  /\ pc \in [Commands -> Labels] /\ exp \in [Commands -> Experiments \cup {None}]
  /\ dir \in [Experiments -> Directory] /\ launched \subseteq Directory
  /\ \A c \in Commands : pc[c] # "start" => exp[c] \in Experiments

OneWriter ==
  \A c, e \in Commands : pc[c] \in Writing /\ pc[e] \in Writing /\ exp[c] = exp[e] => c = e

NodeInv ==
  /\ NodeTyped /\ OneWriter
  /\ \A x \in Experiments : DirOk(dir[x])
  /\ \A c \in Commands : pc[c] # "start" => Finds(pc[c], dir[exp[c]])
  /\ ScriptHasCharts

LEMMA BucketNext == BucketTyped /\ [Next]_vars => BucketTyped'
  <1> SUFFICES ASSUME BucketTyped, [Next]_vars PROVE BucketTyped'
    OBVIOUS
  <1>1. CASE Leases
    <2>1. held' \subseteq Lease /\ now' \in 0..MaxTime
      BY <1>1, BoundsAssumption DEF Leases, RegistryNext, Tell, Release, Elapse, BucketTyped
    <2> QED
      BY <1>1, <2>1 DEF Leases, BucketTyped
  <1>2. ASSUME NEW x \in Experiments, PostPosScript(x) PROVE BucketTyped'
    <2>0. PICK l \in held : \E ips \in {genIPs(l.prefix)} \cup Brought :
            archive' = [archive EXCEPT ![x] = [upload |-> uploads + 1, network |-> l.prefix,
                                               ips |-> ips]]
      BY <1>2 DEF PostPosScript
    <2>1. PICK ips \in {genIPs(l.prefix)} \cup Brought :
            archive' = [archive EXCEPT ![x] = [upload |-> uploads + 1, network |-> l.prefix,
                                               ips |-> ips]]
      BY <2>0
    <2>2. l.prefix \in PoolSubnets
      BY DEF BucketTyped, Lease
    <2>5. ips \in [Interfaces -> Nat]
      <3>1. genIPs(l.prefix) \in [Interfaces -> Nat]
        BY <2>2, SubnetsAssumption, GenIPsTyped
      <3> QED
        BY <3>1, BroughtAssumption
    <2>3. uploads + 1 \in Uploads \ {0}
      BY <1>2, BoundsAssumption DEF BucketTyped, PostPosScript, Uploads
    <2>4. [upload |-> uploads + 1, network |-> l.prefix, ips |-> ips] \in Archive
      BY <2>2, <2>3, <2>5 DEF Archive
    <2> QED
      BY <1>2, <2>1, <2>3, <2>4 DEF PostPosScript, BucketTyped
  <1>3. CASE UNCHANGED <<held, now, archive, uploads>>
    BY <1>3 DEF BucketTyped
  <1> QED
    BY <1>1, <1>2, <1>3 DEF Next, vars, nodeVars, Command, Write, Raise, Start, Clone, EndClone,
                            Download, Extract, Launch, Run, Kill

\* A command that may write in its directory puts there what the next step
\* expects, and takes no script away from a command that runs it.
LEMMA WriteKeeps ==
  ASSUME NodeInv, NEW c \in Commands, NEW d, NEW label \in Labels \ {"start"}, Write(c, d, label),
         pc[c] # "start", DirOk(d), Finds(label, d),
         label \in Writing => pc[c] \in Writing \/ dir[exp[c]].repo = "none",
         d # dir[exp[c]] => pc[c] \in Writing \/ dir[exp[c]].repo = "none",
         dir[exp[c]].deploy # 0 => d.deploy # 0
  PROVE  NodeInv'
  <1> DEFINE x == exp[c]
  <1>1. NodeTyped /\ OneWriter /\ ScriptHasCharts /\ x \in Experiments
    BY DEF NodeInv, NodeTyped
  <1>2. /\ dir' = [dir EXCEPT ![x] = d] /\ pc' = [pc EXCEPT ![c] = label]
        /\ UNCHANGED <<exp, launched>>
    BY DEF Write, Goto
  <1>3. NodeTyped'
    BY <1>1, <1>2 DEF NodeTyped, DirOk
  <1>4. /\ dir'[x] = d /\ \A y \in Experiments \ {x} : dir'[y] = dir[y]
        /\ pc'[c] = label /\ \A e \in Commands \ {c} : pc'[e] = pc[e]
    BY <1>1, <1>2 DEF NodeTyped
  <1>5. ASSUME NEW e \in Commands \ {c}, exp[e] = x, pc[e] \in Writing
        PROVE  label \notin Writing /\ d = dir[x]
    <2>1. dir[x].repo # "none"
      BY <1>5 DEF NodeInv, Finds, Writing
    <2>2. pc[c] \notin Writing
      BY <1>1, <1>5 DEF OneWriter
    <2> QED
      BY <2>1, <2>2
  <1>6. OneWriter'
    BY <1>1, <1>2, <1>4, <1>5 DEF OneWriter
  <1>7. \A y \in Experiments : DirOk(dir'[y])
    BY <1>4 DEF NodeInv
  <1>8. ASSUME NEW e \in Commands, pc'[e] # "start" PROVE Finds(pc'[e], dir'[exp[e]])
    <2>1. CASE e = c
      BY <1>4, <2>1
    <2>2. CASE e # c /\ exp[e] # x
      <3>1. exp[e] \in Experiments
        BY <1>1, <1>4, <1>8, <2>2 DEF NodeTyped
      <3> QED
        BY <1>4, <1>8, <2>2, <3>1 DEF NodeInv
    <2>3. CASE e # c /\ exp[e] = x
      <3>1. Finds(pc[e], dir[x]) /\ pc'[e] = pc[e]
        BY <1>4, <1>8, <2>3 DEF NodeInv
      <3>2. CASE pc[e] \in Writing
        BY <1>4, <1>5, <2>3, <3>1, <3>2
      <3>3. CASE pc[e] \notin Writing
        BY <1>4, <2>3, <3>1, <3>3 DEF Finds, Writing
      <3> QED
        BY <3>2, <3>3
    <2> QED
      BY <2>1, <2>2, <2>3
  <1>9. ScriptHasCharts'
    BY <1>1, <1>2 DEF ScriptHasCharts
  <1> QED
    BY <1>2, <1>3, <1>6, <1>7, <1>8, <1>9 DEF NodeInv, DirOk, Finds

LEMMA NodeCommand ==
  ASSUME BucketTyped, NodeInv, NEW c \in Commands, Command(c)
  PROVE  NodeInv'
  <1> DEFINE d == dir[exp[c]]
  <1>0. /\ NodeTyped
        /\ pc[c] # "start" => exp[c] \in Experiments /\ DirOk(d) /\ Finds(pc[c], d) /\ d \in Directory
    BY DEF NodeInv, NodeTyped, DirOk
  <1>1. ASSUME NEW x \in Experiments, Start(c, x) PROVE NodeInv'
    <2>1. /\ pc'[c] \in {"clone", "launch"} /\ exp'[c] = x /\ UNCHANGED <<dir, launched>>
          /\ \A e \in Commands \ {c} : pc'[e] = pc[e] /\ exp'[e] = exp[e]
          /\ NodeTyped'
      BY <1>0, <1>1 DEF Start, Goto, NodeTyped, Labels
    <2>2. OneWriter'
      BY <2>1 DEF NodeInv, OneWriter, Writing
    <2>3. \A e \in Commands : pc'[e] # "start" => Finds(pc'[e], dir[exp'[e]])
      BY <2>1 DEF NodeInv, Finds, Writing
    <2> QED
      BY <2>1, <2>2, <2>3 DEF NodeInv, ScriptHasCharts, DirOk, Finds
  <1>2. ASSUME Raise(c), pc[c] # "start" PROVE NodeInv'
    <2>1. Finds("raised", d) /\ "raised" \in Labels \ {"start"} /\ "raised" \notin Writing
      BY DEF Finds, Writing, Labels
    <2> QED
      BY <1>0, <1>2, <2>1, WriteKeeps DEF Raise
  <1>3. CASE Clone(c) /\ ~Raise(c)
    <2> DEFINE new == [d EXCEPT !.repo = "cloning"]
    <2>1. pc[c] = "clone" /\ d.repo = "none" /\ Write(c, new, "cloning")
      BY <1>3 DEF Clone
    <2>2. DirOk(new) /\ Finds("cloning", new) /\ new.deploy = d.deploy
      BY <1>0, <2>1 DEF DirOk, Directory, Finds, Writing
    <2> HIDE DEF new
    <2> QED
      BY <2>1, <2>2, WriteKeeps DEF Labels
  <1>4. CASE EndClone(c)
    <2> DEFINE new(repo) == [d EXCEPT !.repo = repo]
    <2>1. pc[c] = "cloning" /\ d.repo = "cloning"
      BY <1>0, <1>4 DEF EndClone, Finds
    <2>2. /\ DirOk(new("cloned")) /\ Finds("download", new("cloned"))
          /\ DirOk(new("none")) /\ Finds("raised", new("none"))
          /\ new("cloned").deploy = d.deploy /\ new("none").deploy = d.deploy
      BY <1>0, <2>1 DEF DirOk, Directory, Finds, Writing
    <2>3. Write(c, new("cloned"), "download") \/ Write(c, new("none"), "raised")
      BY <1>4 DEF EndClone
    <2> HIDE DEF new
    <2> QED
      BY <2>1, <2>2, <2>3, WriteKeeps DEF Labels, Writing
  <1>5. CASE Download(c) /\ ~Raise(c)
    <2> DEFINE upload == archive[exp[c]].upload
               new == [d EXCEPT !.zip = upload]
    <2>1. pc[c] = "download" /\ archive[exp[c]] # None /\ Write(c, new, "charts")
      BY <1>5 DEF Download
    <2>2. upload \in Uploads \ {0}
      BY <1>0, <2>1 DEF BucketTyped, Archive
    <2> HIDE DEF upload
    <2>3. DirOk(new) /\ Finds("charts", new) /\ new.deploy = d.deploy
      BY <1>0, <2>1, <2>2 DEF DirOk, Directory, Finds, Writing
    <2> HIDE DEF new
    <2> QED
      BY <2>1, <2>3, WriteKeeps DEF Labels, Writing
  <1>6. CASE Extract(c)
    <2>1. CASE pc[c] = "charts" /\ Write(c, [d EXCEPT !.charts = d.zip], "deploy")
      <3> DEFINE new == [d EXCEPT !.charts = d.zip]
      <3>1. DirOk(new) /\ Finds("deploy", new) /\ new.deploy = d.deploy
        BY <1>0, <2>1 DEF DirOk, Directory, Finds, Writing
      <3> HIDE DEF new
      <3> QED
        BY <2>1, <3>1, WriteKeeps DEF new, Labels, Writing
    <2>2. CASE pc[c] = "deploy" /\ Write(c, [d EXCEPT !.deploy = d.zip], "params")
      <3> DEFINE new == [d EXCEPT !.deploy = d.zip]
      <3>1. DirOk(new) /\ Finds("params", new) /\ d.deploy = 0
        BY <1>0, <2>2 DEF DirOk, Directory, Finds, Writing
      <3> HIDE DEF new
      <3> QED
        BY <2>2, <3>1, WriteKeeps DEF new, Labels, Writing
    <2>3. CASE pc[c] = "params" /\ Write(c, [d EXCEPT !.params = d.zip], "got")
      <3> DEFINE new == [d EXCEPT !.params = d.zip]
      <3>1. DirOk(new) /\ Finds("got", new) /\ new.deploy = d.deploy
        BY <1>0, <2>3 DEF DirOk, Directory, Finds, Writing
      <3> HIDE DEF new
      <3> QED
        BY <2>3, <3>1, WriteKeeps DEF new, Labels, Writing
    <2> QED
      BY <1>6, <2>1, <2>2, <2>3 DEF Extract
  <1>7. CASE Launch(c) \/ Run(c)
    <2>1. /\ pc[c] # "start" /\ UNCHANGED <<dir, exp>>
          /\ pc'[c] \in {"done", "run"} /\ (pc'[c] = "run" => d.deploy # 0)
          /\ \A e \in Commands \ {c} : pc'[e] = pc[e]
          /\ pc' \in [Commands -> Labels]
      BY <1>0, <1>7 DEF Launch, Run, Goto, NodeTyped, Labels
    <2>2. launched' = launched \/ (launched' = launched \cup {d} /\ d.deploy # 0)
      BY <1>0, <1>7 DEF Launch, Run, Finds
    <2>3. NodeTyped' /\ OneWriter'
      BY <1>0, <2>1, <2>2 DEF NodeInv, NodeTyped, OneWriter, Writing
    <2>4. \A e \in Commands : pc'[e] # "start" => Finds(pc'[e], dir[exp[e]])
      BY <2>1 DEF NodeInv, Finds, Writing
    <2>5. ScriptHasCharts'
      BY <1>0, <2>1, <2>2 DEF NodeInv, ScriptHasCharts, DirOk
    <2> QED
      BY <2>1, <2>3, <2>4, <2>5 DEF NodeInv, DirOk, Finds
  <1> QED
    BY <1>1, <1>2, <1>3, <1>4, <1>5, <1>6, <1>7 DEF Command, Kill, Clone, Download

LEMMA NodeAlways == Spec => [](BucketTyped /\ NodeInv)
  <1>1. Init => BucketTyped /\ NodeInv
    <2> SUFFICES ASSUME Init PROVE BucketTyped /\ NodeInv
      OBVIOUS
    <2>1. BucketTyped
      BY BoundsAssumption DEF Init, RegistryInit, BucketTyped, Uploads
    <2>2. DirOk(EmptyDir)
      BY BoundsAssumption DEF DirOk, EmptyDir, Directory, Uploads
    <2>3. NodeInv
      BY <2>2 DEF Init, NodeInv, NodeTyped, OneWriter, ScriptHasCharts, Labels, Writing, DirOk
    <2> QED
      BY <2>1, <2>3
  <1>2. NodeInv /\ UNCHANGED nodeVars => NodeInv'
    BY DEF nodeVars, NodeInv, NodeTyped, OneWriter, ScriptHasCharts, DirOk, Finds
  <1>3. BucketTyped /\ NodeInv /\ [Next]_vars => NodeInv'
    BY <1>2, NodeCommand DEF Next, Leases, PostPosScript, vars
  <1> QED
    BY <1>1, <1>3, BucketNext, PTL DEF Spec

(***************************************************************************)
(* The variables keep their types.                                         *)
(***************************************************************************)
THEOREM ScriptsTypeCorrect == Spec => []TypeOK
  <1>1. BucketTyped /\ NodeInv => TypeOK
    BY DEF BucketTyped, NodeInv, NodeTyped, TypeOK, Labels
  <1> QED
    BY <1>1, NodeAlways, PTL

(***************************************************************************)
(* The scripts and charts of a directory come from one archive, however    *)
(* often an experiment posts and however many commands get or launch it    *)
(* (prepare_dir and Repo.clone_from, pos_xp.py): the second clone fails.   *)
(***************************************************************************)
THEOREM OneUploadAlways == Spec => []OneUpload
  <1>1. NodeInv => OneUpload
    BY DEF NodeInv, DirOk, OneUpload
  <1> QED
    BY <1>1, NodeAlways, PTL

(***************************************************************************)
(* A deploy.sh that runs finds the charts of its own archive, though the   *)
(* get was interrupted or is still under way: the charts come first in the *)
(* zip file.                                                               *)
(***************************************************************************)
THEOREM ScriptHasChartsAlways == Spec => []ScriptHasCharts
  <1>1. NodeInv => ScriptHasCharts
    BY DEF NodeInv
  <1> QED
    BY <1>1, NodeAlways, PTL

(***************************************************************************)
(* A get that ended without an error leaves one upload as a whole, and it  *)
(* stays so, whoever gets, launches or is interrupted there later          *)
(* (get_experiment, pos_xp.py lines 39-62).                                *)
(***************************************************************************)
THEOREM GetIsCompleteAlways == Spec => []GetIsComplete
  <1>1. NodeInv => GetIsComplete
    BY DEF NodeInv, Finds, GetIsComplete
  <1> QED
    BY <1>1, NodeAlways, PTL
=============================================================================
