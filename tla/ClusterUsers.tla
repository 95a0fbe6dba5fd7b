----------------------------- MODULE ClusterUsers -----------------------------
(***************************************************************************)
(* POST /k8s/{cluster} (ips/api.py) runs k8s/add.sh on a host of the       *)
(* cluster over ssh: it creates the user (add_user.sh), prints the         *)
(* configuration and puts the files away in rbac.tar.  The handler does    *)
(* not yield, so the server has one run at a time; a run goes on when the  *)
(* server that started it, or its connection, is gone.  The handler reads  *)
(* to the end of the output and asks for no exit status, so what a run     *)
(* that was cut short has printed is answered like the rest.  The scripts  *)
(* go on after a command that fails.  The cluster (signing requests) and   *)
(* the host are external; the role bindings are not modelled, nothing      *)
(* reads them.                                                             *)
(***************************************************************************)
EXTENDS Naturals, FiniteSets

CONSTANTS
  Users,       \* preferred_username of the tokens
  Runs,        \* runs of add.sh, one for each request
  MaxSeconds,  \* bound on the clock of the host
  MaxLosses,   \* bound on the crashes of the server and the lost connections
  MaxStops,    \* bound on the stops of the host
  Error,       \* "Error: $config_file does not exist."
  Null,        \* no output, or only a part of it: yaml.dump(None), a stump
  None         \* no value, no answer

ASSUME BoundsAssumption == {MaxSeconds, MaxLosses, MaxStops} \subseteq Nat
ASSUME NoneAssumption ==
  /\ Error # None /\ Null # None /\ Null # Error
  /\ {Error, Null, None} \cap (Users \cup Runs) = {}

VARIABLES
  serving,     \* server: the run whose end the handler waits for, or None
  answer,      \* the answer to each request
  pc, user, d, \* each run: its next command, its $user and its $d
  output,      \* each run: what it printed for the handler
  RBAC,        \* host: the directory of each user, or None
  dated,       \* host: the directory of each second, or None
  tar,         \* host: the configurations in rbac.tar
  csr,         \* cluster: the signing request of each user, or None
  clock,       \* host: the second
  overlapped,  \* runs that were not alone on the host
  cut,         \* runs that were cut short or that nobody waits for any more
  losses, stops

serverVars == <<serving, answer>>
runVars == <<pc, user, d, output>>
history == <<overlapped, cut, losses, stops>>
vars == <<serverVars, runVars, RBAC, dated, tar, csr, clock, history>>

Seconds == 0..MaxSeconds

\* Keys and certificates are named by the run that made the key.  clean: no
\* run wrote it after a failing kubectl delete or beside another run.
Config == [user : Users, key : Runs \cup {None}, crt : Runs \cup {None}, clean : BOOLEAN]
Directory == [key : Runs, crt : Runs \cup {None}, config : Config \cup {None}, clean : BOOLEAN]
Request == [key : Runs, status : {"pending", "approved", "issued"}]

ASSUME ValuesAssumption ==
  /\ {Error, Null, None} \cap Config = {}
  /\ None \notin [Users -> Directory \cup {None}]

Init ==
  /\ serving = None /\ answer = [r \in Runs |-> None]
  /\ pc = [r \in Runs |-> "idle"] /\ user = [r \in Runs |-> None]
  /\ d = [r \in Runs |-> 0] /\ output = [r \in Runs |-> Null]
  /\ RBAC = [u \in Users |-> None] /\ csr = [u \in Users |-> None]
  /\ dated = [s \in Seconds |-> None] /\ tar = {}
  /\ clock = 0
  /\ overlapped = {} /\ cut = {} /\ losses = 0 /\ stops = 0

Running == {r \in Runs : pc[r] \notin {"idle", "exit", "killed", "ended"}}

-----------------------------------------------------------------------------
\* post_kubeconfig starts a run and waits for its end.
Post(r, u) ==
  /\ serving = None /\ pc[r] = "idle"
  /\ serving' = r
  /\ pc' = [pc EXCEPT ![r] = "check"]
  /\ user' = [user EXCEPT ![r] = u]
  /\ overlapped' = IF Running = {} THEN overlapped ELSE overlapped \cup Running \cup {r}
  /\ UNCHANGED <<answer, d, output, RBAC, dated, tar, csr, clock, cut, losses, stops>>

\* The output is the answer, an error message included; of a run that was
\* killed, what arrived of it, unless it cannot be read.
Answer(r) ==
  /\ serving = r /\ pc[r] \in {"exit", "killed"}
  /\ serving' = None
  /\ \E a \in {output[r]} \cup (IF pc[r] = "exit" THEN {} ELSE {Null, None}) :
       answer' = [answer EXCEPT ![r] = a]
  /\ output' = [output EXCEPT ![r] = Null] /\ d' = [d EXCEPT ![r] = 0]
  /\ pc' = [pc EXCEPT ![r] = "ended"]
  /\ UNCHANGED <<user, RBAC, dated, tar, csr, clock, history>>

\* At its command from, run r does what act says and goes on to its command to.
Command(r, from, to) ==
  /\ pc[r] = from
  /\ pc' = [pc EXCEPT ![r] = to]
  /\ UNCHANGED <<serverVars, user, clock, history>>

OnlyOutput == UNCHANGED <<d, RBAC, dated, tar, csr>>

\* What run r prints is gone when nobody waits for it.
Prints(r, text) == output' = IF serving = r THEN [output EXCEPT ![r] = text] ELSE output

\* Slip: the error is printed, the script does not exit.
CheckWithoutExit(r) ==
  LET dir == RBAC[user[r]] IN
  \/ Command(r, "check", "genrsa") /\ dir = None /\ OnlyOutput /\ UNCHANGED output
  \/ /\ Command(r, "check", "cat") /\ dir # None
     /\ IF dir.config = None THEN Prints(r, Error) ELSE UNCHANGED output
     /\ OnlyOutput

\* Slip: what a run before it left behind is removed.
CheckAfresh(r) ==
  /\ Command(r, "check", "genrsa")
  /\ RBAC' = [RBAC EXCEPT ![user[r]] = None]
  /\ UNCHANGED <<d, output, dated, tar, csr>>

Check(r) ==
  LET dir == RBAC[user[r]] IN
  \/ Command(r, "check", "genrsa") /\ dir = None /\ OnlyOutput /\ UNCHANGED output
  \/ Command(r, "check", "cat") /\ dir # None /\ dir.config # None /\ OnlyOutput /\ UNCHANGED output
  \/ /\ Command(r, "check", "exit") /\ dir # None /\ dir.config = None
     /\ Prints(r, Error)
     /\ OnlyOutput

\* Run r writes in the directory of its user, if it is there.
WriteDir(r, dir) ==
  /\ RBAC' = IF RBAC[user[r]] = None THEN RBAC
             ELSE [RBAC EXCEPT ![user[r]] = [dir EXCEPT !.clean = @ /\ r \notin overlapped]]
  /\ UNCHANGED <<d, output, dated, tar, csr>>

\* mkdir -p, the private key and the request made with it
Genrsa(r) ==
  /\ Command(r, "genrsa", "delete")
  /\ RBAC' = [RBAC EXCEPT ![user[r]] =
       IF @ # None THEN [@ EXCEPT !.key = r, !.clean = FALSE]
       ELSE [key |-> r, crt |-> None, config |-> None, clean |-> r \notin overlapped]]
  /\ UNCHANGED <<d, output, dated, tar, csr>>

\* Slip: the old signing request is left where it is.
NoDelete(r) ==
  Command(r, "delete", "apply") /\ UNCHANGED <<d, output, RBAC, dated, tar, csr>>

\* kubectl delete ... || true
DeleteRequest(r) ==
  /\ Command(r, "delete", "apply")
  /\ \/ csr' = [csr EXCEPT ![user[r]] = None] /\ UNCHANGED RBAC
     \/ /\ RBAC' = IF RBAC[user[r]] = None THEN RBAC ELSE [RBAC EXCEPT ![user[r]].clean = FALSE]
        /\ UNCHANGED csr
  /\ UNCHANGED <<d, output, dated, tar>>

\* kubectl apply: the cluster does not change the key of a request it has.
ApplyRequest(r) ==
  LET dir == RBAC[user[r]] IN
  /\ Command(r, "apply", "approve")
  /\ csr' \in {csr} \cup (IF csr[user[r]] # None \/ dir = None THEN {}
                ELSE {[csr EXCEPT ![user[r]] = [key |-> dir.key, status |-> "pending"]]})
  /\ UNCHANGED <<d, output, RBAC, dated, tar>>

ApproveRequest(r) ==
  LET request == csr[user[r]] IN
  /\ Command(r, "approve", "fetch")
  /\ csr' \in {csr} \cup (IF request = None \/ request.status # "pending" THEN {}
                ELSE {[csr EXCEPT ![user[r]].status = "approved"]})
  /\ UNCHANGED <<d, output, RBAC, dated, tar>>

\* The signer of the cluster, some time after the approval
Issue(u) ==
  /\ csr[u] # None /\ csr[u].status = "approved"
  /\ csr' = [csr EXCEPT ![u].status = "issued"]
  /\ UNCHANGED <<serverVars, runVars, RBAC, dated, tar, clock, history>>

\* kubectl get: empty when the certificate is not there yet
Fetch(r) ==
  LET request == csr[user[r]] IN
  /\ Command(r, "fetch", "kubeconfig")
  /\ \E crt \in {None} \cup (IF request # None /\ request.status = "issued"
                             THEN {request.key} ELSE {}) :
       WriteDir(r, [RBAC[user[r]] EXCEPT !.crt = crt])

\* cat << EOF > $KUBECONFIG, without credentials so far
WriteConfig(r) ==
  /\ Command(r, "kubeconfig", "credentials")
  /\ WriteDir(r, [RBAC[user[r]] EXCEPT !.config =
       [user |-> user[r], key |-> None, crt |-> None, clean |-> TRUE]])

\* kubectl config set-credentials, set-context and use-context
SetCredentials(r) ==
  LET dir == RBAC[user[r]] IN
  /\ Command(r, "credentials", "cat")
  /\ WriteDir(r, [dir EXCEPT !.config =
       [user |-> user[r], key |-> dir.key, crt |-> dir.crt,
        clean |-> dir.clean /\ r \notin overlapped]])

\* echo in add_user.sh when nobody reads it any more: SIGPIPE ends that script.
BrokenPipe(r) ==
  /\ serving # r
  /\ \E from \in {"delete", "apply", "approve", "fetch", "kubeconfig"} : Command(r, from, "cat")
  /\ UNCHANGED <<d, output, RBAC, dated, tar, csr>>

\* cat prints nothing if there is no configuration.
Cat(r) ==
  LET dir == RBAC[user[r]] IN
  /\ Command(r, "cat", "mkdir")
  /\ IF dir = None \/ dir.config = None THEN UNCHANGED output ELSE Prints(r, dir.config)
  /\ OnlyOutput

Empty == [u \in Users |-> None]

\* d=$(date +%s); mkdir $d
MakeDated(r) ==
  /\ Command(r, "mkdir", "mv")
  /\ d' = [d EXCEPT ![r] = clock]
  /\ dated' = IF dated[clock] = None THEN [dated EXCEPT ![clock] = Empty] ELSE dated
  /\ UNCHANGED <<output, RBAC, tar, csr>>

\* Slip: the configuration is moved, the directory stays.
MoveConfig(r) ==
  LET dir == RBAC[user[r]] IN
  /\ Command(r, "mv", "tar")
  /\ IF dir = None THEN UNCHANGED <<RBAC, dated>>
     ELSE /\ RBAC' = [RBAC EXCEPT ![user[r]].config = None]
          /\ dated' = [dated EXCEPT ![d[r]] =
                         [(IF @ = None THEN Empty ELSE @) EXCEPT ![user[r]] = dir]]
  /\ UNCHANGED <<d, output, tar, csr>>

\* mv $dir $d: refused if the user is in $d; if another run removed $d, $dir
\* takes its name.
Move(r) ==
  LET into == IF dated[d[r]] = None THEN Empty ELSE dated[d[r]] IN
  /\ Command(r, "mv", "tar")
  /\ IF RBAC[user[r]] = None \/ into[user[r]] # None THEN UNCHANGED <<RBAC, dated>>
     ELSE /\ dated' = [dated EXCEPT ![d[r]] = [into EXCEPT ![user[r]] = RBAC[user[r]]]]
          /\ RBAC' = [RBAC EXCEPT ![user[r]] = None]
  /\ UNCHANGED <<d, output, tar, csr>>

ConfigsIn(into) ==
  IF into = None THEN {} ELSE {into[u].config : u \in {v \in Users : into[v] # None}} \ {None}

\* Slip: what is archived is $dir, which has just been moved.
ArchiveOld(r) ==
  LET dir == RBAC[user[r]] IN
  /\ \/ /\ Command(r, "tar", "rm")
        /\ tar' = tar \cup (IF dir = None THEN {} ELSE {dir.config} \ {None}) /\ UNCHANGED dated
     \/ /\ Command(r, "rm", "exit")
        /\ dated' = [dated EXCEPT ![d[r]] = None] /\ UNCHANGED tar
  /\ UNCHANGED <<d, output, RBAC, csr>>

\* tar -uf rbac.tar $d, then rm -r $d
PutAway(r) ==
  /\ \/ /\ Command(r, "tar", "rm")
        /\ tar' = tar \cup ConfigsIn(dated[d[r]]) /\ UNCHANGED dated
     \/ /\ Command(r, "rm", "exit")
        /\ dated' = [dated EXCEPT ![d[r]] = None] /\ UNCHANGED tar
  /\ d' = IF pc[r] = "rm" THEN [d EXCEPT ![r] = 0] ELSE d
  /\ UNCHANGED <<output, RBAC, csr>>

\* Time passes; only date reads the clock.
Tick ==
  /\ clock < MaxSeconds /\ \E r \in Runs : pc[r] = "mkdir"
  /\ clock' = clock + 1
  /\ UNCHANGED <<serverVars, runVars, RBAC, dated, tar, csr, history>>

\* The server ends, or the connection to the host: the run goes on.  What
\* arrived is answered, unless the server is gone or it cannot be read.
ConnectionLost ==
  /\ serving # None /\ losses < MaxLosses
  /\ losses' = losses + 1
  /\ serving' = None
  /\ \E a \in {output[serving], Null, None} : answer' = [answer EXCEPT ![serving] = a]
  /\ output' = [output EXCEPT ![serving] = Null]
  /\ cut' = cut \cup ({serving} \cap Running)
  /\ UNCHANGED <<pc, user, d, RBAC, dated, tar, csr, clock, overlapped, stops>>

\* The host stops, which takes more than a second.
HostStop ==
  /\ Running # {} /\ stops < MaxStops /\ clock < MaxSeconds
  /\ stops' = stops + 1 /\ clock' = clock + 1
  /\ cut' = cut \cup Running
  /\ pc' = [r \in Runs |-> IF r \notin Running THEN pc[r]
                          ELSE IF r = serving THEN "killed" ELSE "ended"]
  /\ output' = [r \in Runs |-> IF r \in Running \ {serving} THEN Null ELSE output[r]]
  /\ d' = [r \in Runs |-> IF r \in Running THEN 0 ELSE d[r]]
  /\ UNCHANGED <<serverVars, user, RBAC, dated, tar, csr, overlapped, losses>>

Step(r) ==
  \/ Check(r) \/ Genrsa(r) \/ DeleteRequest(r) \/ ApplyRequest(r) \/ ApproveRequest(r)
  \/ Fetch(r) \/ WriteConfig(r) \/ SetCredentials(r) \/ BrokenPipe(r) \/ Cat(r)
  \/ MakeDated(r) \/ Move(r) \/ PutAway(r) \/ Answer(r)

Next ==
  \/ \E r \in Runs : Step(r) \/ \E u \in Users : Post(r, u)
  \/ \E u \in Users : Issue(u)
  \/ Tick \/ ConnectionLost \/ HostStop

Spec == Init /\ [][Next]_vars

-----------------------------------------------------------------------------
(***************************************************************************)
(* Type invariant: the value every variable of the model ranges over.      *)
(***************************************************************************)
TypeOK ==
  /\ serving \in Runs \cup {None}
  /\ \A r \in Runs :
       /\ answer[r] \in Config \cup {Error, Null, None} /\ output[r] \in Config \cup {Error, Null}
       /\ user[r] \in Users \cup {None} /\ d[r] \in Seconds
       /\ output[r] = Error => pc[r] = "exit"
  /\ \A u \in Users : RBAC[u] \in Directory \cup {None} /\ csr[u] \in Request \cup {None}
  /\ \A s \in Seconds : dated[s] # None => \A u \in Users : dated[s][u] \in Directory \cup {None}
  /\ tar \subseteq Config
  /\ clock \in Seconds /\ losses \in 0..MaxLosses /\ stops \in 0..MaxStops
  /\ overlapped \subseteq Runs /\ cut \subseteq Runs

(***************************************************************************)
(* A configuration that is answered holds no certificate of another key:   *)
(* the cluster keeps the signing request of an earlier run until it is     *)
(* deleted (add_user.sh lines 115-124).  Exempt, by clean, is what was     *)
(* written after a kubectl delete that failed (line 115, || true) or       *)
(* beside another run.  It may hold no certificate at all: kubectl get     *)
(* does not wait for the signer.                                           *)
(***************************************************************************)
CertificateFits ==
  \A r \in Runs : answer[r] \in Config /\ answer[r].clean => answer[r].crt \in {answer[r].key, None}

(***************************************************************************)
(* The configuration that was answered for a run that was alone on the     *)
(* host and came to its end is in rbac.tar (add.sh lines 27-33), also when *)
(* runs before it were cut short and left their directory for it.          *)
(***************************************************************************)
AnsweredIsArchived ==
  \A r \in Runs \ (overlapped \cup cut) : answer[r] \in Config => answer[r] \in tar

\* What the host has of configurations
Kept == tar \cup ConfigsIn(RBAC) \cup (UNION {ConfigsIn(dated[s]) : s \in Seconds})

(***************************************************************************)
(* As long as no two runs met on the host, every configuration that was    *)
(* answered is still there, in rbac.tar, in a dated directory or in RBAC:  *)
(* add.sh removes the directory (line 33) when it is archived, wherever a  *)
(* run is killed and whatever the next runs make of its leftovers.         *)
(***************************************************************************)
AnsweredIsKept ==
  overlapped = {} => \A r \in Runs : answer[r] \in Config => answer[r] \in Kept

(***************************************************************************)
(* A user is told that the configuration does not exist (add.sh line 20)   *)
(* only when a run for that user was cut short or lost its server.         *)
(***************************************************************************)
ErrorOnlyWhenCut ==
  \A r \in Runs : answer[r] = Error => \E q \in cut : user[q] = user[r]
=============================================================================
