----------------------------- MODULE Provisioning -----------------------------
(***************************************************************************)
(* The create commands of the command line client (cli/src/cli.py): post   *)
(* a blueprint to the NFVCL, poll its task until it is done, register the  *)
(* machine, print the answer.  Every command is a process of its own that  *)
(* handles no exception: an error, a refusal or a lost answer ends it.     *)
(* No request has a timeout: one that is never answered blocks its command *)
(* for ever.  The NFVCL and the registrar are external; they may take a    *)
(* request up at any time, also when its command has ended.  A task is     *)
(* named by the blueprint it builds.                                       *)
(***************************************************************************)
EXTENDS Naturals, FiniteSets

CONSTANTS
  Commands,    \* runs of "vm create" or "k8s create"
  Blueprints,  \* blueprints the NFVCL may make
  None         \* no task, or no command

ASSUME NoneAssumption == None \notin Commands \cup Blueprints

VARIABLES
  pc,         \* what each command does next or waits for, or how it ended
  task,       \* the task_id each command holds
  request,    \* the POST of each command that nobody has taken up yet
  status,     \* NFVCL: the status of each task
  maker,      \* NFVCL: the command whose POST made the blueprint
  registered  \* registrar: how often each blueprint was registered

vars == <<pc, task, request, status, maker, registered>>

Awaiting == {"posting", "polling", "registering"}
Active == {"post", "poll", "sleep", "register"} \cup Awaiting
Ended == {"printed", "raised", "killed"}

Init ==
  /\ pc = [c \in Commands |-> "post"]
  /\ task = [c \in Commands |-> None]
  /\ request = [c \in Commands |-> "none"]
  /\ status = [b \in Blueprints |-> "none"]
  /\ maker = [b \in Blueprints |-> None]
  /\ registered = [b \in Blueprints |-> 0]

-----------------------------------------------------------------------------
Goto(c, label) == pc' = [pc EXCEPT ![c] = label]

\* The command meets an error of its own or of the connection, or an answer
\* that it takes for one: nothing catches the exception.
Raise(c) ==
  /\ pc[c] \in Active
  /\ Goto(c, "raised")
  /\ UNCHANGED <<task, request, status, maker, registered>>

\* The request of c leaves it.
Send(c, label, kind) ==
  /\ Goto(c, label)
  /\ request' = [request EXCEPT ![c] = kind]
  /\ UNCHANGED <<task, status, maker, registered>>

\* new_vm or new_cluster up to requests.post
Post(c) == pc[c] = "post" /\ Send(c, "posting", "post")

\* The NFVCL starts to build b.
TakePost(c, b) ==
  /\ request[c] = "post" /\ status[b] = "none"
  /\ request' = [request EXCEPT ![c] = "none"]
  /\ status' = [status EXCEPT ![b] = "running"]
  /\ maker' = [maker EXCEPT ![b] = c]
  /\ UNCHANGED <<pc, task, registered>>

\* Slip: the answer is not looked at for its task_id.
PostedUnchecked(c) ==
  /\ pc[c] = "posting"
  /\ \E b \in Blueprints \cup {None} :
       /\ b = None \/ maker[b] = c
       /\ task' = [task EXCEPT ![c] = b]
  /\ Goto(c, "poll")
  /\ UNCHANGED <<request, status, maker, registered>>

\* The answer has a task_id.
Posted(c) ==
  /\ pc[c] = "posting"
  /\ \E b \in Blueprints : maker[b] = c /\ task' = [task EXCEPT ![c] = b]
  /\ Goto(c, "poll")
  /\ UNCHANGED <<request, status, maker, registered>>

\* get_blueprint_id up to requests.get
Poll(c) == pc[c] = "poll" /\ Send(c, "polling", "none")

\* Slip: any status but "running" ends the loop.
PolledWhileRunning(c) ==
  /\ pc[c] = "polling"
  /\ Goto(c, IF status[task[c]] # "running" THEN "register" ELSE "sleep")
  /\ UNCHANGED <<task, request, status, maker, registered>>

\* Slip: the loop waits for a status the NFVCL does not have.
PolledForSuccess(c) ==
  /\ pc[c] = "polling"
  /\ Goto(c, IF status[task[c]] = "success" THEN "register" ELSE "sleep")
  /\ UNCHANGED <<task, request, status, maker, registered>>

\* The answer has the status of the task.
Polled(c) ==
  /\ pc[c] = "polling"
  /\ Goto(c, IF status[task[c]] = "done" THEN "register" ELSE "sleep")
  /\ UNCHANGED <<task, request, status, maker, registered>>

\* time.sleep(1)
Wake(c) ==
  /\ pc[c] = "sleep"
  /\ Goto(c, "poll")
  /\ UNCHANGED <<task, request, status, maker, registered>>

\* register_vm up to requests.post
Register(c) == pc[c] = "register" /\ Send(c, "registering", "register")

TakeRegister(c) ==
  /\ request[c] = "register"
  /\ request' = [request EXCEPT ![c] = "none"]
  /\ registered' = [registered EXCEPT ![task[c]] = @ + 1]
  /\ UNCHANGED <<pc, task, status, maker>>

\* Slip: a registration without an answer is made again.
RegisteredOrAgain(c) ==
  /\ pc[c] = "registering" /\ request[c] = "none"
  /\ Goto(c, "printed") \/ Goto(c, "register")
  /\ UNCHANGED <<task, request, status, maker, registered>>

\* The answer of the registrar is printed.
Registered(c) ==
  /\ pc[c] = "registering" /\ request[c] = "none"
  /\ Goto(c, "printed")
  /\ UNCHANGED <<task, request, status, maker, registered>>

\* The user interrupts the command.
Kill(c) ==
  /\ pc[c] \in Active
  /\ Goto(c, "killed")
  /\ UNCHANGED <<task, request, status, maker, registered>>

\* The NFVCL ends a task.
Build(b) ==
  /\ status[b] = "running"
  /\ \E s \in {"done", "failed"} : status' = [status EXCEPT ![b] = s]
  /\ UNCHANGED <<pc, task, request, maker, registered>>

\* What a command does without being answered.
OwnStep(c) == Post(c) \/ Poll(c) \/ Wake(c) \/ Register(c)

Answered(c) == Posted(c) \/ Polled(c) \/ Registered(c)

Next ==
  \/ \E c \in Commands : OwnStep(c) \/ Answered(c) \/ Raise(c) \/ Kill(c) \/ TakeRegister(c)
  \/ \E b \in Blueprints : Build(b) \/ \E c \in Commands : TakePost(c, b)

\* A process that runs takes its next step.  Nothing says that a request is
\* answered, or that a task ends.
Fairness == \A c \in Commands : WF_vars(OwnStep(c))

Spec == Init /\ [][Next]_vars /\ Fairness

-----------------------------------------------------------------------------
(***************************************************************************)
(* Type invariant: the value every variable of the model ranges over; a    *)
(* command that goes on after its POST holds a task.                       *)
(***************************************************************************)
TypeOK ==
  /\ pc \in [Commands -> Active \cup Ended]
  /\ task \in [Commands -> Blueprints \cup {None}]
  /\ request \in [Commands -> {"none", "post", "register"}]
  /\ \A c \in Commands :
       pc[c] \in {"poll", "polling", "sleep", "register", "registering", "printed"} =>
         task[c] # None
  /\ status \in [Blueprints -> {"none", "running", "done", "failed"}]
  /\ maker \in [Blueprints -> Commands \cup {None}]
  /\ registered \in [Blueprints -> Nat]

(***************************************************************************)
(* A blueprint that is registered, in part because a command printed so,   *)
(* was built to its end for the very command that registered it            *)
(* (get_blueprint_id and register_vm, common.py lines 9-34).               *)
(***************************************************************************)
RegisteredIsBuilt ==
  /\ \A b \in Blueprints : registered[b] > 0 => status[b] = "done" /\ task[maker[b]] = b
  /\ \A c \in Commands : pc[c] = "printed" => registered[task[c]] > 0 /\ maker[task[c]] = c

(***************************************************************************)
(* Nothing is made twice, whichever answers are lost and however late a    *)
(* request is taken up (new_vm, new_cluster and register_vm): a command    *)
(* has one blueprint at most, and a blueprint one registration.            *)
(***************************************************************************)
NothingTwice ==
  /\ \A b1, b2 \in Blueprints : maker[b1] = maker[b2] /\ maker[b1] # None => b1 = b2
  /\ \A b \in Blueprints : registered[b] <= 1

(***************************************************************************)
(* A command does not poll for ever: once its task is done it ends, unless *)
(* it is blocked on a request that is never answered (get_blueprint_id,    *)
(* common.py lines 25-34, where neither requests.get nor requests.post     *)
(* have a timeout).  A task that failed is polled until the user           *)
(* interrupts the command.                                                 *)
(***************************************************************************)
DoneIsNoticed ==
  \A c \in Commands :
    pc[c] \in {"poll", "polling", "sleep"} /\ task[c] # None /\ status[task[c]] = "done"
      ~> pc[c] \in Ended \/ [](pc[c] \in Awaiting)
=============================================================================
