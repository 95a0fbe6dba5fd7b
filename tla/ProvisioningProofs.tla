-------------------------- MODULE ProvisioningProofs --------------------------
(***************************************************************************)
(* For any number of commands and blueprints: what is registered was built *)
(* for the command that registered it, and nothing is made twice.          *)
(***************************************************************************)
EXTENDS Provisioning, TLAPS

\* The task a command holds is one it started; before it is told one, it has
\* one at most, and none while its POST is on its way.
TaskIsMine ==
  /\ \A c \in Commands : task[c] # None => maker[task[c]] = c
  /\ \A c \in Commands : pc[c] \in {"post", "posting"} => task[c] = None
  /\ \A c \in Commands :
       pc[c] = "post" \/ request[c] = "post" =>
         task[c] = None /\ \A b \in Blueprints : maker[b] # c

Started == \A b \in Blueprints : status[b] = "none" => maker[b] = None

OneEach ==
  \A b1, b2 \in Blueprints : maker[b1] = maker[b2] /\ maker[b1] # None => b1 = b2

\* A command sends one request at a time, and the registration last.
Requests ==
  \A c \in Commands :
    /\ pc[c] \in {"post", "poll", "polling", "sleep", "register", "printed"} => request[c] = "none"
    /\ request[c] = "register" =>
         /\ task[c] # None /\ status[task[c]] = "done"
         /\ pc[c] \in {"registering", "raised", "killed"}

\* A blueprint is registered by a command that does nothing after that.
RegisteredAtEnd ==
  \A b \in Blueprints : registered[b] > 0 =>
    /\ registered[b] = 1 /\ status[b] = "done"
    /\ maker[b] \in Commands /\ task[maker[b]] = b /\ request[maker[b]] = "none"
    /\ pc[maker[b]] \in {"registering", "printed", "raised", "killed"}

Progress ==
  \A c \in Commands :
    /\ pc[c] \in {"register", "registering"} => status[task[c]] = "done"
    /\ pc[c] = "registering" => request[c] = "register" \/ registered[task[c]] > 0
    /\ pc[c] = "printed" => registered[task[c]] > 0

Inv == TypeOK /\ TaskIsMine /\ Started /\ OneEach /\ Requests /\ RegisteredAtEnd /\ Progress

LEMMA InvInit == Init => Inv
  BY NoneAssumption
  DEF Init, Inv, TypeOK, Active, Awaiting, Ended, TaskIsMine, Started, OneEach, Requests,
      RegisteredAtEnd, Progress

LEMMA InvNext == Inv /\ [Next]_vars => Inv'
  <1> SUFFICES ASSUME Inv, [Next]_vars PROVE Inv'
    OBVIOUS
  <1> USE NoneAssumption DEF Inv, TypeOK, Active, Awaiting, Ended, TaskIsMine, Started, OneEach,
                             Requests, RegisteredAtEnd, Progress
  <1>1. ASSUME NEW c \in Commands, Post(c) \/ Poll(c) \/ Wake(c) \/ Register(c) PROVE Inv'
    BY <1>1 DEF Post, Poll, Wake, Register, Send, Goto
  <1>2. ASSUME NEW c \in Commands, NEW b \in Blueprints, TakePost(c, b) PROVE Inv'
    BY <1>2 DEF TakePost
  <1>3. ASSUME NEW c \in Commands, Posted(c) PROVE Inv'
    BY <1>3 DEF Posted, Goto
  <1>4. ASSUME NEW c \in Commands, Polled(c) \/ Registered(c) PROVE Inv'
    BY <1>4 DEF Polled, Registered, Goto
  <1>5. ASSUME NEW c \in Commands, TakeRegister(c) PROVE Inv'
    BY <1>5 DEF TakeRegister
  <1>6. ASSUME NEW c \in Commands, Raise(c) \/ Kill(c) PROVE Inv'
    BY <1>6 DEF Raise, Kill, Goto
  <1>7. ASSUME NEW b \in Blueprints, Build(b) PROVE Inv'
    BY <1>7 DEF Build
  <1>8. CASE UNCHANGED vars
    BY <1>8 DEF vars
  <1> QED
    BY <1>1, <1>2, <1>3, <1>4, <1>5, <1>6, <1>7, <1>8 DEF Next, OwnStep, Answered

(***************************************************************************)
(* The variables keep their types, and a command that goes on after its    *)
(* POST holds a task (new_vm and new_cluster refuse an answer without).    *)
(***************************************************************************)
THEOREM ProvisioningTypeCorrect == Spec => []TypeOK
  <1>1. Inv => TypeOK
    BY DEF Inv
  <1> QED
    BY InvInit, InvNext, <1>1, PTL DEF Spec

(***************************************************************************)
(* A registered blueprint was built to its end for the command that        *)
(* registered it (get_blueprint_id and register_vm).                       *)
(***************************************************************************)
THEOREM RegisteredIsBuiltAlways == Spec => []RegisteredIsBuilt
  <1>1. Inv => RegisteredIsBuilt
    BY NoneAssumption DEF Inv, TypeOK, TaskIsMine, RegisteredAtEnd, Progress, RegisteredIsBuilt,
                          Active, Awaiting, Ended
  <1> QED
    BY InvInit, InvNext, <1>1, PTL DEF Spec

(***************************************************************************)
(* A command has one blueprint at most, a blueprint one registration,      *)
(* whichever answers are lost: no request is made again.                   *)
(***************************************************************************)
THEOREM NothingTwiceAlways == Spec => []NothingTwice
  <1>1. Inv => NothingTwice
    BY DEF Inv, TypeOK, OneEach, RegisteredAtEnd, NothingTwice
  <1> QED
    BY InvInit, InvNext, <1>1, PTL DEF Spec
=============================================================================
