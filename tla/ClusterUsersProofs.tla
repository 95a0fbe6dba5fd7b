-------------------------- MODULE ClusterUsersProofs --------------------------
(***************************************************************************)
(* What holds of the scripts of k8s/ for any number of users and runs, and *)
(* any losses of the server or its connection and stops of the host.       *)
(***************************************************************************)
EXTENDS ClusterUsers, TLAPS

-----------------------------------------------------------------------------
(***************************************************************************)
(* The inductive invariant, one part for each concern.                     *)
(***************************************************************************)
Ended == {"idle", "exit", "killed", "ended"}

Labels == Ended \cup {"check", "genrsa", "delete", "apply", "approve", "fetch", "kubeconfig",
                     "credentials", "cat", "mkdir", "mv", "tar", "rm"}

TypeInv ==
  /\ serving \in Runs \cup {None}
  /\ serving # None => pc[serving] \notin {"idle", "ended"}
  /\ pc \in [Runs -> Labels] /\ user \in [Runs -> Users \cup {None}]
  /\ \A r \in Runs : pc[r] # "idle" => user[r] \in Users
  /\ answer \in [Runs -> Config \cup {Error, Null, None}]
  /\ output \in [Runs -> Config \cup {Error, Null}]
  /\ d \in [Runs -> Seconds] /\ clock \in Seconds
  /\ RBAC \in [Users -> Directory \cup {None}] /\ csr \in [Users -> Request \cup {None}]
  /\ dated \in [Seconds -> [Users -> Directory \cup {None}] \cup {None}]
  /\ tar \subseteq Config
  /\ losses \in 0..MaxLosses /\ stops \in 0..MaxStops
  /\ overlapped \subseteq Runs /\ cut \subseteq Runs

\* The server waits for every run that was not cut; a run that did not overlap
\* is alone.
AloneInv ==
  /\ \A r \in Running : r \in cut \/ serving = r
  /\ \A r \in cut : pc[r] # "idle"
  /\ \A r \in Runs : pc[r] = "killed" => r \in cut
  /\ \A r \in Running \ overlapped, q \in Running : q = r

\* A directory without a configuration is one that a run is filling, or was.
Filling == {"delete", "apply", "approve", "fetch", "kubeconfig"}

UsersCut == {user[q] : q \in cut}

ErrorInv ==
  /\ \A u \in Users \ UsersCut : RBAC[u] # None /\ RBAC[u].config = None =>
       \E r \in Runs : user[r] = u /\ pc[r] \in Filling
  /\ \A r \in Runs : /\ output[r] = Error => pc[r] = "exit"
                     /\ output[r] = Error \/ answer[r] = Error => user[r] \in UsersCut
                     /\ pc[r] = "idle" => output[r] = Null /\ answer[r] = None

\* The certificate is of the key, where nobody failed to delete the request
\* of an earlier run.
Fits(c) == c.clean => c.crt \in {c.key, None}

KeyInv ==
  /\ \A u \in Users : RBAC[u] # None =>
       Fits(RBAC[u]) /\ (RBAC[u].config # None => Fits(RBAC[u].config))
  /\ \A r \in Running \ overlapped :
       /\ pc[r] \in {"apply", "approve", "fetch"}
       /\ RBAC[user[r]] # None /\ RBAC[user[r]].clean /\ csr[user[r]] # None
       => csr[user[r]].key = RBAC[user[r]].key
  /\ \A r \in Runs : /\ output[r] \in Config => Fits(output[r])
                     /\ answer[r] \in Config => Fits(answer[r])

\* A directory named by the current second belongs to a run that is not done
\* with it.
ClockInv ==
  /\ \A r \in Runs : d[r] <= clock
  /\ \A s \in Seconds : dated[s] # None =>
       \/ s < clock
       \/ \E r \in Runs : d[r] = s /\ pc[r] \in {"mv", "tar", "rm"}

\* The configuration a run printed, on its way into rbac.tar.
ArchiveInv ==
  \A r \in Runs \ (overlapped \cup cut) :
    /\ output[r] \in Config =>
         /\ pc[r] \in {"mkdir", "mv"} =>
              RBAC[user[r]] # None /\ RBAC[user[r]].config = output[r]
         /\ pc[r] = "tar" => output[r] \in ConfigsIn(dated[d[r]])
         /\ pc[r] \in {"rm", "exit"} => output[r] \in tar
         /\ pc[r] \in {"mkdir", "mv", "tar", "rm", "exit"}
    /\ pc[r] = "mv" => dated[d[r]] = Empty
    /\ answer[r] \in Config => answer[r] \in tar

\* Where the host has configuration c, not counting the directory a run is
\* still writing.
Creating == Filling \cup {"genrsa", "credentials"}

Stored(c) ==
  \/ c \in tar
  \/ \E s \in Seconds : c \in ConfigsIn(dated[s])
  \/ \E u \in Users : /\ RBAC[u] # None /\ RBAC[u].config = c
                     /\ \A q \in Running : user[q] = u => pc[q] \notin Creating

KeptInv ==
  /\ overlapped = {} =>
       \A r \in Runs : /\ output[r] \in Config => Stored(output[r])
                       /\ answer[r] \in Config => Stored(answer[r])
  /\ \A r \in Running \ overlapped : pc[r] = "rm" => ConfigsIn(dated[d[r]]) \subseteq tar

Inv == TypeInv /\ AloneInv /\ ErrorInv /\ KeyInv /\ ClockInv /\ ArchiveInv /\ KeptInv

LEMMA InvInit == Init => Inv
  <1> SUFFICES ASSUME Init PROVE Inv
    OBVIOUS
  <1>1. 0 \in Seconds /\ 0 \in 0..MaxLosses /\ 0 \in 0..MaxStops
    BY BoundsAssumption DEF Seconds
  <1>2. TypeInv
    BY <1>1 DEF Init, TypeInv, Labels, Ended
  <1>3. AloneInv
    BY DEF Init, AloneInv, Running
  <1>4. ErrorInv
    BY NoneAssumption DEF Init, ErrorInv
  <1>5. KeyInv
    BY ValuesAssumption DEF Init, KeyInv, Running
  <1>6. ClockInv
    BY DEF Init, ClockInv, Seconds
  <1>7. ArchiveInv
    BY ValuesAssumption, NoneAssumption DEF Init, ArchiveInv
  <1>8. KeptInv
    BY ValuesAssumption DEF Init, KeptInv, Running
  <1> QED
    BY <1>2, <1>3, <1>4, <1>5, <1>6, <1>7, <1>8 DEF Inv

-----------------------------------------------------------------------------
(***************************************************************************)
(* The commands of a run.                                                  *)
(***************************************************************************)

\* Run r executed a command, which is the business of nobody else.
Moved(r) ==
  /\ r \in Running /\ user[r] \in Users
  /\ pc' \in [Runs -> Labels] /\ pc'[r] \notin {"idle", "killed", "ended"}
  /\ \A q \in Runs \ {r} : pc'[q] = pc[q]
  /\ Running' \subseteq Running
  /\ UNCHANGED <<serving, answer, user, clock, overlapped, cut, losses, stops>>

LEMMA CommandMoves ==
  ASSUME TypeInv, NEW r \in Runs, NEW from \in Labels \ Ended, NEW to \in Labels \ {"idle", "killed", "ended"},
         Command(r, from, to)
  PROVE  Moved(r) /\ pc[r] = from /\ pc'[r] = to
  <1>1. pc[r] = from /\ pc' = [pc EXCEPT ![r] = to] /\ user' = user
    BY DEF Command
  <1>2. r \in Running /\ user[r] \in Users
    BY <1>1 DEF Running, TypeInv, Labels, Ended
  <1>3. /\ pc' \in [Runs -> Labels] /\ pc'[r] = to
        /\ \A q \in Runs \ {r} : pc'[q] = pc[q]
    BY <1>1 DEF TypeInv
  <1>4. Running' \subseteq Running
    BY <1>2, <1>3 DEF Running
  <1> QED
    BY <1>1, <1>2, <1>3, <1>4 DEF Moved, Command, serverVars, history

\* Every command but the answer moves its run.
LEMMA StepMoves ==
  ASSUME TypeInv, NEW r \in Runs, Step(r), ~Answer(r)
  PROVE  Moved(r)
  <1> USE CommandMoves DEF Labels, Ended
  <1>1. CASE Check(r)
    BY <1>1 DEF Check
  <1>2. CASE Genrsa(r)
    BY <1>2 DEF Genrsa
  <1>3. CASE DeleteRequest(r)
    BY <1>3 DEF DeleteRequest
  <1>4. CASE ApplyRequest(r)
    BY <1>4 DEF ApplyRequest
  <1>5. CASE ApproveRequest(r)
    BY <1>5 DEF ApproveRequest
  <1>6. CASE Fetch(r)
    BY <1>6 DEF Fetch
  <1>7. CASE WriteConfig(r)
    BY <1>7 DEF WriteConfig
  <1>8. CASE SetCredentials(r)
    BY <1>8 DEF SetCredentials
  <1>9. CASE Cat(r)
    BY <1>9 DEF Cat
  <1>10. CASE MakeDated(r)
    BY <1>10 DEF MakeDated
  <1>11. CASE Move(r)
    BY <1>11 DEF Move
  <1>12. CASE PutAway(r)
    BY <1>12 DEF PutAway
  <1>13. CASE BrokenPipe(r)
    BY <1>13 DEF BrokenPipe
  <1> QED
    BY <1>1, <1>2, <1>3, <1>4, <1>5, <1>6, <1>7, <1>8, <1>9, <1>10, <1>11, <1>12, <1>13 DEF Step

\* What a write in the directory of the user leaves there.
LEMMA WriteEffect ==
  ASSUME TypeInv, NEW r \in Runs, user[r] \in Users, NEW dir, WriteDir(r, dir),
         RBAC[user[r]] # None => dir \in Directory
  PROVE  /\ RBAC' \in [Users -> Directory \cup {None}]
         /\ \A u \in Users \ {user[r]} : RBAC'[u] = RBAC[u]
         /\ RBAC[user[r]] = None => RBAC'[user[r]] = None
         /\ RBAC[user[r]] # None =>
              /\ RBAC'[user[r]].key = dir.key /\ RBAC'[user[r]].crt = dir.crt
              /\ RBAC'[user[r]].config = dir.config
              /\ RBAC'[user[r]].clean => dir.clean /\ r \notin overlapped
  <1> DEFINE u == user[r]
             new == [dir EXCEPT !.clean = @ /\ r \notin overlapped]
  <1>1. CASE RBAC[u] = None
    BY <1>1 DEF WriteDir, TypeInv
  <1>2. CASE RBAC[u] # None
    <2>1. /\ new \in Directory /\ new.key = dir.key /\ new.crt = dir.crt
          /\ new.config = dir.config /\ (new.clean => dir.clean /\ r \notin overlapped)
      BY <1>2 DEF Directory
    <2>2. RBAC' = [RBAC EXCEPT ![u] = new]
      BY <1>2 DEF WriteDir
    <2>3. RBAC \in [Users -> Directory \cup {None}]
      BY DEF TypeInv
    <2> HIDE DEF new, u
    <2>4. RBAC'[u] = new /\ \A v \in Users \ {u} : RBAC'[v] = RBAC[v]
      BY <2>2, <2>3 DEF u
    <2>5. RBAC' \in [Users -> Directory \cup {None}]
      BY <2>1, <2>2, <2>3 DEF u
    <2> QED
      BY <1>2, <2>1, <2>4, <2>5 DEF u
  <1> QED
    BY <1>1, <1>2

-----------------------------------------------------------------------------
(***************************************************************************)
(* The steps, one lemma for each part of the invariant.                    *)
(***************************************************************************)

\* The types of what a command writes.
LEMMA TypeStep ==
  ASSUME TypeInv, NEW r \in Runs, Step(r)
  PROVE  TypeInv'
  <1>0. /\ pc \in [Runs -> Labels] /\ user \in [Runs -> Users \cup {None}]
        /\ answer \in [Runs -> Config \cup {Error, Null, None}]
        /\ output \in [Runs -> Config \cup {Error, Null}]
        /\ d \in [Runs -> Seconds] /\ clock \in Seconds /\ 0 \in Seconds
        /\ RBAC \in [Users -> Directory \cup {None}] /\ csr \in [Users -> Request \cup {None}]
        /\ dated \in [Seconds -> [Users -> Directory \cup {None}] \cup {None}]
        /\ tar \subseteq Config
    BY BoundsAssumption DEF TypeInv, Seconds
  <1>1. CASE Answer(r)
    <2>1. answer' \in [Runs -> Config \cup {Error, Null, None}]
      BY <1>0, <1>1 DEF Answer
    <2> QED
      BY <1>0, <1>1, <2>1 DEF Answer, TypeInv, Labels, Ended, history
  <1> SUFFICES ASSUME ~Answer(r)
               PROVE  /\ output' \in [Runs -> Config \cup {Error, Null}]
                      /\ d' \in [Runs -> Seconds]
                      /\ RBAC' \in [Users -> Directory \cup {None}]
                      /\ csr' \in [Users -> Request \cup {None}]
                      /\ dated' \in [Seconds -> [Users -> Directory \cup {None}] \cup {None}]
                      /\ tar' \subseteq Config
    BY <1>1, StepMoves DEF Moved, TypeInv
  <1>2. user[r] \in Users /\ RBAC[user[r]] \in Directory \cup {None}
    BY <1>0, StepMoves DEF Moved
  <1>3. CASE Check(r)
    BY <1>0, <1>3 DEF Check, Prints, OnlyOutput
  <1>4. CASE Genrsa(r)
    <2>1. /\ [RBAC[user[r]] EXCEPT !.key = r, !.clean = FALSE] \in Directory \/ RBAC[user[r]] = None
          /\ [key |-> r, crt |-> None, config |-> None, clean |-> r \notin overlapped] \in Directory
      BY <1>2 DEF Directory
    <2> QED
      BY <1>0, <1>2, <1>4, <2>1 DEF Genrsa
  <1>5. CASE DeleteRequest(r)
    <2>1. \/ RBAC' = RBAC
          \/ /\ RBAC[user[r]] \in Directory
             /\ RBAC' = [RBAC EXCEPT ![user[r]] = [RBAC[user[r]] EXCEPT !.clean = FALSE]]
      BY <1>0, <1>2, <1>5 DEF DeleteRequest
    <2>2. RBAC' \in [Users -> Directory \cup {None}]
      <3>1. RBAC[user[r]] \in Directory => [RBAC[user[r]] EXCEPT !.clean = FALSE] \in Directory
        BY DEF Directory
      <3> QED
        BY <1>0, <1>2, <2>1, <3>1
    <2>3. csr' \in [Users -> Request \cup {None}]
      BY <1>0, <1>5 DEF DeleteRequest
    <2> QED
      BY <1>0, <1>5, <2>2, <2>3 DEF DeleteRequest
  <1>6. CASE ApplyRequest(r)
    <2>1. \/ csr' = csr
          \/ /\ RBAC[user[r]] \in Directory
             /\ csr' = [csr EXCEPT ![user[r]] = [key |-> RBAC[user[r]].key, status |-> "pending"]]
      BY <1>2, <1>6 DEF ApplyRequest
    <2>2. csr' \in [Users -> Request \cup {None}]
      BY <1>0, <2>1 DEF Directory, Request
    <2> QED
      BY <1>0, <1>6, <2>2 DEF ApplyRequest
  <1>7. CASE ApproveRequest(r)
    <2>1. \/ csr' = csr
          \/ csr[user[r]] # None /\ csr' = [csr EXCEPT ![user[r]].status = "approved"]
      BY <1>7 DEF ApproveRequest
    <2>2. csr' \in [Users -> Request \cup {None}]
      BY <1>0, <1>2, <2>1 DEF Request
    <2> QED
      BY <1>0, <1>7, <2>2 DEF ApproveRequest
  <1>8. CASE Fetch(r)
    <2>1. PICK crt : /\ WriteDir(r, [RBAC[user[r]] EXCEPT !.crt = crt])
                     /\ crt # None => csr[user[r]] # None /\ crt = csr[user[r]].key
      BY <1>8 DEF Fetch
    <2>2. crt \in Runs \cup {None}
      BY <1>0, <1>2, <2>1 DEF Request
    <2>3. RBAC[user[r]] # None => [RBAC[user[r]] EXCEPT !.crt = crt] \in Directory
      BY <1>2, <2>2 DEF Directory
    <2> QED
      BY <1>0, <1>2, <1>8, <2>1, <2>3, WriteEffect DEF Fetch, WriteDir
  <1>9. CASE WriteConfig(r)
    <2>1. RBAC[user[r]] # None =>
            [RBAC[user[r]] EXCEPT !.config = [user |-> user[r], key |-> None, crt |-> None,
                                              clean |-> TRUE]] \in Directory
      BY <1>2 DEF Directory, Config
    <2> QED
      BY <1>0, <1>2, <1>9, <2>1, WriteEffect DEF WriteConfig, WriteDir
  <1>10. CASE SetCredentials(r)
    <2> DEFINE dir == RBAC[user[r]]
               config == [user |-> user[r], key |-> dir.key, crt |-> dir.crt,
                          clean |-> dir.clean /\ r \notin overlapped]
    <2>1. dir # None => config \in Config
      BY <1>2 DEF Directory, Config
    <2>2. WriteDir(r, [dir EXCEPT !.config = config])
      BY <1>10 DEF SetCredentials
    <2> HIDE DEF config
    <2>3. dir # None => [dir EXCEPT !.config = config] \in Directory
      BY <1>2, <2>1 DEF Directory
    <2> HIDE DEF dir
    <2> QED
      BY <1>0, <1>2, <1>10, <2>2, <2>3, WriteEffect DEF SetCredentials, WriteDir, dir
  <1>11. CASE Cat(r)
    <2>1. RBAC[user[r]] # None => RBAC[user[r]].config \in Config \cup {None}
      BY <1>2 DEF Directory
    <2> QED
      BY <1>0, <1>11, <2>1 DEF Cat, Prints, OnlyOutput
  <1>12. CASE MakeDated(r)
    <2>1. Empty \in [Users -> Directory \cup {None}]
      BY DEF Empty
    <2> QED
      BY <1>0, <1>12, <2>1 DEF MakeDated
  <1>13. CASE Move(r)
    <2> DEFINE into == IF dated[d[r]] = None THEN Empty ELSE dated[d[r]]
               after == [into EXCEPT ![user[r]] = RBAC[user[r]]]
    <2>1. d[r] \in Seconds /\ into \in [Users -> Directory \cup {None}]
      BY <1>0 DEF Empty
    <2> HIDE DEF into
    <2>2. after \in [Users -> Directory \cup {None}]
      BY <1>2, <2>1
    <2>3. \/ UNCHANGED <<RBAC, dated>>
          \/ dated' = [dated EXCEPT ![d[r]] = after] /\ RBAC' = [RBAC EXCEPT ![user[r]] = None]
      BY <1>13 DEF Move, into
    <2> HIDE DEF after
    <2> QED
      BY <1>0, <1>2, <1>13, <2>1, <2>2, <2>3 DEF Move
  <1>14. CASE PutAway(r)
    <2>1. ConfigsIn(dated[d[r]]) \subseteq Config
      BY <1>0 DEF ConfigsIn, Directory
    <2> QED
      BY <1>0, <1>14, <2>1 DEF PutAway
  <1>15. CASE BrokenPipe(r)
    BY <1>0, <1>15 DEF BrokenPipe
  <1> QED
    BY <1>3, <1>4, <1>5, <1>6, <1>7, <1>8, <1>9, <1>10, <1>11, <1>12, <1>13, <1>14, <1>15 DEF Step

LEMMA TypeNext == TypeInv /\ [Next]_vars => TypeInv'
  <1> SUFFICES ASSUME TypeInv, [Next]_vars PROVE TypeInv'
    OBVIOUS
  <1>0. MaxSeconds \in Nat /\ MaxLosses \in Nat /\ MaxStops \in Nat
    BY BoundsAssumption
  <1>1. ASSUME NEW r \in Runs, NEW u \in Users, Post(r, u) PROVE TypeInv'
    <2>1. overlapped' \subseteq Runs
      BY <1>1 DEF Post, TypeInv, Running
    <2>2. /\ pc' \in [Runs -> Labels] /\ user' \in [Runs -> Users \cup {None}]
          /\ \A q \in Runs : pc'[q] # "idle" => user'[q] \in Users
      BY <1>1 DEF Post, TypeInv, Labels
    <2> QED
      BY <1>1, <2>1, <2>2 DEF Post, TypeInv
  <1>2. ASSUME NEW u \in Users, Issue(u) PROVE TypeInv'
    <2>1. csr' \in [Users -> Request \cup {None}]
      BY <1>2 DEF Issue, TypeInv, Request
    <2> QED
      BY <1>2, <2>1 DEF Issue, TypeInv, serverVars, runVars, history
  <1>3. CASE Tick
    BY <1>0, <1>3 DEF Tick, TypeInv, Seconds, serverVars, runVars, history
  <1>4. CASE ConnectionLost
    <2>1. cut' \subseteq Runs /\ losses' \in 0..MaxLosses
      BY <1>0, <1>4 DEF ConnectionLost, TypeInv, Running
    <2>2. /\ answer' \in [Runs -> Config \cup {Error, Null, None}]
          /\ output' \in [Runs -> Config \cup {Error, Null}]
      BY <1>4 DEF ConnectionLost, TypeInv
    <2> QED
      BY <1>4, <2>1, <2>2 DEF ConnectionLost, TypeInv
  <1>5. CASE HostStop
    <2>1. /\ stops' \in 0..MaxStops /\ clock' \in Seconds
          /\ serving' = serving /\ answer' = answer
          /\ serving # None => pc'[serving] \notin {"idle", "ended"}
      BY <1>0, <1>5 DEF HostStop, TypeInv, Seconds, serverVars, Running
    <2>2. /\ pc' \in [Runs -> Labels] /\ output' \in [Runs -> Config \cup {Error, Null}]
          /\ d' \in [Runs -> Seconds]
      BY <1>0, <1>5 DEF HostStop, TypeInv, Seconds, Labels, Ended
    <2>3. cut' \subseteq Runs /\ \A q \in Runs : pc'[q] # "idle" => user'[q] \in Users
      BY <1>5 DEF HostStop, TypeInv, Running
    <2> QED
      BY <1>5, <2>1, <2>2, <2>3 DEF HostStop, TypeInv
  <1>6. CASE UNCHANGED vars
    BY <1>6 DEF vars, TypeInv, serverVars, runVars, history
  <1> QED
    BY <1>1, <1>2, <1>3, <1>4, <1>5, <1>6, TypeStep DEF Next


-----------------------------------------------------------------------------
\* A run alone on the host is the one whose command is executed.
LEMMA OnlyOne ==
  ASSUME AloneInv, NEW r \in Running, NEW q \in Running \ overlapped
  PROVE  q = r
  BY DEF AloneInv

LEMMA AloneNext == TypeInv /\ AloneInv /\ [Next]_vars => AloneInv'
  <1> SUFFICES ASSUME TypeInv, AloneInv, [Next]_vars PROVE AloneInv'
    OBVIOUS
  <1>1. ASSUME NEW r \in Runs, NEW u \in Users, Post(r, u) PROVE AloneInv'
    <2>1. /\ serving = None /\ serving' = r /\ cut' = cut
          /\ r \notin Running /\ Running' = Running \cup {r}
          /\ \A q \in Runs \ {r} : user'[q] = user[q]
      BY <1>1 DEF Post, TypeInv, Running
    <2>2. Running \subseteq cut /\ pc[r] = "idle" /\ pc'[r] = "check"
      BY <1>1, <2>1, NoneAssumption DEF AloneInv, Running, Post, TypeInv
    <2>3. Running = {} \/ Running' \subseteq overlapped'
      BY <1>1, <2>1 DEF Post
    <2>4. \A q \in Runs \ {r} : pc'[q] = pc[q]
      BY <1>1 DEF Post, TypeInv
    <2>5. /\ \A q \in cut' : pc'[q] # "idle"
          /\ \A q \in Runs : pc'[q] = "killed" => q \in cut'
      BY <2>1, <2>2, <2>4 DEF AloneInv, TypeInv
    <2> QED
      BY <2>1, <2>2, <2>3, <2>5 DEF AloneInv
  <1>2. ASSUME NEW r \in Runs, Answer(r) PROVE AloneInv'
    <2>1. /\ serving = r /\ r \notin Running /\ Running' = Running
          /\ UNCHANGED <<user, cut, overlapped>> /\ pc'[r] = "ended"
          /\ \A q \in Runs \ {r} : pc'[q] = pc[q]
      BY <1>2 DEF Answer, TypeInv, Running, history
    <2> QED
      BY <2>1 DEF AloneInv, TypeInv
  <1>3. ASSUME NEW r \in Runs, Step(r), ~Answer(r) PROVE AloneInv'
    BY <1>3, StepMoves DEF Moved, AloneInv, TypeInv
  <1>4. CASE ConnectionLost
    <2>1. /\ Running' = Running /\ UNCHANGED <<pc, overlapped>>
          /\ cut' = cut \cup ({serving} \cap Running)
      BY <1>4 DEF ConnectionLost, Running
    <2> QED
      BY <2>1 DEF AloneInv, Running
  <1>5. CASE HostStop
    <2>1. /\ Running' = {} /\ cut' = cut \cup Running
          /\ \A q \in Running : pc'[q] \in {"killed", "ended"}
          /\ \A q \in Runs \ Running : pc'[q] = pc[q]
      BY <1>5 DEF HostStop, Running
    <2>2. cut' \subseteq Runs
      BY <2>1 DEF TypeInv, Running
    <2> QED
      BY <2>1, <2>2 DEF AloneInv
  <1>6. CASE UNCHANGED <<serving, pc, cut, overlapped>>
    BY <1>6 DEF AloneInv, Running
  <1> QED
    BY <1>1, <1>2, <1>3, <1>4, <1>5, <1>6
    DEF Next, Issue, Tick, vars, serverVars, runVars, history

-----------------------------------------------------------------------------
LEMMA ErrorStep ==
  ASSUME TypeInv, AloneInv, ErrorInv, NEW r \in Runs, Step(r), ~Answer(r)
  PROVE  ErrorInv'
  <1>0. /\ Moved(r) /\ pc \in [Runs -> Labels] /\ pc' \in [Runs -> Labels]
        /\ output \in [Runs -> Config \cup {Error, Null}]
        /\ RBAC \in [Users -> Directory \cup {None}]
    BY StepMoves DEF TypeInv, Moved
  <1>1. /\ user[r] \in Users /\ r \in Running /\ pc[r] \notin Ended
        /\ user' = user /\ cut' = cut /\ UsersCut' = UsersCut /\ answer' = answer
        /\ pc'[r] # "idle" /\ \A q \in Runs \ {r} : pc'[q] = pc[q]
    BY <1>0 DEF Moved, Running, Ended, UsersCut
  <1>2. output[r] # Error
    BY <1>1 DEF ErrorInv, Ended
  \* what r prints
  <1>3. \/ output' = output
        \/ /\ output' = [output EXCEPT ![r] = Error] /\ pc'[r] = "exit"
           /\ pc[r] = "check" /\ RBAC[user[r]] # None /\ RBAC[user[r]].config = None
        \/ \E o \in Config : output' = [output EXCEPT ![r] = o]
    <2>1. CASE Check(r)
      BY <1>0, <2>1 DEF Check, Prints, Command
    <2>2. CASE Cat(r)
      BY <1>0, <1>1, <2>2 DEF Cat, Prints, Directory
    <2> QED
      BY <2>1, <2>2 DEF Step, Genrsa, DeleteRequest, ApplyRequest, ApproveRequest, Fetch,
                        WriteConfig, SetCredentials, BrokenPipe, MakeDated, Move, PutAway,
                        WriteDir
  <1>4. ASSUME pc[r] = "check", RBAC[user[r]] # None, RBAC[user[r]].config = None
        PROVE  user[r] \in UsersCut
    <2> SUFFICES ASSUME user[r] \notin UsersCut PROVE FALSE
      OBVIOUS
    <2>1. PICK q \in Runs : user[q] = user[r] /\ pc[q] \in Filling
      BY <1>1, <1>4 DEF ErrorInv
    <2>2. q \in Running
      BY <2>1 DEF Filling, Running
    <2>3. serving = q /\ serving = r
      BY <1>1, <2>1, <2>2 DEF AloneInv, UsersCut
    <2> QED
      BY <1>4, <2>1, <2>3 DEF Filling
  <1>5. \A q \in Runs : /\ output'[q] = Error => pc'[q] = "exit"
                        /\ output'[q] = Error \/ answer'[q] = Error => user'[q] \in UsersCut'
                        /\ pc'[q] = "idle" => output'[q] = Null /\ answer'[q] = None
    <2> SUFFICES ASSUME NEW q \in Runs
                 PROVE  /\ output'[q] = Error => pc'[q] = "exit"
                        /\ output'[q] = Error \/ answer'[q] = Error => user'[q] \in UsersCut'
                        /\ pc'[q] = "idle" => output'[q] = Null /\ answer'[q] = None
      OBVIOUS
    <2>1. CASE q # r
      BY <1>0, <1>1, <1>3, <2>1 DEF ErrorInv
    <2>2. CASE q = r
      <3>1. output'[r] = Error => pc'[r] = "exit" /\ user[r] \in UsersCut
        BY <1>0, <1>2, <1>3, <1>4, ValuesAssumption, NoneAssumption
      <3> QED
        BY <1>1, <2>2, <3>1 DEF ErrorInv
    <2> QED
      BY <2>1, <2>2
  \* what r leaves in the directory of its user
  <1>6. \/ pc[r] \notin Filling /\ RBAC' = RBAC
        \/ pc'[r] \in Filling /\ \A u \in Users \ {user[r]} : RBAC'[u] = RBAC[u]
        \/ /\ \A u \in Users \ {user[r]} : RBAC'[u] = RBAC[u]
           /\ RBAC'[user[r]] # None => RBAC'[user[r]].config # None
        \/ RBAC' = RBAC /\ pc[r] \in Filling /\ pc'[r] \in Filling
        \/ RBAC' = RBAC /\ user[r] \in UsersCut
    <2>1. CASE Check(r)
      BY <2>1 DEF Check, Command, OnlyOutput, Filling
    <2>2. CASE Genrsa(r) \/ DeleteRequest(r) \/ ApplyRequest(r) \/ ApproveRequest(r)
      <3>1. pc'[r] \in Filling
        BY <1>0, <2>2 DEF Genrsa, DeleteRequest, ApplyRequest, ApproveRequest, Command, Filling
      <3>2. \A u \in Users \ {user[r]} : RBAC'[u] = RBAC[u]
        BY <1>0, <2>2 DEF Genrsa, DeleteRequest, ApplyRequest, ApproveRequest
      <3> QED
        BY <3>1, <3>2
    <2>3. CASE Fetch(r)
      BY <1>0, <2>3 DEF Fetch, Command, Filling, WriteDir
    <2>4. CASE WriteConfig(r)
      <3>1. \E dir : WriteDir(r, dir) /\ (RBAC[user[r]] # None => dir \in Directory /\ dir.config # None)
        <4> DEFINE c == [user |-> user[r], key |-> None, crt |-> None, clean |-> TRUE]
        <4>1. c \in Config /\ c # None
          <5>1. c \in Config
            BY <1>1 DEF Config
          <5> QED
            BY <5>1, ValuesAssumption
        <4>2. WriteDir(r, [RBAC[user[r]] EXCEPT !.config = c])
          BY <2>4 DEF WriteConfig
        <4> HIDE DEF c
        <4> QED
          BY <1>0, <1>1, <4>1, <4>2 DEF Directory
      <3> QED
        BY <1>1, <3>1, WriteEffect
    <2>5. CASE SetCredentials(r)
      <3>1. \E dir : WriteDir(r, dir) /\ (RBAC[user[r]] # None => dir \in Directory /\ dir.config # None)
        <4> DEFINE old == RBAC[user[r]]
                   c == [user |-> user[r], key |-> old.key, crt |-> old.crt,
                         clean |-> old.clean /\ r \notin overlapped]
        <4>1. old # None => c \in Config /\ c # None
          <5>1. old # None => c \in Config
            BY <1>0, <1>1 DEF Config, Directory
          <5> QED
            BY <5>1, ValuesAssumption
        <4>2. WriteDir(r, [old EXCEPT !.config = c])
          BY <2>5 DEF SetCredentials
        <4> HIDE DEF c
        <4> QED
          BY <1>0, <1>1, <4>1, <4>2 DEF Directory
      <3> QED
        BY <1>1, <3>1, WriteEffect
    <2>6. CASE Cat(r) \/ MakeDated(r) \/ PutAway(r)
      BY <2>6 DEF Cat, MakeDated, PutAway, Command, OnlyOutput, Filling
    <2>7. CASE Move(r)
      BY <1>0, <1>1, <2>7 DEF Move, Command, Filling
    <2>8. CASE BrokenPipe(r)
      BY <1>1, <2>8 DEF BrokenPipe, AloneInv, UsersCut
    <2> QED
      BY <1>1, <2>1, <2>2, <2>3, <2>4, <2>5, <2>6, <2>7, <2>8 DEF Step
  <1>7. ASSUME NEW u \in Users \ UsersCut, RBAC'[u] # None, RBAC'[u].config = None
        PROVE  \E q \in Runs : user[q] = u /\ pc'[q] \in Filling
    <2>1. CASE u # user[r]
      BY <1>1, <1>6, <1>7, <2>1 DEF ErrorInv
    <2>2. CASE u = user[r]
      BY <1>1, <1>6, <1>7, <2>2 DEF ErrorInv
    <2> QED
      BY <2>1, <2>2
  <1> QED
    BY <1>1, <1>5, <1>7 DEF ErrorInv

LEMMA ErrorNext == TypeInv /\ AloneInv /\ ErrorInv /\ [Next]_vars => ErrorInv'
  <1> SUFFICES ASSUME TypeInv, AloneInv, ErrorInv, [Next]_vars PROVE ErrorInv'
    OBVIOUS
  <1>0. /\ pc \in [Runs -> Labels] /\ user \in [Runs -> Users \cup {None}]
        /\ answer \in [Runs -> Config \cup {Error, Null, None}]
        /\ output \in [Runs -> Config \cup {Error, Null}]
    BY DEF TypeInv
  <1>1. ASSUME NEW r \in Runs, NEW u \in Users, Post(r, u) PROVE ErrorInv'
    <2>1. pc[r] = "idle" /\ pc'[r] = "check" /\ answer[r] = None /\ output[r] = Null
      BY <1>0, <1>1 DEF Post, ErrorInv
    <2>2. \A q \in Runs \ {r} : pc'[q] = pc[q] /\ user'[q] = user[q]
      BY <1>0, <1>1 DEF Post
    <2>3. UNCHANGED <<answer, output, RBAC, cut>>
      BY <1>1 DEF Post
    <2>4. UsersCut' = UsersCut
      BY <2>1, <2>2, <2>3 DEF AloneInv, TypeInv, UsersCut
    <2> QED
      BY <2>1, <2>2, <2>3, <2>4, NoneAssumption DEF ErrorInv, Filling
  <1>2. ASSUME NEW r \in Runs, Answer(r) PROVE ErrorInv'
    <2>1. /\ pc[r] \in {"exit", "killed"} /\ pc'[r] = "ended"
          /\ answer'[r] \in {output[r], Null, None} /\ output'[r] = Null
          /\ \A q \in Runs \ {r} : pc'[q] = pc[q] /\ answer'[q] = answer[q] /\ output'[q] = output[q]
      BY <1>0, <1>2 DEF Answer
    <2>2. UNCHANGED <<user, RBAC, UsersCut>>
      BY <1>2 DEF Answer, history, UsersCut
    <2> QED
      BY <2>1, <2>2, NoneAssumption DEF ErrorInv, Filling
  <1>3. ASSUME NEW r \in Runs, Step(r), ~Answer(r) PROVE ErrorInv'
    BY <1>3, ErrorStep
  <1>4. CASE ConnectionLost
    <2>1. /\ serving \in Runs /\ UNCHANGED <<pc, user, RBAC>> /\ cut \subseteq cut'
          /\ answer'[serving] \in {output[serving], Null, None} /\ output'[serving] = Null
          /\ \A q \in Runs \ {serving} : answer'[q] = answer[q] /\ output'[q] = output[q]
      BY <1>0, <1>4 DEF ConnectionLost, TypeInv
    <2>2. UsersCut \subseteq UsersCut' /\ pc[serving] # "idle"
      BY <1>4, <2>1 DEF UsersCut, TypeInv, ConnectionLost
    <2> QED
      BY <2>1, <2>2, NoneAssumption DEF ErrorInv
  <1>5. CASE HostStop
    <2>1. /\ cut' = cut \cup Running
          /\ UNCHANGED <<user, answer, RBAC>>
          /\ \A q \in Running : pc'[q] \in {"killed", "ended"} /\ output'[q] \in {Null, output[q]}
          /\ \A q \in Runs \ Running : pc'[q] = pc[q] /\ output'[q] = output[q]
      BY <1>0, <1>5 DEF HostStop, serverVars, Running
    <2>2. /\ \A q \in Runs : pc[q] \in Filling => q \in Running
          /\ \A q \in Running : output[q] # Error
      BY DEF Filling, Running, ErrorInv
    <2>3. UsersCut' = UsersCut \cup {user[q] : q \in Running}
      BY <2>1 DEF UsersCut
    <2> QED
      BY <2>1, <2>2, <2>3, NoneAssumption DEF ErrorInv
  <1>6. CASE UNCHANGED <<pc, user, output, answer, RBAC, cut>>
    BY <1>6 DEF ErrorInv, UsersCut
  <1> QED
    BY <1>1, <1>2, <1>3, <1>4, <1>5, <1>6
    DEF Next, Issue, Tick, vars, serverVars, runVars, history


-----------------------------------------------------------------------------
\* A directory fits if its certificate does, and that of its configuration.
DirFits(dir) == dir # None => Fits(dir) /\ (dir.config # None => Fits(dir.config))

\* The certificate of a request that r made fits the key of r.
LEMMA DirStep ==
  ASSUME TypeInv, KeyInv, NEW r \in Runs, Step(r), ~Answer(r)
  PROVE  \A u \in Users : DirFits(RBAC'[u])
  <1> DEFINE dir == RBAC[user[r]]
  <1>0. /\ user[r] \in Users /\ dir \in Directory \cup {None}
        /\ RBAC \in [Users -> Directory \cup {None}] /\ csr \in [Users -> Request \cup {None}]
        /\ r \in Running
    BY StepMoves DEF TypeInv, Moved
  <1>1. /\ \A u \in Users : DirFits(RBAC[u])
        /\ DirFits(dir)
    BY <1>0 DEF KeyInv, DirFits
  <1>2. DirFits(None)
    BY DEF DirFits
  <1>3. CASE UNCHANGED RBAC
    BY <1>1, <1>3
  <1>4. CASE Genrsa(r)
    <2> DEFINE old == [dir EXCEPT !.key = r, !.clean = FALSE]
               new == [key |-> r, crt |-> None, config |-> None, clean |-> r \notin overlapped]
    <2>1. DirFits(new) /\ (dir # None => DirFits(old))
      BY <1>0, <1>1 DEF DirFits, Fits, Directory
    <2>2. RBAC' = [RBAC EXCEPT ![user[r]] = IF dir # None THEN old ELSE new]
      BY <1>0, <1>4 DEF Genrsa
    <2> HIDE DEF old, new
    <2> QED
      BY <1>0, <1>1, <2>1, <2>2
  <1>5. CASE DeleteRequest(r)
    <2> DEFINE old == [dir EXCEPT !.clean = FALSE]
    <2>1. dir # None => DirFits(old)
      BY <1>0, <1>1 DEF DirFits, Fits, Directory
    <2>2. RBAC' = RBAC \/ (dir # None /\ RBAC' = [RBAC EXCEPT ![user[r]] = old])
      BY <1>0, <1>5 DEF DeleteRequest
    <2> HIDE DEF old
    <2> QED
      BY <1>0, <1>1, <2>1, <2>2
  <1>6. CASE Fetch(r)
    <2>1. PICK crt : /\ WriteDir(r, [dir EXCEPT !.crt = crt])
                     /\ crt # None => csr[user[r]] # None /\ crt = csr[user[r]].key
                     /\ pc[r] = "fetch"
      BY <1>6 DEF Fetch, Command
    <2>2. crt \in Runs \cup {None}
      BY <1>0, <2>1 DEF Request
    <2>3. dir # None => /\ [dir EXCEPT !.crt = crt] \in Directory
                        /\ [dir EXCEPT !.crt = crt].crt = crt
                        /\ [dir EXCEPT !.crt = crt].key = dir.key
                        /\ [dir EXCEPT !.crt = crt].clean = dir.clean
                        /\ [dir EXCEPT !.crt = crt].config = dir.config
      BY <1>0, <2>2 DEF Directory
    <2>4. dir # None /\ dir.clean /\ r \notin overlapped => crt \in {dir.key, None}
      BY <1>0, <2>1 DEF KeyInv
    <2>5. DirFits(RBAC'[user[r]]) /\ \A u \in Users \ {user[r]} : RBAC'[u] = RBAC[u]
      BY <1>0, <1>1, <2>1, <2>3, <2>4, WriteEffect DEF DirFits, Fits
    <2> QED
      BY <1>1, <2>5
  <1>7. CASE WriteConfig(r)
    <2> DEFINE c == [user |-> user[r], key |-> None, crt |-> None, clean |-> TRUE]
               new == [dir EXCEPT !.config = c]
    <2>1. c \in Config /\ Fits(c)
      BY <1>0 DEF Config, Fits
    <2>2. WriteDir(r, new)
      BY <1>7 DEF WriteConfig
    <2> HIDE DEF c
    <2>3. dir # None => /\ new \in Directory /\ new.key = dir.key /\ new.crt = dir.crt
                        /\ new.clean = dir.clean /\ new.config = c
      BY <1>0, <2>1 DEF Directory
    <2> HIDE DEF new
    <2>4. DirFits(RBAC'[user[r]]) /\ \A u \in Users \ {user[r]} : RBAC'[u] = RBAC[u]
      BY <1>0, <1>1, <2>1, <2>2, <2>3, WriteEffect DEF DirFits, Fits
    <2> QED
      BY <1>1, <2>4
  <1>8. CASE SetCredentials(r)
    <2> DEFINE c == [user |-> user[r], key |-> dir.key, crt |-> dir.crt,
                     clean |-> dir.clean /\ r \notin overlapped]
               new == [dir EXCEPT !.config = c]
    <2>1. dir # None => c \in Config /\ Fits(c)
      BY <1>0, <1>1 DEF Config, Directory, DirFits, Fits
    <2>2. WriteDir(r, new)
      BY <1>8 DEF SetCredentials
    <2> HIDE DEF c
    <2>3. dir # None => /\ new \in Directory /\ new.key = dir.key /\ new.crt = dir.crt
                        /\ new.clean = dir.clean /\ new.config = c
      BY <1>0, <2>1 DEF Directory
    <2> HIDE DEF new
    <2>4. DirFits(RBAC'[user[r]]) /\ \A u \in Users \ {user[r]} : RBAC'[u] = RBAC[u]
      BY <1>0, <1>1, <2>1, <2>2, <2>3, WriteEffect DEF DirFits, Fits
    <2> QED
      BY <1>1, <2>4
  <1>9. CASE Move(r)
    <2>1. RBAC' = RBAC \/ RBAC' = [RBAC EXCEPT ![user[r]] = None]
      BY <1>9 DEF Move
    <2> QED
      BY <1>0, <1>1, <1>2, <2>1
  <1> QED
    BY <1>3, <1>4, <1>5, <1>6, <1>7, <1>8, <1>9
    DEF Step, Check, ApplyRequest, ApproveRequest, BrokenPipe, Cat, MakeDated, PutAway, OnlyOutput

\* A request that is left is of the key, unless the directory is not clean.
LEMMA RequestStep ==
  ASSUME TypeInv, KeyInv, NEW r \in Runs \ overlapped, Step(r), ~Answer(r),
         pc'[r] \in {"apply", "approve", "fetch"},
         RBAC'[user[r]] # None, RBAC'[user[r]].clean, csr'[user[r]] # None
  PROVE  csr'[user[r]].key = RBAC'[user[r]].key
  <1> DEFINE u == user[r]
  <1>0. /\ u \in Users /\ RBAC[u] \in Directory \cup {None} /\ pc \in [Runs -> Labels]
        /\ RBAC \in [Users -> Directory \cup {None}] /\ csr \in [Users -> Request \cup {None}]
        /\ r \in Running \ overlapped
    BY StepMoves DEF TypeInv, Moved
  <1>1. CASE DeleteRequest(r)
    <2>1. CASE RBAC' = RBAC /\ csr' = [csr EXCEPT ![u] = None]
      BY <1>0, <2>1
    <2>2. CASE RBAC[u] = None /\ RBAC' = RBAC
      BY <2>2
    <2>3. CASE RBAC[u] # None /\ RBAC' = [RBAC EXCEPT ![u].clean = FALSE]
      <3>1. RBAC'[u].clean = FALSE
        BY <1>0, <2>3 DEF Directory
      <3> QED
        BY <3>1
    <2> QED
      BY <1>1, <2>1, <2>2, <2>3 DEF DeleteRequest
  <1>2. CASE ApplyRequest(r)
    <2>1. RBAC' = RBAC /\ pc[r] = "apply"
      BY <1>2 DEF ApplyRequest, Command
    <2>2. CASE csr' = csr
      BY <1>0, <2>1, <2>2 DEF KeyInv
    <2>3. CASE csr' = [csr EXCEPT ![u] = [key |-> RBAC[u].key, status |-> "pending"]]
      BY <1>0, <2>1, <2>3
    <2> QED
      BY <1>2, <2>2, <2>3 DEF ApplyRequest
  <1>3. CASE ApproveRequest(r)
    <2>1. RBAC' = RBAC /\ pc[r] = "approve"
      BY <1>3 DEF ApproveRequest, Command
    <2>2. csr'[u] = csr[u] \/ (csr[u] # None /\ csr'[u].key = csr[u].key)
      BY <1>0, <1>3 DEF ApproveRequest, Request
    <2> QED
      BY <1>0, <2>1, <2>2 DEF KeyInv
  <1> QED
    BY <1>0, <1>1, <1>2, <1>3
    DEF Step, Check, Genrsa, Fetch, WriteConfig, SetCredentials, BrokenPipe, Cat, MakeDated, Move,
        PutAway, Command

LEMMA KeyNext == TypeInv /\ AloneInv /\ ErrorInv /\ KeyInv /\ [Next]_vars => KeyInv'
  <1> SUFFICES ASSUME TypeInv, AloneInv, ErrorInv, KeyInv, [Next]_vars PROVE KeyInv'
    OBVIOUS
  <1>0. /\ pc \in [Runs -> Labels] /\ user \in [Runs -> Users \cup {None}]
        /\ answer \in [Runs -> Config \cup {Error, Null, None}]
        /\ output \in [Runs -> Config \cup {Error, Null}]
        /\ RBAC \in [Users -> Directory \cup {None}] /\ csr \in [Users -> Request \cup {None}]
    BY DEF TypeInv
  <1>1. ASSUME NEW r \in Runs, NEW u \in Users, Post(r, u) PROVE KeyInv'
    <2>1. /\ r \notin Running /\ Running' = Running \cup {r} /\ pc'[r] = "check"
          /\ \A q \in Runs \ {r} : pc'[q] = pc[q] /\ user'[q] = user[q]
          /\ UNCHANGED <<answer, output, RBAC, csr>> /\ overlapped \subseteq overlapped'
      BY <1>0, <1>1 DEF Post, Running
    <2>2. \A q \in Running' \ overlapped' : pc'[q] # "check" =>
            /\ q \in Running \ overlapped
            /\ pc'[q] = pc[q] /\ user'[q] = user[q]
      BY <2>1 DEF Running
    <2> QED
      BY <2>1, <2>2 DEF KeyInv
  <1>2. ASSUME NEW r \in Runs, Answer(r) PROVE KeyInv'
    <2>1. /\ Running' = Running /\ \A q \in Running : pc'[q] = pc[q]
          /\ answer'[r] \in {output[r], Null, None} /\ output'[r] = Null
          /\ \A q \in Runs \ {r} : answer'[q] = answer[q] /\ output'[q] = output[q]
          /\ UNCHANGED <<user, RBAC, csr, overlapped>>
      BY <1>0, <1>2 DEF Answer, history, Running
    <2> QED
      BY <2>1, ValuesAssumption DEF KeyInv
  <1>3. ASSUME NEW r \in Runs, Step(r), ~Answer(r) PROVE KeyInv'
    <2>1. Moved(r)
      BY <1>3, StepMoves
    <2>2. \A u \in Users : RBAC'[u] # None =>
            Fits(RBAC'[u]) /\ (RBAC'[u].config # None => Fits(RBAC'[u].config))
      BY <1>3, DirStep DEF DirFits
    <2>3. ASSUME NEW q \in Running' \ overlapped',
                 pc'[q] \in {"apply", "approve", "fetch"},
                 RBAC'[user'[q]] # None, RBAC'[user'[q]].clean, csr'[user'[q]] # None
          PROVE  csr'[user'[q]].key = RBAC'[user'[q]].key
      <3>1. q = r /\ r \in Runs \ overlapped /\ user'[q] = user[r]
        BY <2>1, OnlyOne DEF Moved, Running
      <3> QED
        BY <1>3, <2>3, <3>1, RequestStep
    <2>4. \A q \in Runs : output'[q] \in Config => output'[q] = output[q] \/ Fits(output'[q])
      <3>1. CASE Check(r)
        BY <1>0, <3>1, ValuesAssumption DEF Check, Prints
      <3>2. CASE Cat(r)
        BY <1>0, <2>1, <3>2, ValuesAssumption DEF Cat, Prints, KeyInv, Moved
      <3> QED
        BY <1>3, <3>1, <3>2
        DEF Step, Genrsa, DeleteRequest, ApplyRequest, ApproveRequest, Fetch, WriteConfig,
            SetCredentials, BrokenPipe, MakeDated, Move, PutAway, WriteDir
    <2> QED
      BY <2>1, <2>2, <2>3, <2>4 DEF KeyInv, Moved
  <1>4. ASSUME NEW u \in Users, Issue(u) PROVE KeyInv'
    <2>1. /\ \A v \in Users : csr'[v] # None => csr[v] # None /\ csr'[v].key = csr[v].key
          /\ UNCHANGED <<pc, user, output, answer, RBAC, overlapped>> /\ Running' = Running
      BY <1>0, <1>4 DEF Issue, Request, serverVars, runVars, history, Running
    <2>2. \A q \in Running : user[q] \in Users
      BY DEF TypeInv, Running
    <2> QED
      BY <2>1, <2>2 DEF KeyInv
  <1>5. CASE HostStop
    <2>1. /\ Running' = {} /\ UNCHANGED <<answer, RBAC>>
          /\ \A q \in Runs : output'[q] = Null \/ output'[q] = output[q]
      BY <1>0, <1>5 DEF HostStop, serverVars, Running
    <2> QED
      BY <2>1, ValuesAssumption DEF KeyInv
  <1>6. CASE ConnectionLost
    <2>1. /\ serving \in Runs /\ UNCHANGED <<pc, user, RBAC, csr, overlapped>> /\ Running' = Running
          /\ answer'[serving] \in {output[serving], Null, None} /\ output'[serving] = Null
          /\ \A q \in Runs \ {serving} : answer'[q] = answer[q] /\ output'[q] = output[q]
      BY <1>0, <1>6 DEF ConnectionLost, TypeInv, Running
    <2> QED
      BY <2>1, ValuesAssumption DEF KeyInv
  <1>7. CASE UNCHANGED <<pc, user, output, answer, RBAC, csr, overlapped>>
    BY <1>7 DEF KeyInv, Running
  <1> QED
    BY <1>1, <1>2, <1>3, <1>4, <1>5, <1>6, <1>7
    DEF Next, Tick, vars, serverVars, runVars, history


-----------------------------------------------------------------------------
LEMMA ClockNext == TypeInv /\ ClockInv /\ [Next]_vars => ClockInv'
  <1> SUFFICES ASSUME TypeInv, ClockInv, [Next]_vars PROVE ClockInv'
    OBVIOUS
  <1>0. /\ pc \in [Runs -> Labels] /\ d \in [Runs -> Seconds] /\ clock \in Seconds
        /\ dated \in [Seconds -> [Users -> Directory \cup {None}] \cup {None}]
        /\ Seconds \subseteq Nat
    BY DEF TypeInv, Seconds
  <1> DEFINE Busy(r) == pc[r] \in {"mv", "tar", "rm"}
  <1>1. ASSUME NEW r \in Runs, NEW u \in Users, Post(r, u) PROVE ClockInv'
    <2>1. /\ UNCHANGED <<d, clock, dated>>
          /\ \A q \in Runs : Busy(q) => pc'[q] = pc[q]
      BY <1>0, <1>1 DEF Post
    <2> QED
      BY <2>1 DEF ClockInv
  <1>2. ASSUME NEW r \in Runs, Answer(r) PROVE ClockInv'
    <2>1. /\ UNCHANGED <<clock, dated>> /\ d'[r] = 0
          /\ \A q \in Runs : q # r => d'[q] = d[q]
          /\ \A q \in Runs : Busy(q) => pc'[q] = pc[q] /\ d'[q] = d[q]
      BY <1>0, <1>2 DEF Answer, history
    <2> QED
      BY <1>0, <2>1 DEF ClockInv
  <1>3. ASSUME NEW r \in Runs, Step(r), ~Answer(r) PROVE ClockInv'
    <2>0. clock' = clock /\ pc' \in [Runs -> Labels] /\ \A q \in Runs \ {r} : pc'[q] = pc[q]
      BY <1>3, StepMoves DEF Moved
    <2>1. CASE MakeDated(r)
      <3>1. /\ d'[r] = clock /\ pc'[r] = "mv" /\ pc[r] = "mkdir"
            /\ \A q \in Runs \ {r} : d'[q] = d[q]
            /\ \A s \in Seconds : s # clock => dated'[s] = dated[s]
        BY <1>0, <2>1 DEF MakeDated, Command
      <3> QED
        BY <1>0, <2>0, <3>1 DEF ClockInv
    <2>2. CASE Move(r)
      <3>1. /\ d' = d /\ pc'[r] = "tar" /\ pc[r] = "mv"
            /\ \A s \in Seconds : s # d[r] => dated'[s] = dated[s]
        BY <1>0, <2>2 DEF Move, Command
      <3> QED
        BY <1>0, <2>0, <3>1 DEF ClockInv
    <2>3. CASE PutAway(r)
      <3>1. /\ \A q \in Runs \ {r} : d'[q] = d[q]
            /\ \A s \in Seconds : s # d[r] => dated'[s] = dated[s]
            /\ \/ pc'[r] = "rm" /\ pc[r] = "tar" /\ dated' = dated /\ d' = d
               \/ dated'[d[r]] = None /\ d'[r] = 0
        BY <1>0, <2>3 DEF PutAway, Command
      <3> QED
        BY <1>0, <2>0, <3>1 DEF ClockInv
    <2>4. CASE ~MakeDated(r) /\ ~Move(r) /\ ~PutAway(r)
      <3>1. UNCHANGED <<d, dated>> /\ ~Busy(r)
        BY <1>3, <2>4
        DEF Step, Check, Genrsa, DeleteRequest, ApplyRequest, ApproveRequest, Fetch, WriteConfig,
            SetCredentials, BrokenPipe, Cat, OnlyOutput, WriteDir, Command
      <3> QED
        BY <2>0, <3>1 DEF ClockInv
    <2> QED
      BY <2>1, <2>2, <2>3, <2>4
  <1>4. CASE Tick
    <2>1. /\ clock' = clock + 1 /\ UNCHANGED <<pc, d, dated>>
      BY <1>4 DEF Tick, runVars
    <2> QED
      BY <1>0, <2>1 DEF ClockInv
  <1>5. CASE HostStop
    <2>1. /\ clock' = clock + 1 /\ dated' = dated
          /\ \A q \in Runs : d'[q] = 0 \/ d'[q] = d[q]
      BY <1>5 DEF HostStop
    <2>2. \A s \in Seconds : dated[s] # None => s <= clock
      BY <1>0 DEF ClockInv
    <2> QED
      BY <1>0, <2>1, <2>2 DEF ClockInv
  <1>6. CASE UNCHANGED <<pc, d, clock, dated>>
    BY <1>6 DEF ClockInv
  <1> QED
    BY <1>1, <1>2, <1>3, <1>4, <1>5, <1>6
    DEF Next, Issue, ConnectionLost, vars, serverVars, runVars, history


-----------------------------------------------------------------------------
\* The part of the invariant about one run
Archiving(r) ==
  /\ output[r] \in Config =>
       /\ pc[r] \in {"mkdir", "mv"} =>
            RBAC[user[r]] # None /\ RBAC[user[r]].config = output[r]
       /\ pc[r] = "tar" => output[r] \in ConfigsIn(dated[d[r]])
       /\ pc[r] \in {"rm", "exit"} => output[r] \in tar
       /\ pc[r] \in {"mkdir", "mv", "tar", "rm", "exit"}
  /\ pc[r] = "mv" => dated[d[r]] = Empty
  /\ answer[r] \in Config => answer[r] \in tar

\* A run that is alone finds no directory of the current second, and its own
\* directory is as it left it.
LEMMA ArchiveStep ==
  ASSUME Inv, NEW r \in Runs \ (overlapped \cup cut), Step(r), ~Answer(r)
  PROVE  Archiving(r)'
  <1>0. /\ pc \in [Runs -> Labels] /\ d \in [Runs -> Seconds] /\ clock \in Seconds
        /\ output \in [Runs -> Config \cup {Error, Null}]
        /\ RBAC \in [Users -> Directory \cup {None}]
        /\ dated \in [Seconds -> [Users -> Directory \cup {None}] \cup {None}]
        /\ TypeInv /\ AloneInv /\ ClockInv
    BY DEF Inv, TypeInv
  <1>1. /\ r \in Running \ overlapped /\ user[r] \in Users /\ serving = r
        /\ user' = user /\ answer' = answer
    BY <1>0, StepMoves DEF Moved, AloneInv
  <1>2. Archiving(r)
    BY DEF Inv, ArchiveInv, Archiving
  <1>3. /\ None \notin [Users -> Directory \cup {None}]
        /\ None \notin Config /\ Error \notin Config
    BY ValuesAssumption
  <1>4. tar \subseteq tar'
    BY DEF Step, Check, Genrsa, DeleteRequest, ApplyRequest, ApproveRequest, Fetch, WriteConfig,
           SetCredentials, BrokenPipe, Cat, MakeDated, Move, PutAway, OnlyOutput, WriteDir
  <1>5. answer'[r] \in Config => answer'[r] \in tar'
    BY <1>1, <1>2, <1>4 DEF Archiving
  <1>6. CASE Cat(r)
    <2>1. /\ pc[r] = "cat" /\ pc'[r] = "mkdir" /\ RBAC' = RBAC
          /\ \/ output' = output
             \/ RBAC[user[r]] # None /\ output'[r] = RBAC[user[r]].config
      BY <1>0, <1>1, <1>6 DEF Cat, Prints, Command, OnlyOutput
    <2>2. output[r] \notin Config
      BY <1>2, <2>1 DEF Archiving
    <2> QED
      BY <1>1, <1>3, <1>5, <2>1, <2>2 DEF Archiving
  <1>7. CASE MakeDated(r)
    <2>1. /\ pc[r] = "mkdir" /\ pc'[r] = "mv" /\ d'[r] = clock
          /\ UNCHANGED <<output, RBAC>>
          /\ dated[clock] = None => dated'[clock] = Empty
      BY <1>0, <1>7 DEF MakeDated, Command
    <2>2. dated[clock] = None
      <3> SUFFICES ASSUME dated[clock] # None PROVE FALSE
        OBVIOUS
      <3>1. ~(clock < clock)
        BY <1>0 DEF Seconds
      <3>2. PICK q \in Runs : pc[q] \in {"mv", "tar", "rm"}
        BY <1>0, <3>1 DEF ClockInv
      <3>3. q \in Running
        BY <3>2 DEF Running
      <3> QED
        BY <1>0, <1>1, <2>1, <3>2, <3>3, OnlyOne
    <2> QED
      BY <1>1, <1>2, <1>5, <2>1, <2>2 DEF Archiving
  <1>8. CASE Move(r)
    <2>1. /\ pc[r] = "mv" /\ pc'[r] = "tar" /\ UNCHANGED <<output, d>>
      BY <1>0, <1>8 DEF Move, Command
    <2>2. dated[d[r]] = Empty /\ Empty # None /\ Empty[user[r]] = None
      BY <1>1, <1>2, <1>3, <2>1 DEF Archiving, Empty
    <2> DEFINE dir == RBAC[user[r]]
    <2>3. ASSUME output[r] \in Config
          PROVE  output[r] \in ConfigsIn(dated'[d[r]])
      <3>1. dir # None /\ dir.config = output[r]
        BY <1>2, <2>1, <2>3 DEF Archiving
      <3>2. dated' = [dated EXCEPT ![d[r]] = [Empty EXCEPT ![user[r]] = dir]]
        BY <1>8, <2>2, <3>1 DEF Move
      <3> DEFINE after == [Empty EXCEPT ![user[r]] = dir]
      <3>3. after \in [Users -> Directory \cup {None}] /\ after[user[r]] = dir
        BY <1>0, <1>1 DEF Empty
      <3>4. dated'[d[r]] = after
        BY <1>0, <3>2
      <3> HIDE DEF after
      <3>5. after # None /\ output[r] # None
        BY <1>3, <2>3, <3>3
      <3> QED
        BY <1>1, <3>1, <3>3, <3>4, <3>5 DEF ConfigsIn
    <2> QED
      BY <1>5, <2>1, <2>3 DEF Archiving
  <1>9. CASE PutAway(r)
    <2>1. output' = output
      BY <1>9 DEF PutAway
    <2>2. CASE pc[r] = "tar" /\ pc'[r] = "rm" /\ tar' = tar \cup ConfigsIn(dated[d[r]])
      BY <1>2, <1>5, <2>1, <2>2 DEF Archiving
    <2>3. CASE pc[r] = "rm" /\ pc'[r] = "exit" /\ tar' = tar
      BY <1>2, <1>5, <2>1, <2>3 DEF Archiving
    <2> QED
      BY <1>0, <1>9, <2>2, <2>3 DEF PutAway, Command
  <1>10. CASE ~Cat(r) /\ ~MakeDated(r) /\ ~Move(r) /\ ~PutAway(r)
    <2>1. pc[r] \notin {"mkdir", "mv", "tar", "rm", "exit"} /\ pc'[r] # "mv"
      BY <1>0, <1>10
      DEF Step, Check, Genrsa, DeleteRequest, ApplyRequest, ApproveRequest, Fetch, WriteConfig,
          SetCredentials, BrokenPipe, Command
    <2>2. output[r] \notin Config
      BY <1>2, <2>1 DEF Archiving
    <2>3. output' = output \/ output' = [output EXCEPT ![r] = Error]
      BY <1>10
      DEF Step, Check, Prints, Genrsa, DeleteRequest, ApplyRequest, ApproveRequest, Fetch,
          WriteConfig, SetCredentials, BrokenPipe, WriteDir
    <2>4. output'[r] \notin Config
      BY <1>0, <1>3, <2>2, <2>3
    <2> QED
      BY <1>5, <2>1, <2>4 DEF Archiving
  <1> QED
    BY <1>6, <1>7, <1>8, <1>9, <1>10

LEMMA ArchiveNext == Inv /\ [Next]_vars => ArchiveInv'
  <1> SUFFICES ASSUME Inv, [Next]_vars PROVE ArchiveInv'
    OBVIOUS
  <1>0. /\ pc \in [Runs -> Labels] /\ user \in [Runs -> Users \cup {None}]
        /\ answer \in [Runs -> Config \cup {Error, Null, None}]
        /\ output \in [Runs -> Config \cup {Error, Null}]
        /\ d \in [Runs -> Seconds]
        /\ TypeInv /\ AloneInv /\ ErrorInv
    BY DEF Inv, TypeInv
  <1>1. \A r \in Runs \ (overlapped \cup cut) : Archiving(r)
    BY DEF Inv, ArchiveInv, Archiving
  <1>2. ASSUME \A q \in Runs \ (overlapped' \cup cut') : Archiving(q)'
        PROVE  ArchiveInv'
    BY <1>2 DEF ArchiveInv, Archiving
  <1>3. ASSUME NEW r \in Runs, NEW u \in Users, Post(r, u) PROVE ArchiveInv'
    <2>1. /\ pc[r] = "idle" /\ pc'[r] = "check" /\ output[r] = Null /\ answer[r] = None
          /\ \A q \in Runs \ {r} : pc'[q] = pc[q] /\ user'[q] = user[q]
          /\ UNCHANGED <<answer, d, output, RBAC, dated, tar>>
      BY <1>0, <1>3 DEF Post, ErrorInv
    <2>2. overlapped \subseteq overlapped' /\ cut' = cut
      BY <1>3 DEF Post
    <2>3. ASSUME NEW q \in Runs \ (overlapped' \cup cut') PROVE Archiving(q)'
      <3>1. CASE q = r
        BY <2>1, <3>1, ValuesAssumption DEF Archiving
      <3>2. CASE q # r
        <4>1. Archiving(q)
          BY <1>1, <2>2
        <4> QED
          BY <2>1, <3>2, <4>1 DEF Archiving, ConfigsIn
      <3> QED
        BY <3>1, <3>2
    <2> QED
      BY <1>2, <2>2, <2>3
  <1>4. ASSUME NEW r \in Runs, Answer(r) PROVE ArchiveInv'
    <2>1. /\ pc'[r] = "ended" /\ output'[r] = Null
          /\ (pc[r] = "exit" /\ answer'[r] = output[r]) \/ pc[r] = "killed"
          /\ \A q \in Runs \ {r} : /\ pc'[q] = pc[q] /\ d'[q] = d[q]
                                   /\ answer'[q] = answer[q] /\ output'[q] = output[q]
          /\ UNCHANGED <<user, RBAC, dated, tar, overlapped, cut>>
      BY <1>0, <1>4 DEF Answer, history
    <2>2. ASSUME NEW q \in Runs \ (overlapped' \cup cut') PROVE Archiving(q)'
      <3>1. Archiving(q)
        BY <1>1, <2>1
      <3>2. CASE q = r
        <4>1. pc[r] # "killed"
          BY <1>0, <2>1, <3>2 DEF AloneInv
        <4> QED
          BY <2>1, <3>1, <3>2, <4>1, ValuesAssumption DEF Archiving
      <3>3. CASE q # r
        BY <2>1, <3>1, <3>3 DEF Archiving, ConfigsIn
      <3> QED
        BY <3>2, <3>3
    <2> QED
      BY <1>2, <2>1, <2>2
  <1>5. ASSUME NEW r \in Runs, Step(r), ~Answer(r) PROVE ArchiveInv'
    <2>1. Moved(r)
      BY <1>0, <1>5, StepMoves
    <2>2. \A q \in Runs \ {r} : output'[q] = output[q]
      BY <1>0, <1>5
      DEF Step, Check, Prints, Genrsa, DeleteRequest, ApplyRequest, ApproveRequest, Fetch,
          WriteConfig, SetCredentials, BrokenPipe, Cat, MakeDated, Move, PutAway, OnlyOutput, WriteDir
    <2>3. tar \subseteq tar'
      BY <1>5
      DEF Step, Check, Genrsa, DeleteRequest, ApplyRequest, ApproveRequest, Fetch, WriteConfig,
          SetCredentials, BrokenPipe, Cat, MakeDated, Move, PutAway, OnlyOutput, WriteDir
    <2>4. ASSUME NEW q \in Runs \ (overlapped' \cup cut') PROVE Archiving(q)'
      <3>1. CASE q = r
        BY <1>5, <2>1, <2>4, <3>1, ArchiveStep DEF Moved
      <3>2. CASE q # r
        <4>1. Archiving(q) /\ pc'[q] = pc[q] /\ answer'[q] = answer[q] /\ output'[q] = output[q]
          BY <1>1, <2>1, <2>2, <3>2 DEF Moved
        <4>2. pc[q] \in Ended
          BY <1>0, <2>1, <2>4, <3>2, OnlyOne DEF Moved, Running, Ended
        <4> QED
          BY <2>3, <4>1, <4>2 DEF Archiving, Ended
      <3> QED
        BY <3>1, <3>2
    <2> QED
      BY <1>2, <2>1, <2>4 DEF Moved
  <1>6. CASE HostStop
    <2>1. /\ UNCHANGED <<answer, tar, overlapped>> /\ cut' = cut \cup Running
          /\ \A q \in Runs \ Running : pc'[q] = pc[q] /\ output'[q] = output[q]
      BY <1>0, <1>6 DEF HostStop, serverVars, Running
    <2>2. ASSUME NEW q \in Runs \ (overlapped' \cup cut') PROVE Archiving(q)'
      <3>1. Archiving(q) /\ q \notin Running
        BY <1>1, <2>1
      <3>2. pc[q] \in Ended
        BY <3>1 DEF Running, Ended
      <3> QED
        BY <2>1, <3>1, <3>2 DEF Archiving, Ended
    <2> QED
      BY <1>2, <2>2
  <1>7. CASE ConnectionLost
    <2>1. /\ UNCHANGED <<pc, user, d, RBAC, dated, tar, overlapped>>
          /\ serving \in Runs /\ cut' = cut \cup ({serving} \cap Running)
          /\ answer'[serving] \in {output[serving], Null, None} /\ output'[serving] = Null
          /\ \A q \in Runs \ {serving} : answer'[q] = answer[q] /\ output'[q] = output[q]
      BY <1>0, <1>7 DEF ConnectionLost, TypeInv
    <2>2. ASSUME NEW q \in Runs \ (overlapped' \cup cut') PROVE Archiving(q)'
      <3>1. Archiving(q)
        BY <1>1, <2>1, <2>2
      <3>2. CASE q = serving
        <4>1. pc[q] \in Ended
          BY <2>1, <2>2, <3>2 DEF Running, Ended
        <4> QED
          BY <2>1, <3>1, <3>2, <4>1, ValuesAssumption DEF Archiving, Ended
      <3>3. CASE q # serving
        BY <2>1, <3>1, <3>3 DEF Archiving, ConfigsIn
      <3> QED
        BY <3>2, <3>3
    <2> QED
      BY <1>2, <2>2
  <1>8. CASE UNCHANGED <<pc, user, d, output, answer, RBAC, dated, tar, overlapped, cut>>
    <2>1. ASSUME NEW q \in Runs \ (overlapped' \cup cut') PROVE Archiving(q)'
      <3>1. Archiving(q)
        BY <1>1, <1>8, <2>1
      <3> QED
        BY <1>8, <3>1 DEF Archiving, ConfigsIn
    <2> QED
      BY <1>2, <2>1
  <1> QED
    BY <1>3, <1>4, <1>5, <1>6, <1>7, <1>8
    DEF Next, Issue, Tick, vars, serverVars, runVars, history

-----------------------------------------------------------------------------
\* A command of a run that is alone takes no configuration from the host.
LEMMA StoredStep ==
  ASSUME Inv, NEW r \in Runs \ overlapped, Step(r), ~Answer(r), NEW c \in Config, Stored(c)
  PROVE  Stored(c)'
  <1>0. /\ pc \in [Runs -> Labels] /\ d \in [Runs -> Seconds] /\ clock \in Seconds
        /\ RBAC \in [Users -> Directory \cup {None}]
        /\ dated \in [Seconds -> [Users -> Directory \cup {None}] \cup {None}]
        /\ TypeInv /\ AloneInv /\ KeptInv
    BY DEF Inv, TypeInv
  <1>1. /\ r \in Running /\ user[r] \in Users /\ user' = user /\ Running' \subseteq Running
        /\ \A q \in Running : q = r
    BY <1>0, StepMoves DEF Moved, AloneInv
  <1>2. c # None
    BY ValuesAssumption
  <1>3. ASSUME tar \subseteq tar', c \in tar PROVE Stored(c)'
    BY <1>3 DEF Stored
  <1>4. ASSUME NEW s \in Seconds, c \in ConfigsIn(dated'[s]) PROVE Stored(c)'
    BY <1>4 DEF Stored, ConfigsIn
  <1>5. ASSUME NEW u \in Users, RBAC'[u] # None, RBAC'[u].config = c,
               u # user[r] \/ pc'[r] \notin Creating
        PROVE  Stored(c)'
    BY <1>1, <1>5 DEF Stored
  \* the directory that holds c, if it is in RBAC
  <1> DEFINE Holds(u) == RBAC[u] # None /\ RBAC[u].config = c /\ (u = user[r] => pc[r] \notin Creating)
  <1>6. ASSUME NEW u \in Users, RBAC[u] # None, RBAC[u].config = c,
               \A q \in Running : user[q] = u => pc[q] \notin Creating
        PROVE  Holds(u)
    BY <1>1, <1>6
  <1>7. CASE Move(r)
    <2> DEFINE into == IF dated[d[r]] = None THEN Empty ELSE dated[d[r]]
               after == [into EXCEPT ![user[r]] = RBAC[user[r]]]
    <2>1. pc[r] = "mv" /\ pc'[r] = "tar" /\ tar' = tar
      BY <1>0, <1>7 DEF Move, Command
    <2>2. CASE UNCHANGED <<RBAC, dated>>
      BY <1>1, <2>1, <2>2, <1>3, <1>4, <1>5, <1>6 DEF Stored, Creating, Filling
    <2>3. CASE /\ RBAC[user[r]] # None /\ into[user[r]] = None
               /\ dated' = [dated EXCEPT ![d[r]] = after]
               /\ RBAC' = [RBAC EXCEPT ![user[r]] = None]
      <3>1. into \in [Users -> Directory \cup {None}] /\ d[r] \in Seconds
        BY <1>0 DEF Empty
      <3> HIDE DEF into
      <3>2. /\ after \in [Users -> Directory \cup {None}] /\ after[user[r]] = RBAC[user[r]]
            /\ \A u \in Users : into[u] # None => after[u] = into[u]
        BY <1>0, <1>1, <2>3, <3>1
      <3> HIDE DEF after
      <3>3. /\ dated'[d[r]] = after /\ \A s \in Seconds \ {d[r]} : dated'[s] = dated[s]
            /\ \A u \in Users \ {user[r]} : RBAC'[u] = RBAC[u]
        BY <1>0, <1>1, <2>3, <3>1
      <3>4. after # None
        BY <3>2, ValuesAssumption
      <3>5. CASE c \in tar
        BY <1>3, <2>1, <3>5
      <3>6. ASSUME NEW s \in Seconds, c \in ConfigsIn(dated[s]) PROVE Stored(c)'
        <4>1. CASE s = d[r]
          <5>1. dated[s] # None /\ into = dated[s]
            BY <3>6, <4>1 DEF ConfigsIn, into
          <5>2. PICK u \in Users : into[u] # None /\ into[u].config = c
            BY <3>6, <5>1 DEF ConfigsIn
          <5>3. c \in ConfigsIn(after)
            BY <1>2, <3>2, <3>4, <5>2 DEF ConfigsIn
          <5> QED
            BY <1>4, <3>1, <3>3, <5>3
        <4>2. CASE s # d[r]
          BY <1>4, <3>3, <3>6, <4>2
        <4> QED
          BY <4>1, <4>2
      <3>7. ASSUME NEW u \in Users, Holds(u) PROVE Stored(c)'
        <4>1. CASE u = user[r]
          <5>1. c \in ConfigsIn(after)
            BY <1>2, <3>2, <3>4, <3>7, <4>1 DEF ConfigsIn
          <5> QED
            BY <1>4, <3>1, <3>3, <5>1
        <4>2. CASE u # user[r]
          BY <1>5, <3>3, <3>7, <4>2
        <4> QED
          BY <4>1, <4>2
      <3> QED
        BY <3>5, <3>6, <3>7, <1>6 DEF Stored
    <2> QED
      BY <1>7, <2>2, <2>3 DEF Move
  <1>8. CASE PutAway(r)
    <2>1. /\ RBAC' = RBAC /\ tar \subseteq tar' /\ pc'[r] \notin Creating
          /\ \/ dated' = dated
             \/ pc[r] = "rm" /\ \A s \in Seconds \ {d[r]} : dated'[s] = dated[s]
      BY <1>0, <1>8 DEF PutAway, Command, Creating, Filling
    <2>2. ASSUME NEW s \in Seconds, c \in ConfigsIn(dated[s]) PROVE Stored(c)'
      <3>1. CASE dated'[s] = dated[s]
        BY <1>4, <2>2, <3>1
      <3>2. CASE dated'[s] # dated[s]
        <4>1. pc[r] = "rm" /\ s = d[r]
          BY <2>1, <3>2
        <4>2. c \in tar
          BY <1>0, <1>1, <2>2, <4>1 DEF KeptInv
        <4> QED
          BY <1>3, <2>1, <4>2
      <3> QED
        BY <3>1, <3>2
    <2> QED
      BY <1>3, <1>5, <1>6, <2>1, <2>2 DEF Stored
  <1>9. CASE ~Move(r) /\ ~PutAway(r)
    <2>1. tar' = tar
      BY <1>9 DEF Step, Check, Genrsa, DeleteRequest, ApplyRequest, ApproveRequest, Fetch, WriteConfig,
             SetCredentials, BrokenPipe, Cat, MakeDated, OnlyOutput, WriteDir
    <2>2. \A s \in Seconds : dated[s] = None \/ dated'[s] = dated[s]
      BY <1>0, <1>9 DEF Step, Check, Genrsa, DeleteRequest, ApplyRequest, ApproveRequest, Fetch,
             WriteConfig, SetCredentials, BrokenPipe, Cat, MakeDated, OnlyOutput, WriteDir
    <2>3. \A s \in Seconds : c \in ConfigsIn(dated[s]) => c \in ConfigsIn(dated'[s])
      BY <2>2 DEF ConfigsIn
    \* a run that creates began without a directory, or goes on creating
    <2>4. ASSUME NEW u \in Users, Holds(u)
          PROVE  RBAC'[u] = RBAC[u] /\ (u = user[r] => pc'[r] \notin Creating)
      <3>1. CASE Check(r)
        BY <1>0, <2>4, <3>1 DEF Check, Command, OnlyOutput, Creating, Filling
      <3>2. CASE pc[r] \in Creating
        BY <1>0, <1>1, <1>9, <2>4, <3>2
        DEF Step, Check, Genrsa, DeleteRequest, ApplyRequest, ApproveRequest, Fetch, WriteConfig,
            SetCredentials, BrokenPipe, Cat, MakeDated, OnlyOutput, WriteDir, Command
      <3>3. CASE Cat(r) \/ MakeDated(r)
        BY <1>0, <2>4, <3>3 DEF Cat, MakeDated, Command, OnlyOutput, Creating, Filling
      <3>4. CASE ~Check(r) /\ ~Cat(r) /\ ~MakeDated(r)
        <4>1. pc[r] \in Creating
          BY <1>9, <3>4 DEF Step, Genrsa, DeleteRequest, ApplyRequest, ApproveRequest, Fetch,
             WriteConfig, SetCredentials, BrokenPipe, Command, Creating, Filling
        <4> QED
          BY <3>2, <4>1
      <3> QED
        BY <3>1, <3>3, <3>4
    <2> QED
      BY <1>3, <1>4, <1>5, <1>6, <2>1, <2>3, <2>4 DEF Stored
  <1> QED
    BY <1>7, <1>8, <1>9

LEMMA KeptNext == Inv /\ [Next]_vars => KeptInv'
  <1> SUFFICES ASSUME Inv, [Next]_vars PROVE KeptInv'
    OBVIOUS
  <1>0. /\ pc \in [Runs -> Labels] /\ d \in [Runs -> Seconds] /\ user \in [Runs -> Users \cup {None}]
        /\ answer \in [Runs -> Config \cup {Error, Null, None}]
        /\ output \in [Runs -> Config \cup {Error, Null}]
        /\ RBAC \in [Users -> Directory \cup {None}]
        /\ TypeInv /\ AloneInv /\ KeptInv
    BY DEF Inv, TypeInv
  <1> DEFINE Says(r, c) == c \in Config /\ (output[r] = c \/ answer[r] = c)
             Good == \A r \in Runs, c \in Config : Says(r, c) => Stored(c)
             Done == \A r \in Running \ overlapped :
                       pc[r] = "rm" => ConfigsIn(dated[d[r]]) \subseteq tar
  <1>1. (overlapped = {} => Good) /\ Done
    BY <1>0 DEF KeptInv
  <1>2. ASSUME overlapped' = {} => \A r \in Runs, c \in Config : Says(r, c)' => Stored(c)', Done'
        PROVE  KeptInv'
    BY <1>2 DEF KeptInv
  <1>3. ASSUME NEW r \in Runs, NEW u \in Users, Post(r, u) PROVE KeptInv'
    <2>1. /\ Running' = Running \cup {r} /\ overlapped \subseteq overlapped' /\ r \notin Running
          /\ UNCHANGED <<answer, output, d, RBAC, dated, tar>> /\ pc'[r] = "check"
          /\ \A q \in Runs \ {r} : pc'[q] = pc[q] /\ user'[q] = user[q]
      BY <1>0, <1>3 DEF Post, Running
    <2>2. \A c \in Config : Stored(c) => Stored(c)'
      BY <2>1 DEF Stored, ConfigsIn, Creating, Filling, Running
    <2>3. Done'
      BY <1>1, <2>1 DEF ConfigsIn, Running
    <2> QED
      BY <1>1, <1>2, <2>1, <2>2, <2>3
  <1>4. ASSUME NEW r \in Runs, Answer(r) PROVE KeptInv'
    <2>1. /\ Running' = Running /\ r \notin Running
          /\ UNCHANGED <<user, RBAC, dated, tar, overlapped>>
          /\ answer'[r] \in {output[r], Null, None} /\ output'[r] = Null
          /\ \A q \in Runs \ {r} : /\ pc'[q] = pc[q] /\ d'[q] = d[q]
                                   /\ answer'[q] = answer[q] /\ output'[q] = output[q]
      BY <1>0, <1>4 DEF Answer, history, Running
    <2>2. \A c \in Config : Stored(c) => Stored(c)'
      BY <2>1 DEF Stored, ConfigsIn, Running
    <2>3. Done'
      BY <1>1, <2>1 DEF ConfigsIn, Running
    <2>4. \A q \in Runs, c \in Config : Says(q, c)' => Says(q, c)
      BY <2>1, ValuesAssumption
    <2> QED
      BY <1>1, <1>2, <2>1, <2>2, <2>3, <2>4
  <1>5. ASSUME NEW r \in Runs, Step(r), ~Answer(r) PROVE KeptInv'
    <2>1. Moved(r)
      BY <1>0, <1>5, StepMoves
    <2>2. /\ answer' = answer /\ overlapped' = overlapped /\ user' = user
          /\ Running' \subseteq Running /\ r \in Running /\ user[r] \in Users
      BY <2>1 DEF Moved
    <2>3. Done'
      <3> SUFFICES ASSUME NEW q \in Running' \ overlapped', pc'[q] = "rm"
                   PROVE  ConfigsIn(dated'[d'[q]]) \subseteq tar'
        BY DEF ConfigsIn
      <3>1. q = r
        BY <1>0, <2>2, OnlyOne
      <3>2. pc'[r] = "rm" /\ PutAway(r)
        BY <1>0, <1>5, <3>1
        DEF Step, Check, Genrsa, DeleteRequest, ApplyRequest, ApproveRequest, Fetch, WriteConfig,
            SetCredentials, BrokenPipe, Cat, MakeDated, Move, Command
      <3> QED
        BY <1>0, <3>1, <3>2 DEF PutAway, Command
    <2>4. ASSUME overlapped' = {}, NEW q \in Runs, NEW c \in Config, Says(q, c)' PROVE Stored(c)'
      <3>1. CASE Says(q, c)
        <4>1. Stored(c) /\ r \in Runs \ overlapped
          BY <1>1, <2>2, <2>4, <3>1
        <4> QED
          BY <1>5, <4>1, StoredStep
      <3>2. CASE ~Says(q, c)
        <4>1. output'[q] = c /\ output'[q] # output[q]
          BY <2>2, <2>4, <3>2
        <4>2. Cat(r)
          BY <1>0, <1>5, <2>4, <4>1, ValuesAssumption
          DEF Step, Check, Prints, Genrsa, DeleteRequest, ApplyRequest, ApproveRequest, Fetch,
              WriteConfig, SetCredentials, BrokenPipe, MakeDated, Move, PutAway, OnlyOutput, WriteDir
        <4>3. RBAC[user[r]] # None /\ RBAC[user[r]].config = c /\ RBAC' = RBAC /\ pc'[r] = "mkdir"
          BY <1>0, <4>1, <4>2 DEF Cat, Prints, OnlyOutput, Command
        <4>4. \A p \in Running' : p = r
          BY <1>0, <2>2, <2>4 DEF AloneInv
        <4> QED
          BY <2>2, <4>3, <4>4 DEF Stored, Creating, Filling
      <3> QED
        BY <3>1, <3>2
    <2> QED
      BY <1>2, <2>3, <2>4
  <1>6. CASE HostStop
    <2>1. /\ Running' = {} /\ UNCHANGED <<answer, RBAC, dated, tar, overlapped>>
          /\ \A q \in Runs : output'[q] \in {output[q], Null}
      BY <1>0, <1>6 DEF HostStop, serverVars, Running
    <2>2. \A c \in Config : Stored(c) => Stored(c)'
      BY <2>1 DEF Stored, ConfigsIn
    <2>3. \A q \in Runs, c \in Config : Says(q, c)' => Says(q, c)
      BY <2>1, ValuesAssumption
    <2> QED
      BY <1>1, <1>2, <2>1, <2>2, <2>3
  <1>7. CASE ConnectionLost
    <2>1. /\ UNCHANGED <<pc, user, d, RBAC, dated, tar, overlapped>> /\ Running' = Running
          /\ serving \in Runs
          /\ answer'[serving] \in {output[serving], Null, None} /\ output'[serving] = Null
          /\ \A q \in Runs \ {serving} : answer'[q] = answer[q] /\ output'[q] = output[q]
      BY <1>0, <1>7 DEF ConnectionLost, TypeInv, Running
    <2>2. \A c \in Config : Stored(c) => Stored(c)'
      BY <2>1 DEF Stored, ConfigsIn
    <2>3. Done'
      BY <1>1, <2>1 DEF ConfigsIn
    <2>4. \A q \in Runs, c \in Config : Says(q, c)' => Says(q, c)
      BY <2>1, ValuesAssumption
    <2> QED
      BY <1>1, <1>2, <2>1, <2>2, <2>3, <2>4
  <1>8. CASE UNCHANGED <<pc, user, d, output, answer, RBAC, dated, tar, overlapped>>
    <2>1. Running' = Running
      BY <1>8 DEF Running
    <2>2. \A c \in Config : Stored(c) => Stored(c)'
      BY <1>8, <2>1 DEF Stored, ConfigsIn
    <2>3. Done'
      BY <1>1, <1>8, <2>1 DEF ConfigsIn
    <2> QED
      BY <1>1, <1>2, <1>8, <2>2, <2>3
  <1> QED
    BY <1>3, <1>4, <1>5, <1>6, <1>7, <1>8
    DEF Next, Issue, Tick, vars, serverVars, runVars, history

-----------------------------------------------------------------------------
(***************************************************************************)
(* The theorems.                                                           *)
(***************************************************************************)
LEMMA Invariance == Spec => []Inv
  <1>1. Inv /\ [Next]_vars => Inv'
    BY TypeNext, AloneNext, ErrorNext, KeyNext, ClockNext, ArchiveNext, KeptNext DEF Inv
  <1> QED
    BY InvInit, <1>1, PTL DEF Spec

(***************************************************************************)
(* The server waits for one run at a time, and every run, the directories, *)
(* the signing requests and rbac.tar are what the scripts of k8s/ write.   *)
(***************************************************************************)
THEOREM ClusterTypeCorrect == Spec => []TypeOK
  <1>1. Inv => TypeOK
    <2> SUFFICES ASSUME Inv PROVE TypeOK
      OBVIOUS
    <2>1. /\ serving \in Runs \cup {None}
          /\ tar \subseteq Config
          /\ clock \in Seconds /\ losses \in 0..MaxLosses /\ stops \in 0..MaxStops
          /\ overlapped \subseteq Runs /\ cut \subseteq Runs
      BY DEF Inv, TypeInv
    <2>2. \A r \in Runs :
            /\ answer[r] \in Config \cup {Error, Null, None} /\ output[r] \in Config \cup {Error, Null}
            /\ user[r] \in Users \cup {None} /\ d[r] \in Seconds
            /\ output[r] = Error => pc[r] = "exit"
      BY DEF Inv, TypeInv, ErrorInv
    <2>3. /\ \A u \in Users : RBAC[u] \in Directory \cup {None} /\ csr[u] \in Request \cup {None}
          /\ \A s \in Seconds : dated[s] # None =>
               \A u \in Users : dated[s][u] \in Directory \cup {None}
      BY DEF Inv, TypeInv
    <2> QED
      BY <2>1, <2>2, <2>3 DEF TypeOK
  <1> QED
    BY Invariance, <1>1, PTL

(***************************************************************************)
(* add_user.sh lines 115-124: whatever losses and stops come before, a    *)
(* run that was alone and deleted the old signing request answers no       *)
(* certificate of another key.                                             *)
(***************************************************************************)
THEOREM CertificateFitsAlways == Spec => []CertificateFits
  <1>1. Inv => CertificateFits
    BY DEF Inv, KeyInv, Fits, CertificateFits
  <1> QED
    BY Invariance, <1>1, PTL

(***************************************************************************)
(* add.sh lines 27-33: what was answered for a run that was alone on the   *)
(* host and came to its end is in rbac.tar, whatever the runs before it    *)
(* left behind.                                                            *)
(***************************************************************************)
THEOREM AnsweredIsArchivedAlways == Spec => []AnsweredIsArchived
  <1>1. Inv => AnsweredIsArchived
    BY DEF Inv, ArchiveInv, AnsweredIsArchived
  <1> QED
    BY Invariance, <1>1, PTL

(***************************************************************************)
(* add.sh: runs that never met lose no configuration that was answered, at *)
(* whatever command they are killed or lose their server.                  *)
(***************************************************************************)
THEOREM AnsweredIsKeptAlways == Spec => []AnsweredIsKept
  <1>1. Inv => AnsweredIsKept
    <2> SUFFICES ASSUME Inv, overlapped = {}, NEW r \in Runs, answer[r] \in Config
                 PROVE  answer[r] \in Kept
      BY DEF AnsweredIsKept
    <2>1. Stored(answer[r]) /\ RBAC \in [Users -> Directory \cup {None}]
      BY DEF Inv, KeptInv, TypeInv
    <2>2. RBAC # None /\ answer[r] # None
      BY <2>1, ValuesAssumption
    <2>3. ASSUME NEW u \in Users, RBAC[u] # None, RBAC[u].config = answer[r]
          PROVE  answer[r] \in ConfigsIn(RBAC)
      BY <2>2, <2>3 DEF ConfigsIn
    <2>4. \/ answer[r] \in tar \cup ConfigsIn(RBAC)
          \/ \E s \in Seconds : answer[r] \in ConfigsIn(dated[s])
      BY <2>1, <2>3 DEF Stored
    <2> QED
      BY <2>4 DEF Kept
  <1> QED
    BY Invariance, <1>1, PTL

(***************************************************************************)
(* add.sh lines 12-22: nobody is told that the configuration does not      *)
(* exist whose runs all came to their end and were waited for.             *)
(***************************************************************************)
THEOREM ErrorOnlyWhenCutAlways == Spec => []ErrorOnlyWhenCut
  <1>1. Inv => ErrorOnlyWhenCut
    BY DEF Inv, ErrorInv, UsersCut, ErrorOnlyWhenCut
  <1> QED
    BY Invariance, <1>1, PTL

=============================================================================
