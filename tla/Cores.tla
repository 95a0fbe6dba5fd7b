-------------------------------- MODULE Cores --------------------------------
(***************************************************************************)
(* The core registry of the openapi backend (api/core.go and the handlers  *)
(* of api/paths_core.go).  net/http runs every request in a goroutine of   *)
(* its own; each statement on the table is atomic, and what a request read *)
(* may be stale when it writes.                                            *)
(***************************************************************************)
EXTENDS Integers

CONSTANTS
  Requests,   \* goroutines
  Ids,        \* the uuids CreateCore will draw, all different
  DbErrors,   \* may a statement fail?
  Absent,     \* no row
  None        \* no core

ASSUME ErrorsAssumption == DbErrors \in BOOLEAN
ASSUME NoneAssumption == None \notin Ids

VARIABLES
  cores,    \* table cores: the state of each core, or Absent
  drawn,    \* uuids drawn so far
  created,  \* uuids announced to a client, or listed by GET /cores/ since the INSERT:
            \* no request can name another
  pc,       \* the statement or answer each request is about to make
  id,       \* the core the request is about
  target,   \* the state the request writes, or Absent
  missed,   \* cores that went away, or that a read missed, while the request was running
  overtaken \* requests whose core left "stopped" while they were running

vars == <<cores, drawn, created, pc, id, target, missed, overtaken>>

\* Of the five states of api.yaml, those the code writes.
States == {"created", "deployed", "stopped"}

ASSUME AbsentAssumption == Absent \notin States

Labels == {"idle", "insert", "announce", "lookup", "reread", "update", "check", "delete",
           "ok", "not_found", "invalid_state", "panic"}

Init ==
  /\ cores = [c \in Ids |-> Absent]
  /\ drawn = {} /\ created = {}
  /\ pc = [r \in Requests |-> "idle"]
  /\ id = [r \in Requests |-> None]
  /\ target = [r \in Requests |-> Absent]
  /\ missed = [r \in Requests |-> {}]
  /\ overtaken = {}

-----------------------------------------------------------------------------
Accept(r, label, c, state) ==
  /\ pc[r] = "idle"
  /\ pc' = [pc EXCEPT ![r] = label]
  /\ id' = [id EXCEPT ![r] = c]
  /\ target' = [target EXCEPT ![r] = state]
  /\ UNCHANGED <<cores, created, missed, overtaken>>

\* A statement that writes no table.
Goto(r, label) ==
  /\ pc' = [pc EXCEPT ![r] = label]
  /\ UNCHANGED <<cores, drawn, created, id, target, missed, overtaken>>

\* A statement that writes the row of its core.
Write(r, label, state) ==
  /\ cores' = [cores EXCEPT ![id[r]] = state]
  /\ overtaken' = IF cores[id[r]] = "stopped" /\ state # "stopped"
                  THEN overtaken \cup {q \in Requests : id[q] = id[r]} ELSE overtaken
  /\ created' = created \cup {id[r]}
  /\ pc' = [pc EXCEPT ![r] = label]
  /\ UNCHANGED <<drawn, id, target, missed>>

\* getCore returns nil for a missing row and for any error alike.
Found(r) == cores[id[r]] # Absent

Missing(r, label) ==
  \/ ~Found(r) /\ Goto(r, label)
  \/ /\ DbErrors
     /\ missed' = [missed EXCEPT ![r] = @ \cup {id[r]}]
     /\ pc' = [pc EXCEPT ![r] = label]
     /\ UNCHANGED <<cores, drawn, created, id, target, overtaken>>

\* Slip: the core starts in a state of api.yaml that nothing else knows.
PostDeployingCore(r) ==
  /\ \E c \in Ids \ drawn :
       /\ Accept(r, "insert", c, "deploying")
       /\ drawn' = drawn \cup {c}

\* POST /core/
PostCore(r) ==
  /\ \E c \in Ids \ drawn :
       /\ Accept(r, "insert", c, "created")
       /\ drawn' = drawn \cup {c}

\* createCore: an error is logged, and PostCore answers 201 all the same.
CreateCore(r) ==
  /\ pc[r] = "insert"
  /\ \/ Write(r, "announce", target[r])
     \/ DbErrors /\ Goto(r, "announce")

\* GET /core/{id}, with an action if state is not Absent
GetCoreId(r, c, state) == Accept(r, "lookup", c, state) /\ UNCHANGED drawn

Lookup(r) ==
  /\ pc[r] = "lookup"
  /\ \/ Found(r) /\ Goto(r, IF target[r] = Absent THEN "ok" ELSE "reread")
     \/ Missing(r, "not_found")

\* DeployCore and StopCore read the core again, and set the state of what they got.
Reread(r) ==
  /\ pc[r] = "reread"
  /\ \/ Found(r) /\ Goto(r, "update")
     \/ Missing(r, "panic")

\* Slip: INSERT OR REPLACE for UPDATE.
Upsert(r) == pc[r] = "update" /\ Write(r, "ok", target[r])

\* updateCore: UPDATE ... WHERE id = ? touches no row that is not there.
UpdateCore(r) ==
  /\ pc[r] = "update"
  /\ \/ Found(r) /\ Write(r, "ok", target[r])
     \/ (~Found(r) \/ DbErrors) /\ Goto(r, "ok")

\* DELETE /core/{id}
DeleteCoreId(r, c) == Accept(r, "check", c, Absent) /\ UNCHANGED drawn

\* Slip: nil is not checked, and a missing core is dereferenced.
CheckWithoutNil(r) ==
  /\ pc[r] = "check"
  /\ Goto(r, IF ~Found(r) THEN "panic"
             ELSE IF cores[id[r]] = "stopped" THEN "delete" ELSE "invalid_state")

\* Slip: the state is not checked.
CheckWithoutState(r) ==
  /\ pc[r] = "check"
  /\ \/ Found(r) /\ Goto(r, "delete")
     \/ Missing(r, "not_found")

\* DeleteCore, the sanity checks
Check(r) ==
  /\ pc[r] = "check"
  /\ \/ Found(r) /\ Goto(r, IF cores[id[r]] = "stopped" THEN "delete" ELSE "invalid_state")
     \/ Missing(r, "not_found")

\* deleteCore: DELETE ... WHERE id = ?, whatever the state is by now
DeleteCore(r) ==
  /\ pc[r] = "delete"
  /\ \/ /\ cores' = [cores EXCEPT ![id[r]] = Absent]
        /\ missed' = IF Found(r) THEN [q \in Requests |-> missed[q] \cup {id[r]}] ELSE missed
        /\ pc' = [pc EXCEPT ![r] = "ok"]
        /\ UNCHANGED <<drawn, created, id, target, overtaken>>
     \/ DbErrors /\ Goto(r, "ok")

\* The answer; net/http recovers from a panic and closes the connection.
Answer(r) ==
  /\ pc[r] \in {"announce", "ok", "not_found", "invalid_state", "panic"}
  /\ created' = IF pc[r] = "announce" THEN created \cup {id[r]} ELSE created
  /\ pc' = [pc EXCEPT ![r] = "idle"]
  /\ id' = [id EXCEPT ![r] = None]
  /\ target' = [target EXCEPT ![r] = Absent]
  /\ missed' = [missed EXCEPT ![r] = {}]
  /\ overtaken' = overtaken \ {r}
  /\ UNCHANGED <<cores, drawn>>

Request(r) ==
  \/ PostCore(r)
  \/ \E c \in created : \/ \E state \in {Absent, "deployed", "stopped"} : GetCoreId(r, c, state)
                        \/ DeleteCoreId(r, c)

Statement(r) ==
  \/ CreateCore(r) \/ Lookup(r) \/ Reread(r) \/ UpdateCore(r) \/ Check(r) \/ DeleteCore(r)
  \/ Answer(r)

Next == \E r \in Requests : Request(r) \/ Statement(r)

Spec == Init /\ [][Next]_vars

-----------------------------------------------------------------------------
(***************************************************************************)
(* Type invariant: the value every variable of the model ranges over.      *)
(***************************************************************************)
TypeOK ==
  /\ cores \in [Ids -> States \cup {Absent}]
  /\ created \subseteq drawn /\ drawn \subseteq Ids
  /\ pc \in [Requests -> Labels]
  /\ id \in [Requests -> Ids \cup {None}]
  /\ target \in [Requests -> States \cup {Absent}]
  /\ missed \in [Requests -> SUBSET Ids]
  /\ overtaken \subseteq Requests

(***************************************************************************)
(* A core that clients know and that was deleted never comes back, though  *)
(* a deploy or a stop that read it before writes the whole core after.     *)
(***************************************************************************)
NeverResurrected == [][\A c \in created : cores[c] = Absent => cores'[c] = Absent]_vars

(***************************************************************************)
(* A deploy or a stop panics on a nil core only when a DELETE of another   *)
(* request came, or a read failed, while it was running; a core that is    *)
(* merely missing is answered with 404.                                    *)
(***************************************************************************)
PanicOnlyWhenMissed == \A r \in Requests : pc[r] = "panic" => id[r] \in missed[r]

(***************************************************************************)
(* "trying to delete core %s that is not stopped" is an error              *)
(* (paths_core.go line 37): a DELETE takes away a core that is not stopped *)
(* only when another request deployed it again after the DELETE began,     *)
(* since the state is not part of the DELETE statement (core.go line 152). *)
(***************************************************************************)
DeletedWhenStopped ==
  [][\A r \in Requests :
       /\ pc[r] = "delete" /\ pc'[r] = "ok"
       /\ cores[id[r]] # Absent /\ cores'[id[r]] = Absent
       => cores[id[r]] = "stopped" \/ r \in overtaken]_vars
=============================================================================
