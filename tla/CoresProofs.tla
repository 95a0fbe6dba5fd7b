----------------------------- MODULE CoresProofs -----------------------------
(***************************************************************************)
(* What holds of the core registry for any number of goroutines and cores, *)
(* with or without failing statements.                                     *)
(***************************************************************************)
EXTENDS Cores, TLAPS

Creating(r) == pc[r] \in {"insert", "announce"}

\* A core is created by one request, and nobody knows it before it is inserted;
\* every other request is about a core that is known.
IdKnown ==
  \A r \in Requests :
    /\ Creating(r) => id[r] \in drawn
    /\ pc[r] = "insert" => id[r] \notin created
    /\ pc[r] # "idle" /\ ~Creating(r) => id[r] \in created

CreatedOnce ==
  \A r, q \in Requests : Creating(r) /\ Creating(q) /\ id[r] = id[q] => r = q

\* The statement that writes a row writes a state, never Absent.
TargetSet ==
  \A r \in Requests : pc[r] \in {"insert", "reread", "update"} => target[r] \in States

\* A row that is gone when it is read again went away, or the first read failed.
ReadBefore ==
  \A r \in Requests :
    /\ pc[r] = "reread" => Found(r) \/ id[r] \in missed[r]
    /\ pc[r] = "panic" => id[r] \in missed[r]

\* The row DELETE is about to remove was stopped when it was checked.
CheckedBefore ==
  \A r \in Requests :
    pc[r] = "delete" => cores[id[r]] \in {"stopped", Absent} \/ r \in overtaken

Inv == TypeOK /\ IdKnown /\ CreatedOnce /\ TargetSet /\ ReadBefore /\ CheckedBefore

LEMMA InvInit == Init => Inv
  BY DEF Init, Inv, TypeOK, Labels, IdKnown, CreatedOnce, Creating, TargetSet, ReadBefore,
         CheckedBefore

\* A statement that only moves its request on, to a label that asks for no more.
LEMMA InvGoto ==
  ASSUME Inv, NEW r \in Requests, NEW label \in Labels, Goto(r, label),
         pc[r] # "idle", label # "idle",
         label = "announce" <=> Creating(r), label # "insert",
         label \in {"reread", "update"} => target[r] \in States,
         label = "reread" => Found(r),
         label = "panic" => id[r] \in missed[r],
         label = "delete" => cores[id[r]] = "stopped"
  PROVE  Inv'
  BY DEF Inv, Goto, TypeOK, Labels, IdKnown, CreatedOnce, Creating, TargetSet, ReadBefore,
         CheckedBefore, Found

LEMMA InvMissing ==
  ASSUME Inv, NEW r \in Requests, NEW label \in {"not_found", "panic"}, Missing(r, label),
         pc[r] \in {"lookup", "reread", "check"}, label = "panic" => pc[r] = "reread"
  PROVE  Inv'
  <1>1. CASE ~Found(r) /\ Goto(r, label)
    <2>1. label = "panic" => id[r] \in missed[r]
      BY <1>1 DEF Inv, ReadBefore
    <2> QED
      BY <1>1, <2>1, InvGoto DEF Labels, Creating
  <1>2. CASE /\ missed' = [missed EXCEPT ![r] = @ \cup {id[r]}]
             /\ pc' = [pc EXCEPT ![r] = label]
             /\ UNCHANGED <<cores, drawn, created, id, target, overtaken>>
    BY <1>2 DEF Inv, TypeOK, Labels, IdKnown, CreatedOnce, Creating, TargetSet, ReadBefore,
                CheckedBefore, Found
  <1> QED
    BY <1>1, <1>2 DEF Missing

\* A row is written by the request that creates it, or over a row that is there.
LEMMA InvWrite ==
  ASSUME Inv, NEW r \in Requests, NEW label \in {"announce", "ok"}, Write(r, label, target[r]),
         \/ pc[r] = "insert" /\ label = "announce"
         \/ pc[r] = "update" /\ label = "ok" /\ Found(r)
  PROVE  Inv'
  <1>1. id[r] \in Ids /\ target[r] \in States
    BY DEF Inv, TypeOK, IdKnown, TargetSet
  <1>2. TypeOK'
    <2>1. id[r] \in drawn
      BY DEF Inv, TypeOK, IdKnown, Creating
    <2> QED
      BY <1>1, <2>1 DEF Inv, Write, TypeOK, Labels
  <1>3. IdKnown' /\ CreatedOnce' /\ TargetSet'
    BY <1>1 DEF Inv, TypeOK, Write, IdKnown, CreatedOnce, Creating, TargetSet
  <1>4. ReadBefore'
    BY <1>1, AbsentAssumption DEF Inv, TypeOK, Write, ReadBefore, Found
  <1>5. CheckedBefore'
    BY <1>1 DEF Inv, TypeOK, Write, IdKnown, Creating, CheckedBefore, Found
  <1> QED
    BY <1>2, <1>3, <1>4, <1>5 DEF Inv

LEMMA InvAccept ==
  ASSUME Inv, NEW r \in Requests, NEW label \in Labels, NEW c \in Ids,
         NEW state \in States \cup {Absent},
         Accept(r, label, c, state),
         \/ label = "insert" /\ c \notin drawn /\ drawn' = drawn \cup {c} /\ state = "created"
         \/ label \in {"lookup", "check"} /\ c \in created /\ UNCHANGED drawn
  PROVE  Inv'
  BY DEF Inv, Accept, TypeOK, Labels, States, IdKnown, CreatedOnce, Creating, TargetSet,
         ReadBefore, CheckedBefore, Found

LEMMA InvDelete ==
  ASSUME Inv, NEW r \in Requests, DeleteCore(r)
  PROVE  Inv'
  <1>1. CASE Goto(r, "ok")
    BY <1>1, InvGoto DEF DeleteCore, Labels, Creating
  <1>2. CASE /\ cores' = [cores EXCEPT ![id[r]] = Absent]
             /\ missed' = IF Found(r) THEN [q \in Requests |-> missed[q] \cup {id[r]}] ELSE missed
             /\ pc' = [pc EXCEPT ![r] = "ok"]
             /\ UNCHANGED <<drawn, created, id, target, overtaken>>
    <2>1. id[r] \in Ids
      BY DEF DeleteCore, Inv, TypeOK, IdKnown, Creating
    <2>2. TypeOK'
      BY <1>2, <2>1 DEF Inv, TypeOK, Labels
    <2>3. IdKnown' /\ CreatedOnce' /\ TargetSet'
      BY <1>2 DEF DeleteCore, Inv, TypeOK, IdKnown, CreatedOnce, Creating, TargetSet
    <2>4. ReadBefore'
      BY <1>2, <2>1 DEF DeleteCore, Inv, TypeOK, ReadBefore, Found
    <2>5. CheckedBefore'
      BY <1>2, <2>1 DEF DeleteCore, Inv, TypeOK, CheckedBefore
    <2> QED
      BY <2>2, <2>3, <2>4, <2>5 DEF Inv
  <1> QED
    BY <1>1, <1>2 DEF DeleteCore

LEMMA InvNext == Inv /\ [Next]_vars => Inv'
  <1> SUFFICES ASSUME Inv, [Next]_vars PROVE Inv'
    OBVIOUS
  <1>1. ASSUME NEW r \in Requests, PostCore(r) PROVE Inv'
    BY <1>1, InvAccept DEF PostCore, Labels, States
  <1>2. ASSUME NEW r \in Requests, NEW c \in created,
               NEW state \in {Absent, "deployed", "stopped"}, GetCoreId(r, c, state)
        PROVE  Inv'
    BY <1>2, InvAccept DEF GetCoreId, Labels, States, Inv, TypeOK
  <1>3. ASSUME NEW r \in Requests, NEW c \in created, DeleteCoreId(r, c) PROVE Inv'
    BY <1>3, InvAccept DEF DeleteCoreId, Labels, States, Inv, TypeOK
  <1>4. ASSUME NEW r \in Requests, CreateCore(r) PROVE Inv'
    BY <1>4, InvWrite, InvGoto DEF CreateCore, Labels, Creating
  <1>5. ASSUME NEW r \in Requests, Lookup(r) PROVE Inv'
    <2>1. target[r] # Absent => target[r] \in States
      BY DEF Inv, TypeOK
    <2> QED
      BY <1>5, <2>1, InvGoto, InvMissing DEF Lookup, Labels, Creating
  <1>6. ASSUME NEW r \in Requests, Reread(r) PROVE Inv'
    <2>1. target[r] \in States
      BY <1>6 DEF Reread, Inv, TargetSet
    <2> QED
      BY <1>6, <2>1, InvGoto, InvMissing DEF Reread, Labels, Creating
  <1>7. ASSUME NEW r \in Requests, UpdateCore(r) PROVE Inv'
    BY <1>7, InvWrite, InvGoto DEF UpdateCore, Labels, Creating
  <1>8. ASSUME NEW r \in Requests, Check(r) PROVE Inv'
    BY <1>8, InvGoto, InvMissing DEF Check, Labels, Creating
  <1>9. ASSUME NEW r \in Requests, DeleteCore(r) PROVE Inv'
    BY <1>9, InvDelete
  <1>10. ASSUME NEW r \in Requests, Answer(r) PROVE Inv'
    BY <1>10 DEF Answer, Inv, TypeOK, Labels, IdKnown, CreatedOnce, Creating, TargetSet,
                 ReadBefore, CheckedBefore, Found
  <1>11. CASE UNCHANGED vars
    BY <1>11 DEF vars, Inv, TypeOK, IdKnown, CreatedOnce, Creating, TargetSet, ReadBefore,
                 CheckedBefore, Found
  <1> QED
    BY <1>1, <1>2, <1>3, <1>4, <1>5, <1>6, <1>7, <1>8, <1>9, <1>10, <1>11
    DEF Next, Request, Statement

(***************************************************************************)
(* The variables keep their types: what is stored is one of the three      *)
(* states the code writes, however requests interleave.                    *)
(***************************************************************************)
THEOREM CoresTypeCorrect == Spec => []TypeOK
  <1>1. Inv => TypeOK
    BY DEF Inv
  <1> QED
    BY <1>1, InvInit, InvNext, PTL DEF Spec

(***************************************************************************)
(* A deploy or a stop dereferences a nil core only after a DELETE of       *)
(* another request, or a read that failed (DeployCore and StopCore,        *)
(* core.go).                                                               *)
(***************************************************************************)
THEOREM PanicOnlyWhenMissedAlways == Spec => []PanicOnlyWhenMissed
  <1>1. Inv => PanicOnlyWhenMissed
    BY DEF Inv, ReadBefore, PanicOnlyWhenMissed
  <1> QED
    BY <1>1, InvInit, InvNext, PTL DEF Spec

(***************************************************************************)
(* A core that clients know never comes back once it is gone: no statement *)
(* makes a row of a core that clients know (updateCore, createCore).       *)
(***************************************************************************)
THEOREM NeverResurrectedAlways == Spec => NeverResurrected
  <1>1. Inv /\ [Next]_vars => [\A c \in created : cores[c] = Absent => cores'[c] = Absent]_vars
    <2> SUFFICES ASSUME Inv, Next, NEW c \in created, cores[c] = Absent
                 PROVE  cores'[c] = Absent
      OBVIOUS
    <2>1. ASSUME NEW r \in Requests, CreateCore(r) PROVE cores'[c] = Absent
      BY <2>1 DEF CreateCore, Write, Goto, Inv, TypeOK, IdKnown, Creating
    <2>2. ASSUME NEW r \in Requests, UpdateCore(r) PROVE cores'[c] = Absent
      BY <2>2 DEF UpdateCore, Found, Write, Goto, Inv, TypeOK, IdKnown, Creating
    <2>3. ASSUME NEW r \in Requests, DeleteCore(r) PROVE cores'[c] = Absent
      BY <2>3 DEF DeleteCore, Goto, Inv, TypeOK
    <2>4. ASSUME UNCHANGED cores PROVE cores'[c] = Absent
      BY <2>4
    <2> QED
      BY <2>1, <2>2, <2>3, <2>4
      DEF Next, Request, Statement, PostCore, GetCoreId, DeleteCoreId, Accept, Lookup, Reread,
          Check, Missing, Goto, Answer
  <1> QED
    BY <1>1, InvInit, InvNext, PTL DEF Spec, NeverResurrected

(***************************************************************************)
(* A DELETE takes away a core that is not stopped only when another        *)
(* request deployed it after the DELETE began (deleteCore, core.go).       *)
(***************************************************************************)
THEOREM DeletedWhenStoppedAlways == Spec => DeletedWhenStopped
  <1>1. Inv /\ [Next]_vars =>
          [\A r \in Requests :
             /\ pc[r] = "delete" /\ pc'[r] = "ok"
             /\ cores[id[r]] # Absent /\ cores'[id[r]] = Absent
             => cores[id[r]] = "stopped" \/ r \in overtaken]_vars
    BY DEF Inv, CheckedBefore
  <1> QED
    BY <1>1, InvInit, InvNext, PTL DEF Spec, DeletedWhenStopped
=============================================================================
