--------------------------- MODULE ReleasesProofs ---------------------------
(* Theorems of Releases, for any number of names, versions, rows, requests  *)
(* and documents.  The inductive invariant IInv adds to the types what a    *)
(* handler still holds when it reaches each of its calls: the version that  *)
(* requireDeployableVersion found published may have been deprecated since, *)
(* but it can no longer be deleted, which is why the check may come before  *)
(* the INSERT.                                                              *)
EXTENDS Releases, TLAPS

Retained(v, s) == v \in Version /\ s[v] \in {"published", "deprecated"}

Holds(q, s) ==
  /\ q.kind = "none" => q.pc = "done"
  /\ q.pc # "done" => q.name \in Name
  /\ q.kind \in {"create", "update"} => Retained(q.version, s)
  /\ q.kind = "update" => q.old \in Version
  /\ q.kind \in {"update", "delete"} => q.row \in RowId
  /\ q.pc = "insert" => q.kind = "create"
  /\ q.kind = "create" /\ q.pc # "insert" => q.row \in RowId
  /\ q.pc = "apply" => q.kind \in {"create", "update"}
  /\ q.pc \in {"commit", "restore"} => q.kind = "update"

HandlersHold == \A c \in Client : Holds(op[c], vstatus)

RowsHold ==
  \A i \in RowId : rows[i].state = "live" =>
    rows[i].name \in Name /\ Retained(rows[i].version, vstatus)

IInv == TypeOK /\ HandlersHold /\ RowsHold

Kept == \A v \in Version : Retained(v, vstatus) => Retained(v, vstatus')

-----------------------------------------------------------------------------
(* A version that is retained stays retained: nothing deletes a version     *)
(* that is no draft, and nothing makes it a draft again.                    *)
LEMMA VersionsAreKept == TypeOK /\ [Next]_vars => Kept
<1> SUFFICES ASSUME TypeOK, [Next]_vars PROVE Kept
  OBVIOUS
<1>1. CASE UNCHANGED vstatus
  BY <1>1 DEF Kept, Retained
<1>2. ASSUME NEW v \in Version, ChangeVersion(v) PROVE Kept
  BY <1>2 DEF ChangeVersion, VersionStep, Kept, Retained, TypeOK
<1>3. ASSUME NEW c \in Client, Step(c) PROVE UNCHANGED vstatus
  BY <1>3 DEF Step, StartCreate, InsertRelease, InsertFails, InsertAnswerLost,
     StartUpdate, StartDelete, StartForceDelete, Start, Connect, ConnectFails,
     ApplyDoc, ApplyDocFails, CreateApplied, CreateCleansUp, UpdateApplied,
     UpdateNotApplied, CommitUpdate, CommitFails, CommitAnswerLost, Restored,
     SweepKind, SweepKindFails, Swept, DropRow, DropRowFails
<1>4. QED
  BY <1>1, <1>2, <1>3 DEF Next, Crash, vars

(* What is left of a sequence of documents or kinds, and a free handler.    *)
LEMMA Rest ==
  <<>> \in Seq(Object) /\ \A s \in Seq(Object) : s # <<>> => Tail(s) \in Seq(Object)
OBVIOUS

LEMMA IdleIsOp == Idle \in Op /\ \A s : Holds(Idle, s)
BY DEF Idle, Op, Holds

(* Whether a request was alone is no part of what its handler holds.        *)
LEMMA AloneIsFree ==
  ASSUME NEW q \in Op, NEW b \in BOOLEAN, NEW s, Holds(q, s)
  PROVE  /\ [q EXCEPT !.alone = b] \in Op
         /\ Holds([q EXCEPT !.alone = b], s)
<1>1. [q EXCEPT !.alone = b] \in Op
  BY DEF Op
<1>2. \A f \in {"kind", "pc", "name", "version", "old", "row"} :
        [q EXCEPT !.alone = b][f] = q[f]
  BY DEF Op
<1>3. QED
  BY <1>1, <1>2 DEF Holds

(* A request that starts knows what its handler has read.                   *)
LEMMA Begins ==
  ASSUME IInv, NEW c \in Client, NEW h \in Op, Start(c, h),
         h.name \in Name, Holds(h, vstatus)
  PROVE  IInv'
<1>1. UNCHANGED <<vstatus, rows, cluster>>
  BY DEF Start
<1>2. \A d \in Client : op'[d] \in Op /\ Holds(op'[d], vstatus)
  <2> SUFFICES ASSUME NEW d \in Client
               PROVE op'[d] \in Op /\ Holds(op'[d], vstatus)
    OBVIOUS
  <2>1. PICK b \in BOOLEAN : op'[d] = [IF d = c THEN h ELSE op[d] EXCEPT !.alone = b]
    <3>1. (~InFlight(h.name)) \in BOOLEAN
      OBVIOUS
    <3>2. (op[d].alone /\ op[d].name # h.name) \in BOOLEAN
      OBVIOUS
    <3>3. op'[d] = IF d = c THEN [h EXCEPT !.alone = ~InFlight(h.name)]
             ELSE [op[d] EXCEPT !.alone = op[d].alone /\ op[d].name # h.name]
      BY Zenon DEF Start
    <3>4. QED
      BY <3>1, <3>2, <3>3, Zenon
  <2>2. (IF d = c THEN h ELSE op[d]) \in Op /\ Holds(IF d = c THEN h ELSE op[d], vstatus)
    BY DEF IInv, HandlersHold, TypeOK
  <2>3. QED
    BY <2>1, <2>2, AloneIsFree
<1>3. op' \in [Client -> Op]
  <2>1. op' = [d \in Client |-> op'[d]]
    BY Zenon DEF Start
  <2>2. QED
    BY <1>2, <2>1
<1>4. HandlersHold'
  BY <1>1, <1>2 DEF HandlersHold
<1>5. tainted' \subseteq Name
  BY DEF Start, IInv, TypeOK
<1>6. QED
  BY <1>1, <1>3, <1>4, <1>5 DEF IInv, TypeOK, RowsHold

(* A handler that goes on to its next call keeps what it holds.             *)
LEMMA GoesOn ==
  ASSUME IInv, NEW c \in Client, NEW pc, NEW todo \in Seq(Object),
         NEW failed \in BOOLEAN, Move(c, pc, todo, failed),
         op[c].pc \notin {"done", "insert"},
         pc \in {"apply", "sweep", "drop", "unwind", "commit", "restore"},
         pc = "apply" => op[c].kind \in {"create", "update"},
         pc \in {"commit", "restore"} => op[c].kind = "update",
         UNCHANGED vstatus
  PROVE  op' \in [Client -> Op] /\ HandlersHold'
<1> DEFINE q == [op[c] EXCEPT !.pc = pc, !.todo = todo, !.failed = failed]
<1>1. op[c] \in Op /\ Holds(op[c], vstatus)
  BY DEF IInv, TypeOK, HandlersHold
<1>2. q \in Op /\ Holds(q, vstatus)
  BY <1>1 DEF Op, Holds
<1>3. op' = [op EXCEPT ![c] = q]
  BY <1>1 DEF Move, Op, IInv, TypeOK
<1>4. op' \in [Client -> Op]
  BY <1>2, <1>3 DEF IInv, TypeOK
<1>5. \A d \in Client : op'[d] = q \/ op'[d] = op[d]
  BY <1>3 DEF IInv, TypeOK
<1>6. QED
  BY <1>2, <1>4, <1>5 DEF HandlersHold, IInv

(* A handler that answers holds nothing any more.                           *)
LEMMA Ends ==
  ASSUME IInv, NEW c \in Client, NEW outcome, Finish(c, outcome),
         op[c].pc # "done", UNCHANGED vstatus
  PROVE  /\ op' \in [Client -> Op]
         /\ HandlersHold'
         /\ tainted' \subseteq Name
<1>1. Idle \in Op /\ Holds(Idle, vstatus)
  BY DEF Idle, Op, Holds
<1>2. op[c].name \in Name
  BY DEF IInv, HandlersHold, Holds
<1>3. op' \in [Client -> Op] /\ HandlersHold'
  BY <1>1 DEF IInv, TypeOK, HandlersHold, Finish
<1>4. tainted' \in {tainted \cup {op[c].name}, tainted, tainted \ {op[c].name}}
  BY DEF Finish
<1>5. QED
  BY <1>2, <1>3, <1>4 DEF IInv, TypeOK

(* Calls that apply or delete an object leave only objects with a label.    *)
LEMMA Patches ==
  ASSUME IInv, NEW c \in Client, Applying(c), UNCHANGED <<vstatus, rows>>,
         NEW todo \in Seq(Object), NEW failed \in BOOLEAN, Patch(c, todo, failed)
  PROVE  IInv'
<1>1. op[c] \in Op /\ Holds(op[c], vstatus)
  BY DEF IInv, TypeOK, HandlersHold
<1>2. cluster' \in [Object -> Live \cup {NoObject}]
  <2>1. op[c].name \in Name /\ Target(op[c]) \in Version
    BY <1>1 DEF Applying, Holds, Retained, Target
  <2>2. Head(op[c].todo) \in Object
    BY <1>1 DEF Applying, Op
  <2>3. QED
    BY <2>1, <2>2 DEF Patch, IInv, TypeOK, Live
<1>3. \A d \in Client : op'[d] \in Op /\ Holds(op'[d], vstatus)
  <2> SUFFICES ASSUME NEW d \in Client
               PROVE  op'[d] \in Op /\ Holds(op'[d], vstatus)
    OBVIOUS
  <2>1. CASE d = c
    <3>1. op'[d] = [op[c] EXCEPT !.todo = todo, !.failed = failed]
      BY <2>1, Zenon DEF Patch
    <3>2. QED
      BY <1>1, <3>1 DEF Op, Holds
  <2>2. CASE d # c
    <3>1. PICK b \in BOOLEAN : op'[d] = [op[d] EXCEPT !.alone = b]
      <4>1. (op[d].alone /\ op[d].name \notin Robbed(op[c])) \in BOOLEAN
        OBVIOUS
      <4>2. op'[d] = [op[d] EXCEPT !.alone =
                        op[d].alone /\ op[d].name \notin Robbed(op[c])]
        BY <2>2, Zenon DEF Patch
      <4>3. QED
        BY <4>1, <4>2, Zenon
    <3>2. op[d] \in Op /\ Holds(op[d], vstatus)
      BY DEF IInv, TypeOK, HandlersHold
    <3>3. QED
      BY <3>1, <3>2, AloneIsFree
  <2>3. QED
    BY <2>1, <2>2
<1>4. op' = [d \in Client |-> op'[d]]
  BY Zenon DEF Patch
<1>5. op' \in [Client -> Op] /\ HandlersHold'
  BY <1>3, <1>4 DEF HandlersHold
<1>6. tainted' \subseteq Name
  BY DEF Patch, Robbed, IInv, TypeOK
<1>7. QED
  BY <1>2, <1>5, <1>6 DEF IInv, TypeOK, RowsHold

LEMMA Deletes ==
  ASSUME IInv, NEW c \in Client, DeleteCollection(op[c])
  PROVE  cluster' \in [Object -> Live \cup {NoObject}]
BY DEF DeleteCollection, IInv, TypeOK

(* The rows as the three statements leave them.                             *)
LEMMA RowsAfter ==
  ASSUME IInv, NEW c \in Client, op[c].pc # "done", UNCHANGED vstatus,
         \/ \E i \in RowId : InsertRow(c, i)
         \/ op[c].pc = "commit" /\ SetVersion(c)
         \/ RemoveRow(c)
         \/ UNCHANGED rows
  PROVE  rows' \in [RowId -> Row] /\ RowsHold'
<1> USE DEF IInv, TypeOK, Row, RowsHold
<1>1. op[c] \in Op /\ Holds(op[c], vstatus)
  BY DEF HandlersHold
<1>2. ASSUME NEW i \in RowId, InsertRow(c, i)
      PROVE  rows' \in [RowId -> Row] /\ RowsHold'
  BY <1>1, <1>2 DEF InsertRow, Holds, Retained
<1>3. CASE op[c].pc = "commit" /\ SetVersion(c)
  BY <1>1, <1>3 DEF SetVersion, Holds, Retained
<1>4. CASE RemoveRow(c)
  <2>1. op[c].row \in RowId
    BY <1>1, <1>4 DEF RemoveRow, Holds, Op
  <2>2. rows' = [rows EXCEPT ![op[c].row].state = "gone"]
    BY <1>4 DEF RemoveRow
  <2>3. QED
    BY <2>1, <2>2
<1>5. CASE UNCHANGED rows
  BY <1>5
<1>6. QED
  BY <1>2, <1>3, <1>4, <1>5

-----------------------------------------------------------------------------
LEMMA InvInit == Init => IInv
BY DEF Init, IInv, TypeOK, HandlersHold, RowsHold, Holds, Row, Idle, Op

(* Every step of a request preserves the invariant.                         *)
LEMMA InvStep == ASSUME IInv, NEW c \in Client, Step(c) PROVE IInv'
<1>1. op[c] \in Op /\ Holds(op[c], vstatus)
  BY DEF IInv, TypeOK, HandlersHold
<1>2. ASSUME NEW n \in Name, NEW v \in Version, StartCreate(c, n, v) PROVE IInv'
  <2> DEFINE h == [Idle EXCEPT !.kind = "create", !.pc = "insert",
                               !.name = n, !.version = v]
  <2>1. Retained(v, vstatus)
    BY <1>2 DEF StartCreate, Deployable, Retained
  <2>2. h \in Op /\ h.name = n /\ Holds(h, vstatus)
    BY <2>1, IdleIsOp DEF Holds, Op
  <2>3. QED
    BY <1>2, <2>2, Begins DEF StartCreate
<1>3. ASSUME NEW i \in RowId, NEW v \in Version, StartUpdate(c, i, v) PROVE IInv'
  <2> DEFINE h == [Idle EXCEPT !.kind = "update", !.pc = "connect", !.row = i,
                               !.name = rows[i].name, !.version = v,
                               !.old = rows[i].version]
  <2>1. /\ rows[i].name \in Name /\ rows[i].version \in Version
        /\ Retained(v, vstatus)
    BY <1>3 DEF StartUpdate, IInv, RowsHold, Retained, Deployable
  <2>2. h \in Op /\ h.name = rows[i].name /\ Holds(h, vstatus)
    BY <2>1, IdleIsOp DEF Holds, Op
  <2>3. QED
    BY <1>3, <2>1, <2>2, Begins DEF StartUpdate
<1>4. ASSUME NEW i \in RowId, StartDelete(c, i) PROVE IInv'
  <2> DEFINE h == [Idle EXCEPT !.kind = "delete", !.pc = "connect", !.row = i,
                               !.name = rows[i].name]
  <2>1. rows[i].name \in Name
    BY <1>4 DEF StartDelete, IInv, RowsHold
  <2>2. h \in Op /\ h.name \in Name /\ Holds(h, vstatus)
    BY <2>1, IdleIsOp DEF Holds, Op
  <2>3. QED
    BY <1>4, <2>2, Begins DEF StartDelete
<1>5. ASSUME NEW i \in RowId, StartForceDelete(c, i) PROVE IInv'
  <2> DEFINE h == [Idle EXCEPT !.kind = "delete", !.pc = "drop", !.row = i,
                               !.name = rows[i].name, !.failed = TRUE]
  <2>1. rows[i].name \in Name
    BY <1>5 DEF StartForceDelete, IInv, RowsHold
  <2>2. h \in Op /\ h.name \in Name /\ Holds(h, vstatus)
    BY <2>1, IdleIsOp DEF Holds, Op
  <2>3. QED
    BY <1>5, <2>2, Begins DEF StartForceDelete
<1>6. ASSUME NEW i \in RowId, InsertRelease(c, i) PROVE IInv'
  <2> DEFINE q == [op[c] EXCEPT !.pc = "connect", !.row = i]
  <2>1. rows' \in [RowId -> Row] /\ RowsHold'
    BY <1>6, RowsAfter DEF InsertRelease, InsertRow
  <2>2. q \in Op /\ Holds(q, vstatus)
    BY <1>1, <1>6 DEF InsertRelease, InsertRow, Holds, Op
  <2>3. op' = [op EXCEPT ![c] = q]
    BY <1>6 DEF InsertRelease, IInv, TypeOK
  <2>4. op' \in [Client -> Op] /\ HandlersHold'
    <3> HIDE DEF q
    <3> QED BY <1>6, <2>2, <2>3 DEF InsertRelease, IInv, TypeOK, HandlersHold
  <2>5. QED
    BY <1>6, <2>1, <2>4 DEF InsertRelease, IInv, TypeOK
<1>7. ASSUME NEW i \in RowId, InsertAnswerLost(c, i) PROVE IInv'
  <2>1. op[c].pc # "done" /\ UNCHANGED <<vstatus, cluster>>
    BY <1>7 DEF InsertAnswerLost, InsertRow
  <2>2. QED
    BY <1>7, <2>1, RowsAfter, Ends DEF InsertAnswerLost, IInv, TypeOK
<1>8. CASE InsertFails(c)
  BY <1>8, Ends DEF InsertFails, IInv, TypeOK, RowsHold
<1>9. CASE Connect(c)
  <2>1. CASE op[c].kind = "delete"
    <3>1. op' \in [Client -> Op] /\ HandlersHold'
      BY <1>9, <2>1, KindsAreObjects, GoesOn DEF Connect
    <3>2. QED
      BY <1>9, <3>1 DEF Connect, IInv, TypeOK, RowsHold
  <2>2. CASE op[c].kind # "delete"
    <3>1. op[c].kind \in {"create", "update"} /\ op[c].name \in Name
            /\ op[c].version \in Version
      BY <1>1, <1>9, <2>2 DEF Connect, Holds, Retained, Op
    <3>2. Docs[op[c].name][op[c].version] \in Seq(Object)
      BY <3>1, DocsAreDocuments
    <3>3. op' \in [Client -> Op] /\ HandlersHold'
      BY <1>9, <2>2, <3>1, <3>2, GoesOn DEF Connect
    <3>4. QED
      BY <1>9, <3>3 DEF Connect, IInv, TypeOK, RowsHold
  <2>3. QED
    BY <2>1, <2>2
<1>10. CASE ConnectFails(c)
  <2>1. CASE op[c].kind = "create"
    <3>1. op' \in [Client -> Op] /\ HandlersHold'
      BY <1>10, <2>1, Rest, GoesOn DEF ConnectFails
    <3>2. QED
      BY <1>10, <2>1, <3>1 DEF ConnectFails, IInv, TypeOK, RowsHold
  <2>2. CASE op[c].kind # "create"
    BY <1>10, <2>2, Ends DEF ConnectFails, IInv, TypeOK, RowsHold
  <2>3. QED
    BY <2>1, <2>2
<1>11. CASE ApplyDoc(c) \/ ApplyDocFails(c)
  <2>1. Tail(op[c].todo) \in Seq(Object) /\ <<>> \in Seq(Object)
    BY <1>1, <1>11, Rest DEF ApplyDoc, ApplyDocFails, Applying, Op
  <2>2. Applying(c) /\ UNCHANGED <<vstatus, rows>> /\ op[c].failed \in BOOLEAN
    BY <1>1, <1>11 DEF ApplyDoc, ApplyDocFails, Op
  <2>3. PICK rest \in {Tail(op[c].todo), <<>>}, failed \in BOOLEAN :
          \/ Patch(c, rest, failed)
          \/ Move(c, op[c].pc, rest, failed) /\ UNCHANGED <<cluster, tainted>>
    BY <1>11, <2>2 DEF ApplyDoc, ApplyDocFails
  <2>4. CASE Patch(c, rest, failed)
    BY <2>1, <2>2, <2>4, Patches
  <2>5. CASE Move(c, op[c].pc, rest, failed) /\ UNCHANGED <<cluster, tainted>>
    <3>1. /\ op[c].pc \in {"apply", "restore"}
          /\ op[c].pc = "apply" => op[c].kind \in {"create", "update"}
          /\ op[c].pc = "restore" => op[c].kind = "update"
      BY <1>1, <2>2 DEF Applying, Holds
    <3>2. op' \in [Client -> Op] /\ HandlersHold'
      BY <2>1, <2>2, <2>5, <3>1, GoesOn
    <3>3. QED
      BY <2>2, <2>5, <3>2 DEF IInv, TypeOK, RowsHold
  <2>6. QED
    BY <2>3, <2>4, <2>5
<1>12. CASE SweepKind(c) \/ SweepKindFails(c)
  <2>1. cluster' \in [Object -> Live \cup {NoObject}]
    BY <1>12, Deletes DEF SweepKind, SweepKindFails, IInv, TypeOK
  <2>2. Tail(op[c].todo) \in Seq(Object) /\ <<>> \in Seq(Object)
    BY <1>1, <1>12, Rest DEF SweepKind, SweepKindFails, Sweeping, Op
  <2>3. op' \in [Client -> Op] /\ HandlersHold'
    <3>1. op[c].pc = "sweep" /\ UNCHANGED vstatus
      BY <1>12 DEF SweepKind, SweepKindFails, Sweeping
    <3>2. PICK rest \in {Tail(op[c].todo), <<>>}, failed \in BOOLEAN :
            Move(c, "sweep", rest, failed)
      <4>1. op[c].failed \in BOOLEAN
        BY <1>1 DEF Op
      <4>2. QED
        BY <1>12, <4>1 DEF SweepKind, SweepKindFails
    <3>3. QED
      BY <2>2, <3>1, <3>2, GoesOn
  <2>4. QED
    BY <1>12, <2>1, <2>3 DEF SweepKind, SweepKindFails, IInv, TypeOK, RowsHold
<1>13. CASE CreateApplied(c) \/ UpdateNotApplied(c) \/ Restored(c)
  BY <1>13, Ends DEF CreateApplied, UpdateNotApplied, Restored, Applied,
     IInv, TypeOK, RowsHold
<1>14. CASE CreateCleansUp(c)
  <2>1. op' \in [Client -> Op] /\ HandlersHold'
    BY <1>14, KindsAreObjects, GoesOn DEF CreateCleansUp, Applied
  <2>2. QED
    BY <1>14, <2>1 DEF CreateCleansUp, IInv, TypeOK, RowsHold
<1>15. CASE UpdateApplied(c)
  <2>1. op' \in [Client -> Op] /\ HandlersHold'
    BY <1>15, Rest, GoesOn DEF UpdateApplied, Applied
  <2>2. QED
    BY <1>15, <2>1 DEF UpdateApplied, IInv, TypeOK, RowsHold
<1>16. CASE CommitUpdate(c)
  <2>1. rows' \in [RowId -> Row] /\ RowsHold'
    BY <1>16, RowsAfter DEF CommitUpdate
  <2>2. QED
    BY <1>16, <2>1, Ends DEF CommitUpdate, IInv, TypeOK
<1>17. CASE CommitFails(c) \/ CommitAnswerLost(c)
  <2>1. op[c].pc = "commit" /\ op[c].kind = "update" /\ UNCHANGED vstatus
          /\ op[c].name \in Name /\ op[c].old \in Version
    BY <1>1, <1>17 DEF CommitFails, CommitAnswerLost, Holds
  <2>2. rows' \in [RowId -> Row] /\ RowsHold'
    BY <1>17, <2>1, RowsAfter DEF CommitFails, CommitAnswerLost
  <2>3. Docs[op[c].name][op[c].old] \in Seq(Object)
    BY <2>1, DocsAreDocuments
  <2>4. op' \in [Client -> Op] /\ HandlersHold'
    BY <1>17, <2>1, <2>3, GoesOn DEF CommitFails, CommitAnswerLost
  <2>5. QED
    BY <1>17, <2>2, <2>4 DEF CommitFails, CommitAnswerLost, IInv, TypeOK
<1>18. CASE Swept(c)
  <2>1. CASE op[c].kind = "delete" /\ op[c].failed
    BY <1>18, <2>1, Ends DEF Swept, IInv, TypeOK, RowsHold
  <2>2. CASE ~(op[c].kind = "delete" /\ op[c].failed)
    <3>1. op[c].failed \in BOOLEAN
      BY <1>1 DEF Op
    <3>2. op' \in [Client -> Op] /\ HandlersHold'
      BY <1>18, <2>2, <3>1, Rest, GoesOn DEF Swept
    <3>3. QED
      BY <1>18, <2>2, <3>2 DEF Swept, IInv, TypeOK, RowsHold
  <2>3. QED
    BY <2>1, <2>2
<1>19. CASE DropRow(c) \/ DropRowFails(c)
  <2>1. op[c].pc # "done" /\ UNCHANGED <<vstatus, cluster>>
          /\ (RemoveRow(c) \/ UNCHANGED rows)
    BY <1>19 DEF DropRow, DropRowFails, RemoveRow
  <2>2. \E outcome \in {"void", "fault", "ok"} : Finish(c, outcome)
    BY <1>1, <1>19 DEF DropRow, DropRowFails, RemoveRow
  <2>3. QED
    BY <2>1, <2>2, RowsAfter, Ends DEF IInv, TypeOK
<1>20. QED
  BY <1>2, <1>3, <1>4, <1>5, <1>6, <1>7, <1>8, <1>9, <1>10, <1>11, <1>12,
     <1>13, <1>14, <1>15, <1>16, <1>17, <1>18, <1>19 DEF Step

(* The versions and a crash preserve it too.                                *)
LEMMA Inductive == IInv /\ [Next]_vars => IInv'
<1> SUFFICES ASSUME IInv, [Next]_vars PROVE IInv'
  OBVIOUS
<1>1. CASE UNCHANGED vars
  BY <1>1 DEF vars, IInv, TypeOK, HandlersHold, RowsHold
<1>2. ASSUME NEW c \in Client, Step(c) PROVE IInv'
  BY <1>2, InvStep
<1>3. ASSUME NEW v \in Version, ChangeVersion(v) PROVE IInv'
  <2>1. Kept
    BY <1>3, VersionsAreKept DEF IInv, Next
  <2>2. vstatus' \in [Version -> {"draft", "published", "deprecated", "gone"}]
    BY <1>3 DEF ChangeVersion, VersionStep, IInv, TypeOK
  <2>3. HandlersHold'
    BY <1>3, <2>1 DEF ChangeVersion, IInv, HandlersHold, Holds, Kept, Retained
  <2>4. RowsHold'
    BY <1>3, <2>1 DEF ChangeVersion, IInv, RowsHold, Kept, Retained
  <2>5. QED
    BY <1>3, <2>2, <2>3, <2>4 DEF ChangeVersion, IInv, TypeOK
<1>4. CASE Crash
  <2>1. Idle \in Op /\ Holds(Idle, vstatus)
    BY DEF Idle, Op, Holds
  <2>2. QED
    BY <1>4, <2>1 DEF Crash, IInv, TypeOK, HandlersHold, RowsHold
<1>5. QED
  BY <1>1, <1>2, <1>3, <1>4 DEF Next

LEMMA Invariance == Spec => []IInv
BY InvInit, Inductive, PTL DEF Spec

(* The tables, the cluster and the requests in flight keep their types.     *)
THEOREM TypeCorrect == Spec => []TypeOK
<1>1. IInv => TypeOK
  BY DEF IInv
<1>2. QED
  BY <1>1, Invariance, PTL

(* No release ever points at a version that was never published or that has *)
(* been deleted, although CreateRelease and UpdateRelease check the version *)
(* in one statement and write the row in another.                           *)
THEOREM PinsCorrect == Spec => []PinsRetained
<1>1. IInv => PinsRetained
  BY DEF IInv, RowsHold, Retained, PinsRetained
<1>2. QED
  BY <1>1, Invariance, PTL

(* A deleted release never comes back, and its row is never written again,  *)
(* by however slow an update or clean-up.                                   *)
THEOREM DeletedForGood == Spec => GoneStaysGone
<1>1. TypeOK /\ [Next]_vars =>
        [\A i \in RowId : rows[i].state = "gone" => rows'[i] = rows[i]]_vars
  <2> SUFFICES ASSUME TypeOK, Next, NEW i \in RowId, rows[i].state = "gone"
               PROVE  rows'[i] = rows[i]
    BY DEF vars
  <2> USE DEF TypeOK, Row
  <2>1. ASSUME NEW c \in Client,
               \/ \E j \in RowId : InsertRow(c, j)
               \/ SetVersion(c)
               \/ RemoveRow(c)
               \/ UNCHANGED rows
        PROVE  rows'[i] = rows[i]
    BY <2>1 DEF InsertRow, SetVersion, RemoveRow
  <2>2. ASSUME NEW c \in Client, Step(c)
        PROVE  \/ \E j \in RowId : InsertRow(c, j)
               \/ SetVersion(c)
               \/ RemoveRow(c)
               \/ UNCHANGED rows
    BY <2>2 DEF Step, StartCreate, InsertRelease, InsertFails, InsertAnswerLost,
       StartUpdate, StartDelete, StartForceDelete, Start, Connect, ConnectFails,
       ApplyDoc, ApplyDocFails, CreateApplied, CreateCleansUp, UpdateApplied,
       UpdateNotApplied, CommitUpdate, CommitFails, CommitAnswerLost, Restored,
       SweepKind, SweepKindFails, Swept, DropRow, DropRowFails
  <2>3. QED
    BY <2>1, <2>2 DEF Next, ChangeVersion, Crash
<1>2. QED
  BY <1>1, TypeCorrect, PTL DEF Spec, GoneStaysGone

-----------------------------------------------------------------------------
(* Table and cluster agree.  Nothing in the code keeps the documents of two *)
(* releases apart, as their names are the template's: a request may take an *)
(* object from any other release, which is then as if it had been overlapped. *)

Has(s, o) == \E k \in DOMAIN s : s[k] = o

Clean(n) == n \notin tainted

OneRow == \A i, j \in RowId, n \in Name : LiveRow(i, n) /\ LiveRow(j, n) => i = j

(* What every handler in flight holds on to, whoever else is on its name.   *)
Keeps(q) ==
  /\ q.pc = "done" => q = Idle
  /\ q.pc \notin {"done", "insert"} =>
       rows[q.row].name = q.name /\ rows[q.row].state \in {"live", "gone"}
  /\ q.pc = "commit" => ~q.failed
  /\ q.pc \in {"commit", "drop"} => q.todo = <<>>
  /\ q.pc # "done" /\ ~q.alone => q.name \in tainted

(* What is applied, or deleted, but for what is still to do.                *)
AppliedBut(todo, n, v) ==
  \A k \in DOMAIN Docs[n][v] :
    \/ Has(todo, Docs[n][v][k])
    \/ /\ cluster[Docs[n][v][k]].release = n
       /\ cluster[Docs[n][v][k]].version = v
SweptBut(todo, n) ==
  \A o \in Object \ Foreign : cluster[o].release = n => Has(todo, o)

(* What a handler that is alone on its name knows of row and cluster.       *)
Untried(q) == q.pc = "insert" \/ (q.pc = "connect" /\ q.kind # "create")
Inserted(q) == q.pc = "unwind" \/ (q.pc = "connect" /\ q.kind = "create")
Knows(q) ==
  /\ q.pc # "insert" => rows[q.row].state = "live"
  /\ q.kind = "create" /\ q.pc # "insert" => rows[q.row].version = q.version
  /\ q.kind = "update" /\ (q.pc = "restore" => ~q.failed) =>
       rows[q.row].version = q.old
  /\ Untried(q) /\ Clean(q.name) => Agree(q.name)
  /\ Inserted(q) /\ Clean(q.name) => Untouched(q.name)
  /\ q.pc \in {"apply", "commit"} /\ ~q.failed => AppliedBut(q.todo, q.name, q.version)
  /\ q.pc = "restore" /\ ~q.failed => AppliedBut(q.todo, q.name, q.old)
  /\ q.pc \in {"sweep", "drop"} /\ ~q.failed => SweptBut(q.todo, q.name)

AllKeep == \A c \in Client : Keeps(op[c])
Solitary ==
  \A c, d \in Client :
    op[c].pc # "done" /\ op[c].alone /\ d # c => op[d].name # op[c].name
AllKnow == \A c \in Client : op[c].pc # "done" /\ op[c].alone => Knows(op[c])
Settled == \A n \in Name : ~InFlight(n) /\ Clean(n) => Agree(n)

Sync == OneRow /\ AllKeep /\ Solitary /\ AllKnow /\ Settled

(* What a request on name n changes is its own, but for the names R that it *)
(* takes an object from: rows of the name, objects that carry or get its    *)
(* label, the history of the name.                                          *)
RowsLocal(n) ==
  \A i \in RowId :
    /\ \/ rows'[i] = rows[i]
       \/ rows'[i].name = n /\ (rows[i].state = "unborn" \/ rows[i].name = n)
    /\ rows[i].state \in {"live", "gone"} =>
         rows'[i].state \in {"live", "gone"} /\ rows'[i].name = rows[i].name
ClusterLocal(n, R) ==
  \A o \in Object, m \in Name \ R :
    m # n /\ (cluster[o].release = m \/ cluster'[o].release = m) =>
      cluster'[o] = cluster[o]
TaintLocal(n, R) ==
  \A m \in Name : m # n => (m \in tainted' <=> m \in tainted \/ m \in R)
Local(n, R) == RowsLocal(n) /\ ClusterLocal(n, R) /\ TaintLocal(n, R)

(* So another name that it takes nothing from sees nothing of it.           *)
LEMMA Elsewhere ==
  ASSUME IInv, NEW n \in Name, NEW R, NEW m \in Name, m # n, m \notin R, Local(n, R)
  PROVE  /\ \A o \in Object : cluster[o].release = m => cluster'[o] = cluster[o]
         /\ \A o \in Object : cluster'[o].release = m <=> cluster[o].release = m
         /\ \A i \in RowId : LiveRow(i, m)' <=> LiveRow(i, m)
         /\ \A i \in RowId :
              rows[i].name = m /\ rows[i].state \in {"live", "gone"} => rows'[i] = rows[i]
         /\ Clean(m)' <=> Clean(m)
<1>1. /\ \A o \in Object : cluster[o].release = m => cluster'[o] = cluster[o]
      /\ \A o \in Object : cluster'[o].release = m <=> cluster[o].release = m
  BY DEF Local, ClusterLocal
<1>2. \A i \in RowId :
        rows[i].name = m /\ rows[i].state \in {"live", "gone"} => rows'[i] = rows[i]
  BY DEF Local, RowsLocal
<1>3. \A i \in RowId : LiveRow(i, m)' <=> LiveRow(i, m)
  <2>1. \A i \in RowId : LiveRow(i, m)' => rows'[i] = rows[i]
    BY DEF Local, RowsLocal, LiveRow
  <2>2. QED
    BY <1>2, <2>1 DEF LiveRow
<1>4. Clean(m)' <=> Clean(m)
  BY DEF Local, TaintLocal, Clean
<1>5. QED
  BY <1>1, <1>2, <1>3, <1>4

LEMMA DocsAreObjects ==
  ASSUME NEW n \in Name, NEW v \in Version
  PROVE  \A k \in DOMAIN Docs[n][v] : Docs[n][v][k] \in Object
<1>1. Docs[n][v] \in Seq(Object)
  BY DocsAreDocuments
<1>2. QED
  BY <1>1

LEMMA ElsewhereAgrees ==
  ASSUME IInv, NEW n \in Name, NEW R, NEW m \in Name, m # n, m \notin R, Local(n, R)
  PROVE  (Untouched(m) => Untouched(m)') /\ (Agree(m) => Agree(m)')
<1>1. Untouched(m) => Untouched(m)'
  BY Elsewhere DEF Untouched
<1>2. ASSUME Agree(m), NEW i \in RowId, LiveRow(i, m)' PROVE Deployed(i)'
  <2>1. LiveRow(i, m) /\ Deployed(i)
    BY <1>2, Elsewhere DEF Agree
  <2>2. rows'[i] = rows[i] /\ rows[i].name = m /\ rows[i].version \in Version
    BY <2>1, Elsewhere DEF LiveRow, IInv, RowsHold, Retained
  <2>3. \A k \in DOMAIN Docs[m][rows[i].version] :
          cluster'[Docs[m][rows[i].version][k]] = cluster[Docs[m][rows[i].version][k]]
    <3>1. \A k \in DOMAIN Docs[m][rows[i].version] :
            /\ Docs[m][rows[i].version][k] \in Object
            /\ cluster[Docs[m][rows[i].version][k]].release = m
      BY <2>1, <2>2, DocsAreObjects DEF Deployed
    <3>2. QED
      BY <3>1, Elsewhere
  <2>4. QED
    BY <2>1, <2>2, <2>3 DEF Deployed
<1>3. NameTaken(m)' <=> NameTaken(m)
  BY Elsewhere DEF NameTaken
<1>4. QED
  BY <1>1, <1>2, <1>3 DEF Agree

(* A handler on such a name still knows what it knew.                       *)
LEMMA ElsewhereKnown ==
  ASSUME IInv, NEW n \in Name, NEW R, NEW q \in Op,
         q.name \in Name, q.name # n, q.name \notin R, q.pc # "done", Local(n, R),
         Holds(q, vstatus), Keeps(q), Knows(q)
  PROVE  Knows(q)'
<1>1. q.pc # "insert" => q.row \in RowId /\ rows'[q.row] = rows[q.row]
  <2>1. q.pc # "insert" => q.row \in RowId
    BY DEF Holds, Op
  <2>2. QED
    BY <2>1, Elsewhere DEF Keeps
<1>2. Clean(q.name)' <=> Clean(q.name)
  BY Elsewhere
<1>3. ASSUME NEW v \in Version, AppliedBut(q.todo, q.name, v)
      PROVE  AppliedBut(q.todo, q.name, v)'
  BY <1>3, DocsAreObjects, Elsewhere DEF AppliedBut
<1>4. SweptBut(q.todo, q.name) => SweptBut(q.todo, q.name)'
  BY Elsewhere DEF SweptBut
<1>5. /\ q.pc \in {"apply", "commit"} => q.version \in Version
      /\ q.pc = "restore" => q.old \in Version
      /\ q.kind \in {"create", "update", "delete"}
  BY DEF Holds, Retained, Op
<1>6. /\ Agree(q.name) => Agree(q.name)'
      /\ Untouched(q.name) => Untouched(q.name)'
  BY ElsewhereAgrees
<1>7. /\ q.pc # "insert" => rows'[q.row].state = "live"
      /\ q.kind = "create" /\ q.pc # "insert" => rows'[q.row].version = q.version
      /\ q.kind = "update" /\ (q.pc = "restore" => ~q.failed) =>
           rows'[q.row].version = q.old
  <2>1. q.kind = "update" => q.pc # "insert"
    BY DEF Holds
  <2>2. QED
    BY <1>1, <2>1 DEF Knows
<1>8. /\ Untried(q) /\ Clean(q.name)' => Agree(q.name)'
      /\ Inserted(q) /\ Clean(q.name)' => Untouched(q.name)'
  BY <1>2, <1>6, Zenon DEF Knows
<1>9. /\ q.pc \in {"apply", "commit"} /\ ~q.failed =>
           AppliedBut(q.todo, q.name, q.version)'
      /\ q.pc = "restore" /\ ~q.failed => AppliedBut(q.todo, q.name, q.old)'
      /\ q.pc \in {"sweep", "drop"} /\ ~q.failed => SweptBut(q.todo, q.name)'
  <2>1. /\ q.pc \in {"apply", "commit"} => q.version \in Version
        /\ q.pc = "restore" => q.old \in Version
    <3>1. q.pc = "commit" => q.kind = "update"
      BY DEF Holds
    <3>2. QED
      BY <1>5, <3>1
  <2>2. QED
    BY <1>3, <1>4, <2>1 DEF Knows
<1>10. QED
  BY <1>7, <1>8, <1>9 DEF Knows, Untried, Inserted

(* A handler keeps its row, whatever others do.                             *)
LEMMA StillKept ==
  ASSUME NEW n \in Name, NEW R, NEW q \in Op, Local(n, R), IInv,
         Holds(q, vstatus), Keeps(q),
         n \in tainted => n \in tainted' \/ q.name # n
  PROVE  Keeps(q)'
<1>1. q.pc \notin {"done", "insert"} =>
        rows'[q.row].name = q.name /\ rows'[q.row].state \in {"live", "gone"}
  <2>1. q.pc \notin {"done", "insert"} => q.row \in RowId
    BY DEF Holds, Op
  <2>2. QED
    BY <2>1 DEF Keeps, Local, RowsLocal
<1>2. q.pc # "done" /\ ~q.alone => q.name \in tainted'
  BY DEF Keeps, Local, TaintLocal, Holds
<1>3. QED
  BY <1>1, <1>2 DEF Keeps

(* Whether it was alone is no part of what a handler keeps or knows.        *)
LEMMA AloneIsAside ==
  ASSUME NEW q \in Op, NEW b \in BOOLEAN, q.pc = "done" => b = q.alone
  PROVE  /\ /\ Keeps(q)'
            /\ q.pc # "done" /\ ~b => q.name \in tainted'
            => Keeps([q EXCEPT !.alone = b])'
         /\ Knows(q)' => Knows([q EXCEPT !.alone = b])'
<1> DEFINE r == [q EXCEPT !.alone = b]
<1>1. /\ r.kind = q.kind /\ r.pc = q.pc /\ r.row = q.row /\ r.name = q.name
      /\ r.version = q.version /\ r.old = q.old /\ r.todo = q.todo
      /\ r.failed = q.failed /\ r.alone = b
  BY DEF Op
<1>2. b = q.alone => r = q
  BY DEF Op
<1> HIDE DEF r
<1>3. /\ Keeps(q)'
      /\ q.pc # "done" /\ ~b => q.name \in tainted'
      => Keeps(r)'
  BY <1>1, <1>2 DEF Keeps
<1>4. Knows(q)' => Knows(r)'
  BY <1>1 DEF Knows, Untried, Inserted
<1>5. QED
  BY <1>3, <1>4 DEF r

(* A handler goes on, or answers: it is enough that it keeps what it has,   *)
(* that it knows what it knows if it is alone, and that it leaves the name  *)
(* in agreement if it answers alone and well.  The requests on a name that  *)
(* it takes an object from are no longer alone.                             *)
LEMMA AfterRobbing ==
  ASSUME IInv, Sync, NEW c \in Client, NEW n \in Name, NEW q \in Op,
         NEW R \in SUBSET (Name \ {n}),
         op[c].pc # "done", op[c].name = n,
         op'[c] = q,
         \A d \in Client \ {c} :
           op'[d] = [op[d] EXCEPT !.alone = op[d].alone /\ op[d].name \notin R],
         q = Idle \/ (q.pc # "done" /\ q.name = n /\ q.alone = op[c].alone),
         Local(n, R), OneRow', Keeps(q)',
         q.pc # "done" /\ q.alone => Knows(q)',
         ~op[c].alone /\ n \in tainted => n \in tainted',
         q = Idle /\ op[c].alone /\ Clean(n)' => Agree(n)'
  PROVE  Sync'
<1>1. \A d \in Client \ {c} : \E b \in BOOLEAN :
        /\ op'[d] = [op[d] EXCEPT !.alone = b]
        /\ b <=> op[d].alone /\ op[d].name \notin R
  <2> SUFFICES ASSUME NEW d \in Client \ {c}
               PROVE  \E b \in BOOLEAN :
                        /\ op'[d] = [op[d] EXCEPT !.alone = b]
                        /\ b <=> op[d].alone /\ op[d].name \notin R
    OBVIOUS
  <2>1. (op[d].alone /\ op[d].name \notin R) \in BOOLEAN
    OBVIOUS
  <2>2. QED
    BY <2>1, Zenon
<1>2. \A d \in Client \ {c} :
        /\ op'[d].pc = op[d].pc /\ op'[d].name = op[d].name
        /\ op'[d].alone <=> op[d].alone /\ op[d].name \notin R
  <2> SUFFICES ASSUME NEW d \in Client \ {c}
               PROVE  /\ op'[d].pc = op[d].pc /\ op'[d].name = op[d].name
                      /\ op'[d].alone <=> op[d].alone /\ op[d].name \notin R
    OBVIOUS
  <2>1. PICK b \in BOOLEAN : /\ op'[d] = [op[d] EXCEPT !.alone = b]
                             /\ b <=> op[d].alone /\ op[d].name \notin R
    BY <1>1
  <2>2. op[d] \in Op
    BY DEF IInv, TypeOK
  <2>3. QED
    BY <2>1, <2>2 DEF Op
<1>3. \A d \in Client : d # c /\ op[d].name = n => ~op[c].alone
  BY DEF Sync, Solitary
<1>4. Idle.pc = "done" /\ Idle.name = None /\ Idle.alone = TRUE /\ None \notin Name
  BY NoneIsNull DEF Idle
<1>5. AllKeep'
  <2> SUFFICES ASSUME NEW d \in Client PROVE Keeps(op[d])'
    BY DEF AllKeep
  <2>1. CASE d = c
    BY <2>1
  <2>2. CASE d # c
    <3>1. PICK r \in Op : r = op[d]
      BY DEF IInv, TypeOK
    <3>2. PICK b \in BOOLEAN : /\ op'[d] = [r EXCEPT !.alone = b]
                               /\ b <=> r.alone /\ r.name \notin R
      BY <1>1, <2>2, <3>1
    <3>3. Keeps(r) /\ Holds(r, vstatus)
      BY <3>1 DEF Sync, AllKeep, IInv, HandlersHold
    <3>4. n \in tainted => n \in tainted' \/ r.name # n
      BY <1>3, <2>2, <3>1
    <3>5. Keeps(r)'
      BY <3>3, <3>4, StillKept
    <3>6. r.pc # "done" /\ ~b => r.name \in tainted'
      BY <3>2, <3>5 DEF Keeps, Local, TaintLocal
    <3>7. r.pc = "done" => b = r.alone
      BY <1>4, <3>2, <3>3 DEF Keeps
    <3>8. Keeps([r EXCEPT !.alone = b])'
      BY <3>5, <3>6, <3>7, AloneIsAside
    <3>9. QED
      BY <3>2, <3>8
  <2>3. QED
    BY <2>1, <2>2
<1>6. Solitary'
  <2> SUFFICES ASSUME NEW a \in Client, NEW b \in Client, a # b,
                      op'[a].pc # "done", op'[a].alone
               PROVE  op'[b].name # op'[a].name
    BY DEF Solitary
  <2>1. op[a].pc # "done" /\ op[a].alone /\ op'[a].name = op[a].name
    <3>1. CASE a = c
      BY <1>4, <3>1
    <3>2. CASE a # c
      BY <1>2, <3>2
    <3>3. QED
      BY <3>1, <3>2
  <2>2. op[b].name # op[a].name /\ op[a].name \in Name
    BY <2>1 DEF Sync, Solitary, IInv, HandlersHold, Holds
  <2>3. op'[b].name \in {op[b].name, None}
    BY <1>2, <1>4
  <2>4. QED
    BY <1>4, <2>1, <2>2, <2>3
<1>7. AllKnow'
  <2> SUFFICES ASSUME NEW d \in Client, op'[d].pc # "done", op'[d].alone
               PROVE  Knows(op[d])'
    BY DEF AllKnow
  <2>1. CASE d = c
    BY <2>1
  <2>2. CASE d # c
    <3>1. PICK r \in Op : r = op[d]
      BY DEF IInv, TypeOK
    <3>2. PICK b \in BOOLEAN : op'[d] = [r EXCEPT !.alone = b]
      BY <1>1, <2>2, <3>1
    <3>3. r.pc # "done" /\ r.alone /\ r.name \notin R
      BY <1>2, <2>2, <3>1
    <3>4. Keeps(r) /\ Knows(r) /\ Holds(r, vstatus)
      BY <3>1, <3>3 DEF Sync, AllKeep, AllKnow, IInv, HandlersHold
    <3>5. r.name \in Name /\ r.name # n
      BY <2>2, <3>1, <3>3, <3>4 DEF Sync, Solitary, Holds
    <3>6. Knows(r)'
      BY <3>3, <3>4, <3>5, ElsewhereKnown
    <3>7. Knows([r EXCEPT !.alone = b])'
      BY <3>3, <3>6, AloneIsAside
    <3>8. QED
      BY <3>2, <3>7
  <2>3. QED
    BY <2>1, <2>2
<1>8. Settled'
  <2> SUFFICES ASSUME NEW m \in Name, ~InFlight(m)', Clean(m)' PROVE Agree(m)'
    BY DEF Settled
  <2>1. CASE m = n
    <3>1. q = Idle
      BY <2>1 DEF InFlight
    <3>2. op[c].alone
      BY <2>1 DEF Clean, Sync, AllKeep, Keeps
    <3>3. QED
      BY <2>1, <3>1, <3>2
  <2>2. CASE m # n
    <3>1. ~InFlight(m)
      <4>1. \A d \in Client : op'[d].name # m
        BY DEF InFlight
      <4>2. QED
        BY <1>2, <2>2, <4>1 DEF InFlight
    <3>2. m \notin R
      BY <2>2 DEF Clean, Local, TaintLocal
    <3>3. Clean(m) /\ Agree(m)
      BY <2>2, <3>1, <3>2, Elsewhere DEF Sync, Settled
    <3>4. QED
      BY <2>2, <3>2, <3>3, ElsewhereAgrees
  <2>3. QED
    BY <2>1, <2>2
<1>9. QED
  BY <1>5, <1>6, <1>7, <1>8 DEF Sync

(* A handler that takes no object from another release.                     *)
LEMMA After ==
  ASSUME IInv, Sync, NEW c \in Client, NEW n \in Name, NEW q \in Op,
         op[c].pc # "done", op[c].name = n, op' = [op EXCEPT ![c] = q],
         q = Idle \/ (q.pc # "done" /\ q.name = n /\ q.alone = op[c].alone),
         Local(n, {}), OneRow', Keeps(q)',
         q.pc # "done" /\ q.alone => Knows(q)',
         ~op[c].alone /\ n \in tainted => n \in tainted',
         q = Idle /\ op[c].alone /\ Clean(n)' => Agree(n)'
  PROVE  Sync'
<1>1. op'[c] = q /\ \A d \in Client : d # c => op'[d] = op[d]
  BY DEF IInv, TypeOK
<1>2. ASSUME NEW d \in Client \ {c}
      PROVE  op'[d] = [op[d] EXCEPT !.alone = op[d].alone /\ op[d].name \notin {}]
  <2>1. PICK r \in Op : r = op[d]
    BY DEF IInv, TypeOK
  <2>2. r = [r EXCEPT !.alone = r.alone]
    BY DEF Op
  <2>3. r.alone \in BOOLEAN
    BY DEF Op
  <2>4. (r.alone /\ r.name \notin {}) = r.alone
    BY <2>3
  <2>5. r = [r EXCEPT !.alone = r.alone /\ r.name \notin {}]
    BY <2>2, <2>4, Zenon
  <2>6. QED
    BY <1>1, <2>1, <2>5, Zenon
<1>3. {} \in SUBSET (Name \ {n})
  OBVIOUS
<1>4. QED
  BY <1>1, <1>2, <1>3, AfterRobbing

(* What nothing changed is known as before.                                 *)
LEMMA SameRows ==
  ASSUME NEW n, UNCHANGED <<rows, cluster>>
  PROVE  /\ Agree(n)' <=> Agree(n)
         /\ Untouched(n)' <=> Untouched(n)
<1>1. Untouched(n)' <=> Untouched(n)
  BY DEF Untouched
<1>2. \A i \in RowId :
        (LiveRow(i, n)' <=> LiveRow(i, n)) /\ (Deployed(i)' <=> Deployed(i))
  BY DEF LiveRow, Deployed
<1>3. NameTaken(n)' <=> NameTaken(n)
  BY <1>2 DEF NameTaken
<1>4. QED
  BY <1>1, <1>2, <1>3 DEF Agree

LEMMA SameKnowledge ==
  ASSUME NEW q, UNCHANGED <<rows, cluster, tainted>>, Knows(q)
  PROVE  Knows(q)'
<1>1. \A todo, n, v : AppliedBut(todo, n, v)' <=> AppliedBut(todo, n, v)
  BY DEF AppliedBut
<1>2. \A todo, n : SweptBut(todo, n)' <=> SweptBut(todo, n)
  BY DEF SweptBut
<1>3. \A n : Clean(n)' <=> Clean(n)
  BY DEF Clean
<1>4. QED
  BY <1>1, <1>2, <1>3, SameRows DEF Knows, Untried, Inserted

(* A request starts.                                                        *)
LEMMA Starts ==
  ASSUME IInv, Sync, NEW c \in Client, NEW h \in Op, Start(c, h),
         h.name \in Name, h.pc # "done", h.alone, Holds(h, vstatus), Keeps(h),
         ~InFlight(h.name) => Knows(h)
  PROVE  Sync'
<1> DEFINE n == h.name
<1>1. UNCHANGED <<rows, cluster>> /\ op[c] = Idle
  BY DEF Start
<1>2. /\ InFlight(n) => tainted' = tainted \cup {n}
      /\ ~InFlight(n) => tainted' = tainted
  BY DEF Start
<1>3. Local(n, {}) /\ OneRow'
  <2>1. RowsLocal(n) /\ ClusterLocal(n, {})
    BY <1>1 DEF RowsLocal, ClusterLocal
  <2>2. TaintLocal(n, {})
    BY <1>2 DEF TaintLocal
  <2>3. OneRow'
    BY <1>1 DEF Sync, OneRow, LiveRow
  <2>4. QED
    BY <2>1, <2>2, <2>3 DEF Local
<1>4. \A d \in Client : \E b \in BOOLEAN :
        /\ op'[d] = [IF d = c THEN h ELSE op[d] EXCEPT !.alone = b]
        /\ b <=> IF d = c THEN ~InFlight(n) ELSE op[d].alone /\ op[d].name # n
  <2> SUFFICES ASSUME NEW d \in Client
               PROVE  \E b \in BOOLEAN :
                 /\ op'[d] = [IF d = c THEN h ELSE op[d] EXCEPT !.alone = b]
                 /\ b <=> IF d = c THEN ~InFlight(n) ELSE op[d].alone /\ op[d].name # n
    OBVIOUS
  <2>1. op'[d] = IF d = c THEN [h EXCEPT !.alone = ~InFlight(n)]
           ELSE [op[d] EXCEPT !.alone = op[d].alone /\ op[d].name # n]
    BY Zenon DEF Start
  <2>2. (~InFlight(n)) \in BOOLEAN /\ (op[d].alone /\ op[d].name # n) \in BOOLEAN
    OBVIOUS
  <2>3. CASE d = c
    BY <2>1, <2>2, <2>3, Zenon
  <2>4. CASE d # c
    BY <2>1, <2>2, <2>4, Zenon
  <2>5. QED
    BY <2>3, <2>4
<1>5. \A d \in Client : d # c => op[d] \in Op /\ Holds(op[d], vstatus) /\ Keeps(op[d])
  BY DEF IInv, TypeOK, HandlersHold, Sync, AllKeep
<1>6. \A d \in Client : op[d].name = n => InFlight(n)
  BY DEF InFlight
<1>7. \A d \in Client :
        /\ op'[d].pc = (IF d = c THEN h ELSE op[d]).pc
        /\ op'[d].name = (IF d = c THEN h ELSE op[d]).name
        /\ op'[d].alone <=> IF d = c THEN ~InFlight(n) ELSE op[d].alone /\ op[d].name # n
  <2> SUFFICES ASSUME NEW d \in Client
               PROVE  /\ op'[d].pc = (IF d = c THEN h ELSE op[d]).pc
                      /\ op'[d].name = (IF d = c THEN h ELSE op[d]).name
                      /\ op'[d].alone <=> IF d = c THEN ~InFlight(n)
                                          ELSE op[d].alone /\ op[d].name # n
    OBVIOUS
  <2>1. PICK b \in BOOLEAN :
          /\ op'[d] = [IF d = c THEN h ELSE op[d] EXCEPT !.alone = b]
          /\ b <=> IF d = c THEN ~InFlight(n) ELSE op[d].alone /\ op[d].name # n
    BY <1>4
  <2>2. (IF d = c THEN h ELSE op[d]) \in Op
    BY <1>5
  <2>3. QED
    BY <2>1, <2>2 DEF Op
<1>8. AllKeep'
  <2> SUFFICES ASSUME NEW d \in Client PROVE Keeps(op[d])'
    BY DEF AllKeep
  <2>1. PICK b \in BOOLEAN :
          /\ op'[d] = [IF d = c THEN h ELSE op[d] EXCEPT !.alone = b]
          /\ b <=> IF d = c THEN ~InFlight(n) ELSE op[d].alone /\ op[d].name # n
    BY <1>4
  <2>2. PICK r \in Op : r = IF d = c THEN h ELSE op[d]
    BY <1>5
  <2>3. Holds(r, vstatus) /\ Keeps(r)
    BY <1>5, <2>2
  <2>4. Keeps(r)'
    BY <1>2, <1>3, <2>3, StillKept
  <2>5. r.pc # "done" /\ ~b => r.name \in tainted'
    <3>1. CASE r.name = n
      BY <1>2, <1>6, <2>1, <2>2, <3>1
    <3>2. CASE r.name # n
      BY <1>2, <2>1, <2>2, <2>3, <3>2 DEF Keeps
    <3>3. QED
      BY <3>1, <3>2
  <2>6. r.pc = "done" => b = r.alone
    <3>1. r.pc = "done" => d # c /\ r = Idle
      BY <2>2, <2>3 DEF Keeps
    <3>2. Idle.alone = TRUE /\ Idle.name # n
      BY NoneIsNull DEF Idle
    <3>3. QED
      BY <2>1, <2>2, <3>1, <3>2
  <2>7. op'[d] = [r EXCEPT !.alone = b]
    BY <2>1, <2>2
  <2>8. Keeps([r EXCEPT !.alone = b])'
    BY <2>4, <2>5, <2>6, AloneIsAside
  <2>9. QED
    BY <2>7, <2>8
<1>9. Solitary'
  <2> SUFFICES ASSUME NEW a \in Client, NEW b \in Client, a # b,
                      op'[a].pc # "done", op'[a].alone
               PROVE  op'[b].name # op'[a].name
    BY DEF Solitary
  <2>1. CASE a = c
    <3>1. ~InFlight(n) /\ op'[a].name = n /\ op'[b].name = op[b].name
      BY <1>7, <2>1
    <3>2. QED
      BY <1>6, <3>1
  <2>2. CASE b = c
    BY <1>7, <2>2
  <2>3. CASE a # c /\ b # c
    BY <1>7, <2>3 DEF Sync, Solitary
  <2>4. QED
    BY <2>1, <2>2, <2>3
<1>10. AllKnow'
  <2> SUFFICES ASSUME NEW d \in Client, op'[d].pc # "done", op'[d].alone
               PROVE  Knows(op[d])'
    BY DEF AllKnow
  <2>1. PICK b \in BOOLEAN :
          /\ op'[d] = [IF d = c THEN h ELSE op[d] EXCEPT !.alone = b]
          /\ b <=> IF d = c THEN ~InFlight(n) ELSE op[d].alone /\ op[d].name # n
    BY <1>4
  <2>2. PICK r \in Op : r = IF d = c THEN h ELSE op[d]
    BY <1>5
  <2>3. r.pc # "done" /\ Holds(r, vstatus) /\ Keeps(r)
    BY <1>5, <1>7, <2>2
  <2>4. Knows(r)'
    <3>1. CASE d = c
      <4>1. Knows(h) /\ tainted' = tainted
        BY <1>2, <1>7, <3>1
      <4>2. UNCHANGED <<rows, cluster, tainted>>
        BY <1>1, <4>1
      <4>3. Knows(h)'
        BY <4>1, <4>2, SameKnowledge
      <4>4. QED
        BY <2>2, <3>1, <4>3
    <3>2. CASE d # c
      <4>1. op[d].alone /\ op[d].name # n /\ op[d].pc # "done" /\ r = op[d]
        BY <1>7, <2>2, <3>2
      <4>2. Knows(r) /\ r.name # n /\ r.name \in Name
        BY <2>3, <4>1 DEF Sync, AllKnow, Holds
      <4>3. QED
        BY <1>3, <2>3, <4>2, ElsewhereKnown
    <3>3. QED
      BY <3>1, <3>2
  <2>5. Knows([r EXCEPT !.alone = b])'
    BY <2>3, <2>4, AloneIsAside
  <2>6. QED
    BY <2>1, <2>2, <2>5
<1>11. Settled'
  <2> SUFFICES ASSUME NEW m \in Name, ~InFlight(m)', Clean(m)' PROVE Agree(m)'
    BY DEF Settled
  <2>1. m # n /\ ~InFlight(m)
    <3>1. \A d \in Client : op'[d].name # m
      BY DEF InFlight
    <3>2. m # n
      BY <1>7, <3>1
    <3>3. \A d \in Client : op[d].name # m
      <4>1. \A d \in Client : d # c => op[d].name # m
        BY <1>7, <3>1
      <4>2. op[c].name # m
        BY <1>1, NoneIsNull DEF Idle
      <4>3. QED
        BY <4>1, <4>2
    <3>4. QED
      BY <3>2, <3>3 DEF InFlight
  <2>2. Clean(m) /\ Agree(m)
    BY <1>3, <2>1, Elsewhere DEF Sync, Settled
  <2>3. QED
    BY <1>3, <2>1, <2>2, ElsewhereAgrees
<1>12. QED
  BY <1>3, <1>8, <1>9, <1>10, <1>11 DEF Sync

(* What is still to do, one document or kind at a time.                     *)
LEMMA HasRest ==
  ASSUME NEW s \in Seq(Object), s # <<>>
  PROVE  /\ Head(s) \in Object
         /\ \A o : Has(s, o) <=> o = Head(s) \/ Has(Tail(s), o)
<1>1. Head(s) \in Object /\ Len(s) \in Nat \ {0}
  OBVIOUS
<1>2. \A o : Has(Tail(s), o) => Has(s, o)
  BY DEF Has
<1>3. Has(s, Head(s))
  BY DEF Has
<1>4. ASSUME NEW o, Has(s, o), o # Head(s) PROVE Has(Tail(s), o)
  <2>1. PICK k \in DOMAIN s : s[k] = o
    BY <1>4 DEF Has
  <2>2. k \in 2..Len(s)
    BY <1>4, <2>1
  <2>3. k - 1 \in DOMAIN Tail(s) /\ Tail(s)[k - 1] = o
    BY <2>1, <2>2
  <2>4. QED
    BY <2>3 DEF Has
<1>5. QED
  BY <1>1, <1>2, <1>3, <1>4

LEMMA HasNothing == \A o : ~Has(<<>>, o)
BY DEF Has

LEMMA PatchApplies ==
  ASSUME IInv, NEW todo \in Seq(Object), todo # <<>>, NEW n \in Name, NEW v \in Version,
         cluster' = [cluster EXCEPT ![Head(todo)] = [release |-> n, version |-> v]],
         AppliedBut(todo, n, v)
  PROVE  AppliedBut(Tail(todo), n, v)'
<1> SUFFICES ASSUME NEW k \in DOMAIN Docs[n][v], NEW o, o = Docs[n][v][k],
                    ~Has(Tail(todo), o)
             PROVE  cluster'[o].release = n /\ cluster'[o].version = v
  BY DEF AppliedBut
<1>1. o \in Object
  BY DocsAreObjects
<1>2. CASE o = Head(todo)
  BY <1>1, <1>2 DEF IInv, TypeOK
<1>3. CASE o # Head(todo)
  BY <1>1, <1>3, HasRest DEF IInv, TypeOK, AppliedBut
<1>4. QED
  BY <1>2, <1>3

(* Apply changes one object, and what another release loses by it is what   *)
(* Robbed says; a sweep deletes only what carries the label of its name.    *)
LEMMA PatchIsLocal ==
  ASSUME IInv, Sync, NEW c \in Client, Applying(c), UNCHANGED rows,
         NEW todo, NEW failed, Patch(c, todo, failed)
  PROVE  Local(op[c].name, Robbed(op[c]))
<1> DEFINE n == op[c].name
           o == Head(op[c].todo)
<1>1. o \in Object
  <2>1. op[c].todo \in Seq(Object) /\ op[c].todo # <<>>
    BY DEF Applying, IInv, TypeOK, Op
  <2>2. QED
    BY <2>1
<1>2. /\ cluster'[o].release = n
      /\ \A p \in Object : p # o => cluster'[p] = cluster[p]
  BY <1>1 DEF Patch, IInv, TypeOK
<1>3. \A m \in Name \ Robbed(op[c]) : m # n => cluster[o].release # m
  BY DEF Robbed
<1>4. ClusterLocal(n, Robbed(op[c]))
  BY <1>2, <1>3 DEF ClusterLocal
<1>5. TaintLocal(n, Robbed(op[c])) /\ RowsLocal(n)
  BY DEF Patch, TaintLocal, RowsLocal
<1>6. QED
  BY <1>4, <1>5 DEF Local

LEMMA DeleteIsLocal ==
  ASSUME IInv, NEW c \in Client, Sweeping(c),
         DeleteCollection(op[c]) \/ UNCHANGED cluster
  PROVE  ClusterLocal(op[c].name, {})
<1>1. CASE UNCHANGED cluster
  BY <1>1 DEF ClusterLocal
<1>2. CASE ~UNCHANGED cluster
  <2>1. PICK o : /\ cluster[o].release = op[c].name
                 /\ cluster' = [cluster EXCEPT ![o] = NoObject]
    BY <1>2 DEF DeleteCollection, Selected
  <2>2. \A p \in Object : cluster'[p] = cluster[p] \/ (p = o /\ cluster'[p] = NoObject)
    BY <2>1 DEF IInv, TypeOK
  <2>3. QED
    BY <2>1, <2>2, NoneIsNull DEF ClusterLocal, NoObject
<1>3. QED
  BY <1>1, <1>2

LEMMA RowsAreLocal ==
  ASSUME IInv, Sync, NEW c \in Client, op[c].pc # "done",
         \/ \E i \in RowId : InsertRow(c, i)
         \/ op[c].pc = "commit" /\ SetVersion(c)
         \/ RemoveRow(c)
         \/ UNCHANGED rows
  PROVE  RowsLocal(op[c].name) /\ OneRow'
<1> USE DEF IInv, TypeOK, Row
<1>1. Keeps(op[c]) /\ Holds(op[c], vstatus) /\ op[c] \in Op
  BY DEF Sync, AllKeep, HandlersHold
<1>2. ASSUME NEW i \in RowId, InsertRow(c, i)
      PROVE  RowsLocal(op[c].name) /\ OneRow'
  <2>1. rows'[i].state = "live" /\ rows'[i].name = op[c].name /\ rows[i].state = "unborn"
    BY <1>2 DEF InsertRow
  <2>2. \A j \in RowId : j # i => rows'[j] = rows[j]
    BY <1>2 DEF InsertRow
  <2>3. \A j \in RowId : ~LiveRow(j, op[c].name)
    BY <1>2 DEF InsertRow, NameTaken
  <2>4. RowsLocal(op[c].name)
    BY <2>1, <2>2 DEF RowsLocal
  <2>5. OneRow'
    BY <2>1, <2>2, <2>3 DEF Sync, OneRow, LiveRow
  <2>6. QED
    BY <2>4, <2>5
<1>3. ASSUME NEW i \in RowId, i = op[c].row, rows[i].name = op[c].name,
             rows[i].state \in {"live", "gone"},
             rows'[i].name = rows[i].name, rows'[i].state \in {rows[i].state, "gone"},
             \A j \in RowId : j # i => rows'[j] = rows[j]
      PROVE  RowsLocal(op[c].name) /\ OneRow'
  <2>1. RowsLocal(op[c].name)
    BY <1>3 DEF RowsLocal
  <2>2. \A j \in RowId, n \in Name : LiveRow(j, n)' => LiveRow(j, n)
    BY <1>3 DEF LiveRow
  <2>3. QED
    BY <2>1, <2>2 DEF Sync, OneRow
<1>4. CASE op[c].pc = "commit" /\ SetVersion(c)
  <2>1. /\ op[c].row \in RowId /\ rows[op[c].row].name = op[c].name
        /\ rows[op[c].row].state \in {"live", "gone"}
    BY <1>1, <1>4 DEF Holds, Keeps
  <2>2. /\ rows'[op[c].row].name = rows[op[c].row].name
        /\ rows'[op[c].row].state = rows[op[c].row].state
        /\ \A j \in RowId : j # op[c].row => rows'[j] = rows[j]
    BY <1>4, <2>1 DEF SetVersion
  <2>3. QED
    BY <1>3, <2>1, <2>2
<1>5. CASE RemoveRow(c)
  <2>1. /\ op[c].row \in RowId /\ rows[op[c].row].name = op[c].name
        /\ rows[op[c].row].state \in {"live", "gone"}
    BY <1>1, <1>5 DEF RemoveRow, Holds, Keeps, Op
  <2>2. rows' = [rows EXCEPT ![op[c].row].state = "gone"]
    BY <1>5 DEF RemoveRow
  <2>3. /\ rows'[op[c].row].name = rows[op[c].row].name
        /\ rows'[op[c].row].state = "gone"
        /\ \A j \in RowId : j # op[c].row => rows'[j] = rows[j]
    BY <2>1, <2>2
  <2>4. QED
    BY <1>3, <2>1, <2>3
<1>6. CASE UNCHANGED rows
  BY <1>6 DEF RowsLocal, Sync, OneRow, LiveRow
<1>7. QED
  BY <1>2, <1>4, <1>5, <1>6

(* The handler as Move leaves it.                                           *)
Like(r, q, pc, todo, failed) ==
  /\ q.pc = pc /\ q.todo = todo /\ q.failed = failed
  /\ q.kind = r.kind /\ q.row = r.row /\ q.name = r.name
  /\ q.version = r.version /\ q.old = r.old /\ q.alone = r.alone

LEMMA Moved ==
  ASSUME IInv, NEW c \in Client, NEW pc, NEW todo \in Seq(Object),
         NEW failed \in BOOLEAN, Move(c, pc, todo, failed),
         pc \in {"apply", "sweep", "drop", "unwind", "commit", "restore"}
  PROVE  \E q \in Op : op' = [op EXCEPT ![c] = q] /\ Like(op[c], q, pc, todo, failed)
<1>1. PICK r \in Op : r = op[c]
  BY DEF IInv, TypeOK
<1> DEFINE q == [r EXCEPT !.pc = pc, !.todo = todo, !.failed = failed]
<1>2. q \in Op
  BY DEF Op
<1>3. Like(r, q, pc, todo, failed)
  BY DEF Op, Like
<1>4. op' = [op EXCEPT ![c] = q]
  BY <1>1 DEF Move, Op, IInv, TypeOK
<1> HIDE DEF q
<1>5. QED
  BY <1>1, <1>2, <1>3, <1>4

(* It goes on to its next call.                                             *)
LEMMA Onward ==
  ASSUME IInv, Sync, NEW c \in Client, NEW pc, NEW todo \in Seq(Object),
         NEW failed \in BOOLEAN, Move(c, pc, todo, failed),
         op[c].pc \notin {"done", "insert"},
         pc \in {"apply", "sweep", "drop", "unwind", "commit", "restore"},
         RowsLocal(op[c].name), ClusterLocal(op[c].name, {}), OneRow',
         UNCHANGED tainted,
         pc = "commit" => ~failed,
         pc \in {"commit", "drop"} => todo = <<>>,
         \A q \in Op : Like(op[c], q, pc, todo, failed) /\ q.alone => Knows(q)'
  PROVE  Sync'
<1>1. PICK q \in Op : op' = [op EXCEPT ![c] = q] /\ Like(op[c], q, pc, todo, failed)
  BY Moved
<1>2. PICK n \in Name : n = op[c].name
  BY DEF IInv, HandlersHold, Holds
<1>3. op[c] \in Op /\ Holds(op[c], vstatus) /\ Keeps(op[c])
  BY DEF IInv, TypeOK, HandlersHold, Sync, AllKeep
<1>4. q.pc # "done" /\ q.name = n /\ q.alone = op[c].alone
  BY <1>1, <1>2 DEF Like
<1>5. Keeps(q)'
  <2>1. rows'[q.row].name = q.name /\ rows'[q.row].state \in {"live", "gone"}
    <3>1. op[c].row \in RowId
      BY <1>3 DEF Holds, Op
    <3>2. QED
      BY <1>1, <1>3, <3>1 DEF RowsLocal, Keeps, Like
  <2>2. ~q.alone => q.name \in tainted'
    BY <1>1, <1>3 DEF Like, Keeps
  <2>3. (q.pc = "commit" => ~q.failed) /\ (q.pc \in {"commit", "drop"} => q.todo = <<>>)
    BY <1>1 DEF Like
  <2>4. QED
    BY <1>4, <2>1, <2>2, <2>3 DEF Keeps
<1>6. Local(n, {})
  BY <1>2 DEF Local, TaintLocal
<1>7. q.pc # "done" /\ q.alone => Knows(q)'
  BY <1>1
<1>8. q # Idle
  BY <1>4 DEF Idle
<1>9. QED
  BY <1>1, <1>2, <1>4, <1>5, <1>6, <1>7, <1>8, After

(* It answers.                                                              *)
LEMMA Answers ==
  ASSUME IInv, Sync, NEW c \in Client,
         NEW outcome \in {"ok", "void", "fault"}, Finish(c, outcome),
         op[c].pc # "done", NEW n \in Name, op[c].name = n,
         RowsLocal(n), ClusterLocal(n, {}), OneRow',
         op[c].alone /\ outcome = "ok" => Agree(n)',
         op[c].alone /\ outcome = "void" /\ Clean(n) => Agree(n)'
  PROVE  Sync'
<1>1. op' = [op EXCEPT ![c] = Idle]
  BY DEF Finish
<1>2. tainted' = CASE outcome = "fault" -> tainted \cup {n}
                   [] outcome = "ok" /\ op[c].alone -> tainted \ {n}
                   [] OTHER -> tainted
  BY Zenon DEF Finish
<1>3. /\ outcome = "fault" => tainted' = tainted \cup {n}
      /\ outcome = "ok" /\ op[c].alone => tainted' = tainted \ {n}
      /\ outcome = "void" \/ (outcome = "ok" /\ ~op[c].alone) => tainted' = tainted
  BY <1>2
<1>4. TaintLocal(n, {})
  BY <1>3 DEF TaintLocal
<1>5. ~op[c].alone /\ n \in tainted => n \in tainted'
  BY <1>3
<1>6. op[c].alone /\ Clean(n)' => Agree(n)'
  <2>1. outcome = "fault" => ~Clean(n)'
    BY <1>3 DEF Clean
  <2>2. outcome = "void" /\ Clean(n)' => Clean(n)
    BY <1>3 DEF Clean
  <2>3. QED
    BY <2>1, <2>2
<1>7. Keeps(Idle)' /\ Idle.pc = "done"
  BY DEF Keeps, Idle
<1>8. Local(n, {})
  BY <1>4 DEF Local
<1>9. Idle \in Op
  BY IdleIsOp
<1>10. QED
  BY <1>1, <1>5, <1>6, <1>7, <1>8, <1>9, After

(* What a request in flight stands on.                                      *)
LEMMA Standing ==
  ASSUME IInv, Sync, NEW c \in Client, op[c].pc # "done"
  PROVE  /\ op[c] \in Op /\ op[c].name \in Name
         /\ Holds(op[c], vstatus) /\ Keeps(op[c])
         /\ op[c].alone => Knows(op[c])
BY DEF IInv, TypeOK, HandlersHold, Sync, AllKeep, AllKnow, Holds

-----------------------------------------------------------------------------
(* The four requests start.                                                 *)
LEMMA SyncStarts ==
  ASSUME IInv, Sync, NEW c \in Client,
         \/ \E n \in Name, v \in Version : StartCreate(c, n, v)
         \/ \E i \in RowId, v \in Version : StartUpdate(c, i, v)
         \/ \E i \in RowId : StartDelete(c, i) \/ StartForceDelete(c, i)
  PROVE  Sync'
<1>1. ASSUME NEW n \in Name, NEW v \in Version, StartCreate(c, n, v) PROVE Sync'
  <2> DEFINE h == [Idle EXCEPT !.kind = "create", !.pc = "insert",
                               !.name = n, !.version = v]
  <2>1. /\ h.kind = "create" /\ h.pc = "insert" /\ h.name = n /\ h.alone
        /\ h \in Op
    <3>1. h.kind = "create" /\ h.pc = "insert" /\ h.name = n /\ h.alone
      BY DEF Idle
    <3>2. h \in Op
      BY IdleIsOp DEF Op
    <3>3. QED
      BY <3>1, <3>2
  <2>2. Start(c, h) /\ Retained(v, vstatus) /\ h.version = v
    BY <1>1 DEF StartCreate, Deployable, Retained, Idle
  <2> HIDE DEF h
  <2>3. Holds(h, vstatus) /\ Keeps(h)
    BY <2>1, <2>2 DEF Holds, Keeps
  <2>4. ~InFlight(h.name) => Knows(h)
    BY <2>1 DEF Knows, Untried, Inserted, Sync, Settled
  <2>5. QED
    BY <2>1, <2>2, <2>3, <2>4, Starts
<1>2. ASSUME NEW i \in RowId, NEW v \in Version, StartUpdate(c, i, v) PROVE Sync'
  <2> DEFINE h == [Idle EXCEPT !.kind = "update", !.pc = "connect", !.row = i,
                               !.name = rows[i].name, !.version = v,
                               !.old = rows[i].version]
  <2>1. rows[i].name \in Name /\ rows[i].version \in Version /\ rows[i].state = "live"
    BY <1>2 DEF StartUpdate, IInv, RowsHold, Retained
  <2>2. /\ h.kind = "update" /\ h.pc = "connect" /\ h.name = rows[i].name /\ h.alone
        /\ h.row = i /\ h.old = rows[i].version /\ h.version = v /\ h \in Op
    <3>1. /\ h.kind = "update" /\ h.pc = "connect" /\ h.name = rows[i].name /\ h.alone
          /\ h.row = i /\ h.old = rows[i].version /\ h.version = v
      BY DEF Idle
    <3>2. h \in Op
      BY <2>1, IdleIsOp DEF Op
    <3>3. QED
      BY <3>1, <3>2
  <2>3. Start(c, h) /\ Retained(v, vstatus)
    BY <1>2 DEF StartUpdate, Deployable, Retained
  <2> HIDE DEF h
  <2>4. Holds(h, vstatus) /\ Keeps(h)
    BY <2>1, <2>2, <2>3 DEF Holds, Keeps
  <2>5. ~InFlight(h.name) => Knows(h)
    BY <2>1, <2>2 DEF Knows, Untried, Inserted, Sync, Settled
  <2>6. QED
    BY <2>1, <2>2, <2>3, <2>4, <2>5, Starts
<1>3. ASSUME NEW i \in RowId, StartDelete(c, i) PROVE Sync'
  <2> DEFINE h == [Idle EXCEPT !.kind = "delete", !.pc = "connect", !.row = i,
                               !.name = rows[i].name]
  <2>1. rows[i].name \in Name /\ rows[i].state = "live" /\ Start(c, h)
    BY <1>3 DEF StartDelete, IInv, RowsHold
  <2>2. /\ h.kind = "delete" /\ h.pc = "connect" /\ h.name = rows[i].name /\ h.alone
        /\ h.row = i /\ h \in Op
    <3>1. /\ h.kind = "delete" /\ h.pc = "connect" /\ h.name = rows[i].name /\ h.alone
          /\ h.row = i
      BY DEF Idle
    <3>2. h \in Op
      BY <2>1, IdleIsOp DEF Op
    <3>3. QED
      BY <3>1, <3>2
  <2> HIDE DEF h
  <2>3. Holds(h, vstatus) /\ Keeps(h)
    BY <2>1, <2>2 DEF Holds, Keeps
  <2>4. ~InFlight(h.name) => Knows(h)
    BY <2>1, <2>2 DEF Knows, Untried, Inserted, Sync, Settled
  <2>5. QED
    BY <2>1, <2>2, <2>3, <2>4, Starts
<1>4. ASSUME NEW i \in RowId, StartForceDelete(c, i) PROVE Sync'
  <2> DEFINE h == [Idle EXCEPT !.kind = "delete", !.pc = "drop", !.row = i,
                               !.name = rows[i].name, !.failed = TRUE]
  <2>1. rows[i].name \in Name /\ rows[i].state = "live" /\ Start(c, h)
    BY <1>4 DEF StartForceDelete, IInv, RowsHold
  <2>2. /\ h.kind = "delete" /\ h.pc = "drop" /\ h.name = rows[i].name /\ h.alone
        /\ h.row = i /\ h.failed /\ h.todo = <<>> /\ h \in Op
    <3>1. /\ h.kind = "delete" /\ h.pc = "drop" /\ h.name = rows[i].name /\ h.alone
          /\ h.row = i /\ h.failed /\ h.todo = <<>>
      BY DEF Idle
    <3>2. h \in Op
      BY <2>1, IdleIsOp DEF Op
    <3>3. QED
      BY <3>1, <3>2
  <2> HIDE DEF h
  <2>3. Holds(h, vstatus) /\ Keeps(h)
    BY <2>1, <2>2 DEF Holds, Keeps
  <2>4. ~InFlight(h.name) => Knows(h)
    BY <2>1, <2>2 DEF Knows, Untried, Inserted
  <2>5. QED
    BY <2>1, <2>2, <2>3, <2>4, Starts
<1>5. QED
  BY <1>1, <1>2, <1>3, <1>4

(* The INSERT, and the connection: what fails here has touched nothing.     *)
LEMMA SyncInserts ==
  ASSUME IInv, Sync, NEW c \in Client,
         \/ \E i \in RowId : InsertRelease(c, i) \/ InsertAnswerLost(c, i)
         \/ InsertFails(c)
  PROVE  Sync'
<1>1. op[c].pc = "insert"
  BY DEF InsertRelease, InsertAnswerLost, InsertRow, InsertFails
<1>2. PICK r \in Op : r = op[c]
  BY <1>1, Standing
<1>3. /\ r.name \in Name /\ Holds(r, vstatus) /\ Keeps(r)
      /\ r.alone => Knows(r)
      /\ r.kind = "create"
  BY <1>1, <1>2, Standing DEF Holds
<1>4. ClusterLocal(r.name, {})
  BY DEF InsertRelease, InsertAnswerLost, InsertFails, ClusterLocal
<1>5. RowsLocal(r.name) /\ OneRow'
  BY <1>1, <1>2, RowsAreLocal DEF InsertRelease, InsertAnswerLost, InsertFails
<1>6. ASSUME NEW i \in RowId, InsertRelease(c, i) PROVE Sync'
  <2> DEFINE q == [r EXCEPT !.pc = "connect", !.row = i]
  <2>1. /\ q.pc = "connect" /\ q.row = i /\ q.kind = "create" /\ q.name = r.name
        /\ q.version = r.version /\ q.alone = r.alone /\ q \in Op
    BY <1>3 DEF Op
  <2>2. op' = [op EXCEPT ![c] = q]
    BY <1>2, <1>6 DEF InsertRelease, IInv, TypeOK
  <2> HIDE DEF q
  <2>3. /\ rows'[i].state = "live" /\ rows'[i].name = r.name
        /\ rows'[i].version = r.version
        /\ ~NameTaken(r.name) /\ UNCHANGED <<cluster, tainted>>
    BY <1>2, <1>6 DEF InsertRelease, InsertRow, IInv, TypeOK
  <2>4. Keeps(q)'
    BY <1>2, <1>1, <1>3, <2>1, <2>3 DEF Keeps
  <2>5. q.alone => Knows(q)'
    <3>1. r.alone /\ Clean(r.name) => Untouched(r.name)
      BY <1>1, <1>2, <1>3, <2>3 DEF Knows, Untried, Agree
    <3>2. (Clean(q.name)' <=> Clean(r.name)) /\ (Untouched(q.name)' <=> Untouched(r.name))
      BY <2>1, <2>3 DEF Clean, Untouched
    <3>3. QED
      BY <2>1, <2>3, <3>1, <3>2 DEF Knows, Untried, Inserted
  <2>6. Local(r.name, {})
    BY <1>4, <1>5, <2>3 DEF Local, TaintLocal
  <2>7. q # Idle
    BY <2>1 DEF Idle
  <2>8. QED
    BY <1>1, <1>2, <1>3, <1>4, <1>5, <2>1, <2>2, <2>3, <2>4, <2>5, <2>6, <2>7, After
<1>7. ASSUME NEW i \in RowId, InsertAnswerLost(c, i) PROVE Sync'
  BY <1>1, <1>2, <1>3, <1>4, <1>5, <1>7, Answers DEF InsertAnswerLost
<1>8. ASSUME InsertFails(c) PROVE Sync'
  <2>1. Finish(c, "void") /\ UNCHANGED <<rows, cluster>>
    BY <1>8 DEF InsertFails
  <2>2. r.alone /\ Clean(r.name) => Agree(r.name)
    BY <1>1, <1>2, <1>3 DEF Knows, Untried
  <2>3. Agree(r.name) => Agree(r.name)'
    BY <2>1, SameRows
  <2>4. QED
    BY <1>1, <1>2, <1>3, <1>4, <1>5, <2>1, <2>2, <2>3, Answers
<1>9. QED
  BY <1>6, <1>7, <1>8

LEMMA SyncConnects ==
  ASSUME IInv, Sync, NEW c \in Client, Connect(c) \/ ConnectFails(c)
  PROVE  Sync'
<1>1. op[c].pc = "connect" /\ UNCHANGED <<vstatus, rows, cluster>>
  BY DEF Connect, ConnectFails
<1>2. PICK r \in Op : r = op[c]
  BY <1>1, Standing
<1>3. /\ r.name \in Name /\ Holds(r, vstatus) /\ Keeps(r)
      /\ r.alone => Knows(r)
      /\ r.kind \in {"create", "update", "delete"}
  BY <1>1, <1>2, Standing DEF Holds, Op
<1>4. ClusterLocal(r.name, {}) /\ RowsLocal(r.name) /\ OneRow'
  <2>1. ClusterLocal(r.name, {})
    BY <1>1 DEF ClusterLocal
  <2>2. RowsLocal(r.name) /\ OneRow'
    BY <1>1, <1>2, RowsAreLocal
  <2>3. QED
    BY <2>1, <2>2
<1>5. CASE Connect(c) /\ r.kind = "delete"
  <2>1. Move(c, "sweep", Kinds, FALSE) /\ UNCHANGED tainted
    BY <1>2, <1>5 DEF Connect
  <2>2. SweptBut(Kinds, r.name)'
    BY SweepIsComplete DEF SweptBut, Has
  <2>3. ASSUME NEW q \in Op, Like(r, q, "sweep", Kinds, FALSE), q.alone
        PROVE  Knows(q)'
    BY <1>1, <1>2, <1>3, <1>5, <2>2, <2>3 DEF Like, Knows, Untried, Inserted
  <2>4. QED
    BY <1>1, <1>2, <1>4, <2>1, <2>3, KindsAreObjects, Onward
<1>6. CASE Connect(c) /\ r.kind # "delete"
  <2>1. PICK todo \in Seq(Object) : todo = Docs[r.name][r.version]
    <3>1. r.version \in Version
      BY <1>3, <1>6 DEF Holds, Retained
    <3>2. QED
      BY <1>3, <3>1, DocsAreDocuments
  <2>2. Move(c, "apply", todo, FALSE) /\ UNCHANGED tainted
    BY <1>2, <1>6, <2>1 DEF Connect
  <2>3. AppliedBut(todo, r.name, r.version)'
    BY <2>1 DEF AppliedBut, Has
  <2>4. ASSUME NEW q \in Op, Like(r, q, "apply", todo, FALSE), q.alone
        PROVE  Knows(q)'
    BY <1>1, <1>2, <1>3, <1>6, <2>3, <2>4 DEF Like, Knows, Untried, Inserted
  <2>5. QED
    BY <1>1, <1>2, <1>4, <2>2, <2>4, Onward
<1>7. CASE ConnectFails(c) /\ r.kind = "create"
  <2>1. Move(c, "unwind", <<>>, FALSE) /\ UNCHANGED tainted
    BY <1>2, <1>7 DEF ConnectFails
  <2>2. /\ Untouched(r.name)' <=> Untouched(r.name)
        /\ Clean(r.name)' <=> Clean(r.name)
    BY <1>1, <2>1 DEF Untouched, Clean
  <2>3. ASSUME NEW q \in Op, Like(r, q, "unwind", <<>>, FALSE), q.alone
        PROVE  Knows(q)'
    BY <1>1, <1>2, <1>3, <1>7, <2>2, <2>3 DEF Like, Knows, Untried, Inserted
  <2>4. QED
    BY <1>1, <1>2, <1>4, <2>1, <2>3, Rest, Onward
<1>8. CASE ConnectFails(c) /\ r.kind # "create"
  <2>1. Finish(c, "void")
    BY <1>2, <1>8 DEF ConnectFails
  <2>2. r.alone /\ Clean(r.name) => Agree(r.name)'
    BY <1>1, <1>2, <1>3, <1>8, SameRows DEF Knows, Untried
  <2>3. QED
    BY <1>1, <1>2, <1>3, <1>4, <2>1, <2>2, Answers
<1>9. QED
  BY <1>5, <1>6, <1>7, <1>8

(* One document is applied, and taken from the release that had it: what    *)
(* the handler knows of its own documents still holds.                      *)
LEMMA SyncPatches ==
  ASSUME IInv, Sync, NEW c \in Client, Applying(c), UNCHANGED <<vstatus, rows>>,
         NEW todo \in Seq(Object), NEW failed \in BOOLEAN, Patch(c, todo, failed),
         failed \/ (todo = Tail(op[c].todo) /\ failed = op[c].failed)
  PROVE  Sync'
<1>1. op[c].pc \in {"apply", "restore"}
  BY DEF Applying
<1>2. PICK r \in Op : r = op[c]
  BY <1>1, Standing
<1>3. /\ r.name \in Name /\ Holds(r, vstatus) /\ Keeps(r)
      /\ r.alone => Knows(r)
      /\ r.todo \in Seq(Object) /\ r.todo # <<>>
      /\ r.pc \in {"apply", "restore"}
  BY <1>1, <1>2, Standing DEF Applying, Op
<1> DEFINE q == [r EXCEPT !.todo = todo, !.failed = failed]
<1>4. q \in Op /\ Like(r, q, r.pc, todo, failed)
  BY DEF Op, Like
<1>5. op'[c] = q
  <2>1. op'[c] = [op[c] EXCEPT !.todo = todo, !.failed = failed]
    BY Zenon DEF Patch
  <2>2. QED
    BY <1>2, <2>1
<1>6. \A d \in Client \ {c} :
        op'[d] = [op[d] EXCEPT !.alone = op[d].alone /\ op[d].name \notin Robbed(r)]
  <2>1. \A d \in Client \ {c} :
          op'[d] = [op[d] EXCEPT !.alone = op[d].alone /\ op[d].name \notin Robbed(op[c])]
    BY Zenon DEF Patch
  <2>2. QED
    BY <1>2, <2>1, Zenon
<1>7. Robbed(r) \in SUBSET (Name \ {r.name}) /\ Local(r.name, Robbed(r))
  BY <1>2, PatchIsLocal DEF Robbed
<1>8. OneRow'
  BY <1>1, <1>2, RowsAreLocal
<1> HIDE DEF q
<1>9. \A n : n \in tainted => n \in tainted'
  BY DEF Patch
<1>10. Keeps(q)'
  BY <1>3, <1>4, <1>9 DEF Like, Keeps
<1>11. q.alone => Knows(q)'
  <2>1. PICK v \in Version : v = Target(r)
    BY <1>3 DEF Target, Holds, Retained
  <2>2. AppliedBut(r.todo, r.name, v) => AppliedBut(Tail(r.todo), r.name, v)'
    BY <1>2, <1>3, <2>1, PatchApplies DEF Patch
  <2>3. CASE failed
    BY <1>3, <1>4, <2>3 DEF Like, Knows, Untried, Inserted
  <2>4. CASE todo = Tail(r.todo) /\ failed = r.failed
    BY <1>3, <1>4, <2>1, <2>2, <2>4 DEF Like, Knows, Untried, Inserted, Target
  <2>5. QED
    BY <1>2, <2>3, <2>4
<1>12. q.pc # "done" /\ q.name = r.name /\ q.alone = r.alone /\ q # Idle
  BY <1>3, <1>4 DEF Like, Idle
<1>13. QED
  BY <1>1, <1>2, <1>3, <1>4, <1>5, <1>6, <1>7, <1>8, <1>9, <1>10, <1>11, <1>12,
     AfterRobbing

(* One document is applied, or is not.                                      *)
LEMMA SyncApplies ==
  ASSUME IInv, Sync, NEW c \in Client, ApplyDoc(c) \/ ApplyDocFails(c)
  PROVE  Sync'
<1>1. /\ Applying(c) /\ op[c].pc \in {"apply", "restore"} /\ UNCHANGED <<vstatus, rows>>
  BY DEF ApplyDoc, ApplyDocFails, Applying
<1>2. PICK r \in Op : r = op[c]
  BY <1>1, Standing
<1>3. /\ r.name \in Name /\ Holds(r, vstatus) /\ Keeps(r)
      /\ r.alone => Knows(r)
      /\ r.todo \in Seq(Object) /\ r.todo # <<>> /\ r.failed \in BOOLEAN
  BY <1>1, <1>2, Standing DEF Applying, Op
<1>4. Tail(r.todo) \in Seq(Object) /\ <<>> \in Seq(Object)
  BY <1>3, Rest
<1>5. CASE ApplyDoc(c)
  BY <1>1, <1>2, <1>3, <1>4, <1>5, SyncPatches DEF ApplyDoc
<1>6. CASE ApplyDocFails(c)
  <2>1. PICK rest \in {Tail(r.todo), <<>>} :
          \/ Patch(c, rest, TRUE)
          \/ Move(c, r.pc, rest, TRUE) /\ UNCHANGED <<cluster, tainted>>
    BY <1>2, <1>6 DEF ApplyDocFails
  <2>2. CASE Patch(c, rest, TRUE)
    BY <1>1, <1>2, <1>4, <2>2, SyncPatches
  <2>3. CASE Move(c, r.pc, rest, TRUE) /\ UNCHANGED <<cluster, tainted>>
    <3>1. ClusterLocal(r.name, {}) /\ RowsLocal(r.name) /\ OneRow'
      <4>1. ClusterLocal(r.name, {})
        BY <2>3 DEF ClusterLocal
      <4>2. RowsLocal(r.name) /\ OneRow'
        BY <1>1, <1>2, RowsAreLocal
      <4>3. QED
        BY <4>1, <4>2
    <3>2. ASSUME NEW q \in Op, Like(r, q, r.pc, rest, TRUE), q.alone
          PROVE  Knows(q)'
      BY <1>1, <1>2, <1>3, <3>2 DEF Like, Knows, Untried, Inserted
    <3>3. QED
      BY <1>1, <1>2, <1>4, <2>3, <3>1, <3>2, Onward
  <2>4. QED
    BY <2>1, <2>2, <2>3
<1>7. QED
  BY <1>5, <1>6

(* Everything of the one row of a name is applied.                          *)
LEMMA AppliedAgrees ==
  ASSUME OneRow', NEW n \in Name, NEW v \in Version, NEW i \in RowId,
         LiveRow(i, n)', rows'[i].version = v, AppliedBut(<<>>, n, v)'
  PROVE  Agree(n)'
<1>1. NameTaken(n)'
  BY DEF NameTaken
<1>2. Deployed(i)'
  BY HasNothing DEF Deployed, AppliedBut, LiveRow
<1>3. \A j \in RowId : LiveRow(j, n)' => j = i
  BY DEF OneRow
<1>4. QED
  BY <1>1, <1>2, <1>3 DEF Agree

(* All documents have been tried.                                           *)
LEMMA SyncApplied ==
  ASSUME IInv, Sync, NEW c \in Client,
         \/ CreateApplied(c) \/ CreateCleansUp(c)
         \/ UpdateApplied(c) \/ UpdateNotApplied(c)
  PROVE  Sync'
<1>1. /\ op[c].pc = "apply" /\ op[c].todo = <<>> /\ op[c].kind \in {"create", "update"}
      /\ UNCHANGED <<vstatus, rows, cluster>>
  BY DEF CreateApplied, CreateCleansUp, UpdateApplied, UpdateNotApplied, Applied
<1>2. PICK r \in Op : r = op[c]
  BY <1>1, Standing
<1>3. /\ r.name \in Name /\ Holds(r, vstatus) /\ Keeps(r)
      /\ r.alone => Knows(r)
  BY <1>1, <1>2, Standing
<1>4. ClusterLocal(r.name, {}) /\ RowsLocal(r.name) /\ OneRow'
  <2>1. ClusterLocal(r.name, {})
    BY <1>1 DEF ClusterLocal
  <2>2. RowsLocal(r.name) /\ OneRow'
    BY <1>1, <1>2, RowsAreLocal
  <2>3. QED
    BY <2>1, <2>2
<1>5. CASE CreateApplied(c)
  <2>1. Finish(c, "ok") /\ r.kind = "create" /\ ~r.failed
    BY <1>2, <1>5 DEF CreateApplied, Applied
  <2>2. r.row \in RowId /\ r.version \in Version
    BY <1>1, <1>2, <1>3, <2>1 DEF Holds, Retained
  <2>3. ASSUME r.alone PROVE Agree(r.name)'
    <3>1. /\ rows[r.row].state = "live" /\ rows[r.row].name = r.name
          /\ rows[r.row].version = r.version /\ AppliedBut(<<>>, r.name, r.version)
      BY <1>1, <1>2, <1>3, <2>1, <2>3 DEF Knows, Keeps
    <3>2. AppliedBut(<<>>, r.name, r.version)'
      BY <1>1, <3>1 DEF AppliedBut
    <3>3. LiveRow(r.row, r.name)' /\ rows'[r.row].version = r.version
      BY <1>1, <3>1 DEF LiveRow
    <3>4. QED
      BY <1>3, <1>4, <2>2, <3>2, <3>3, AppliedAgrees
  <2>4. QED
    BY <1>1, <1>2, <1>3, <1>4, <2>1, <2>3, Answers
<1>6. CASE CreateCleansUp(c)
  <2>1. Move(c, "sweep", Kinds, FALSE) /\ UNCHANGED tainted /\ r.kind = "create"
    BY <1>2, <1>6 DEF CreateCleansUp, Applied
  <2>2. SweptBut(Kinds, r.name)'
    BY SweepIsComplete DEF SweptBut, Has
  <2>3. ASSUME NEW q \in Op, Like(r, q, "sweep", Kinds, FALSE), q.alone
        PROVE  Knows(q)'
    BY <1>1, <1>2, <1>3, <2>1, <2>2, <2>3 DEF Like, Knows, Untried, Inserted
  <2>4. QED
    BY <1>1, <1>2, <1>4, <2>1, <2>3, KindsAreObjects, Onward
<1>7. CASE UpdateApplied(c)
  <2>1. /\ Move(c, "commit", <<>>, FALSE) /\ UNCHANGED tainted
        /\ r.kind = "update" /\ ~r.failed
    BY <1>2, <1>7 DEF UpdateApplied, Applied
  <2>2. AppliedBut(<<>>, r.name, r.version) => AppliedBut(<<>>, r.name, r.version)'
    BY <1>1 DEF AppliedBut
  <2>3. ASSUME NEW q \in Op, Like(r, q, "commit", <<>>, FALSE), q.alone
        PROVE  Knows(q)'
    BY <1>1, <1>2, <1>3, <2>1, <2>2, <2>3 DEF Like, Knows, Untried, Inserted
  <2>4. QED
    BY <1>1, <1>2, <1>4, <2>1, <2>3, Rest, Onward
<1>8. CASE UpdateNotApplied(c)
  BY <1>1, <1>2, <1>3, <1>4, <1>8, Answers DEF UpdateNotApplied
<1>9. QED
  BY <1>5, <1>6, <1>7, <1>8

(* The UPDATE of the row, and the roll-back when it failed.                 *)
LEMMA SyncCommits ==
  ASSUME IInv, Sync, NEW c \in Client,
         \/ CommitUpdate(c) \/ CommitFails(c) \/ CommitAnswerLost(c) \/ Restored(c)
  PROVE  Sync'
<1>1. /\ op[c].pc \in {"commit", "restore"} /\ UNCHANGED <<vstatus, cluster>>
      /\ (op[c].pc = "commit" /\ SetVersion(c)) \/ UNCHANGED rows
  BY DEF CommitUpdate, CommitFails, CommitAnswerLost, Restored
<1>2. PICK r \in Op : r = op[c]
  BY <1>1, Standing
<1>3. /\ r.name \in Name /\ Holds(r, vstatus) /\ Keeps(r)
      /\ r.alone => Knows(r)
      /\ r.kind = "update" /\ r.row \in RowId /\ r.version \in Version /\ r.old \in Version
      /\ rows[r.row].name = r.name /\ rows[r.row] \in Row
  BY <1>1, <1>2, Standing DEF Holds, Retained, Keeps, IInv, TypeOK
<1>4. ClusterLocal(r.name, {}) /\ RowsLocal(r.name) /\ OneRow'
  <2>1. ClusterLocal(r.name, {})
    BY <1>1 DEF ClusterLocal
  <2>2. RowsLocal(r.name) /\ OneRow'
    BY <1>1, <1>2, RowsAreLocal
  <2>3. QED
    BY <2>1, <2>2
<1>5. CASE CommitUpdate(c)
  <2>1. Finish(c, "ok") /\ SetVersion(c) /\ r.pc = "commit"
    BY <1>2, <1>5 DEF CommitUpdate
  <2>2. ASSUME r.alone PROVE Agree(r.name)'
    <3>1. rows[r.row].state = "live" /\ AppliedBut(<<>>, r.name, r.version)
      BY <1>3, <2>1, <2>2 DEF Knows, Keeps
    <3>2. AppliedBut(<<>>, r.name, r.version)'
      BY <1>1, <3>1 DEF AppliedBut
    <3>3. rows' = [rows EXCEPT ![r.row].version = r.version]
      BY <1>2, <2>1, <3>1 DEF SetVersion
    <3>4. LiveRow(r.row, r.name)' /\ rows'[r.row].version = r.version
      BY <1>3, <3>1, <3>3 DEF LiveRow, Row, IInv, TypeOK
    <3>5. QED
      BY <1>3, <1>4, <3>2, <3>4, AppliedAgrees
  <2>3. QED
    BY <1>1, <1>2, <1>3, <1>4, <2>1, <2>2, Answers
<1>6. CASE CommitFails(c) \/ CommitAnswerLost(c)
  <2>1. PICK todo \in Seq(Object) : todo = Docs[r.name][r.old]
    BY <1>3, DocsAreDocuments
  <2>2. PICK failed \in BOOLEAN :
          /\ Move(c, "restore", todo, failed) /\ UNCHANGED tainted
          /\ failed \/ UNCHANGED rows
    BY <1>2, <1>6, <2>1 DEF CommitFails, CommitAnswerLost
  <2>3. AppliedBut(todo, r.name, r.old)'
    BY <2>1 DEF AppliedBut, Has
  <2>4. r.pc = "commit"
    BY <1>2, <1>6 DEF CommitFails, CommitAnswerLost
  <2>5. /\ r.alone => rows'[r.row].state = "live"
        /\ r.alone /\ ~failed => rows'[r.row].version = r.old
    <3>1. r.alone => rows[r.row].state = "live" /\ rows[r.row].version = r.old
      BY <1>3, <2>4 DEF Knows
    <3>2. rows[r.row].state = "live" => rows'[r.row].state = "live"
      BY <1>1, <1>2, <1>3 DEF SetVersion, Row, IInv, TypeOK
    <3>3. QED
      BY <2>2, <3>1, <3>2
  <2>6. ASSUME NEW q \in Op, Like(r, q, "restore", todo, failed), q.alone
        PROVE  Knows(q)'
    BY <1>3, <2>3, <2>5, <2>6 DEF Like, Knows, Untried, Inserted
  <2>7. QED
    BY <1>1, <1>2, <1>4, <2>2, <2>6, Onward
<1>7. CASE Restored(c)
  <2>1. /\ r.pc = "restore" /\ r.todo = <<>> /\ UNCHANGED <<rows, cluster>>
        /\ Finish(c, IF r.failed THEN "fault" ELSE "ok")
    BY <1>2, <1>7 DEF Restored
  <2>2. ASSUME r.alone, ~r.failed PROVE Agree(r.name)'
    <3>1. /\ rows[r.row].state = "live" /\ rows[r.row].version = r.old
          /\ AppliedBut(<<>>, r.name, r.old)
      BY <1>3, <2>1, <2>2 DEF Knows
    <3>2. AppliedBut(<<>>, r.name, r.old)'
      BY <2>1, <3>1 DEF AppliedBut
    <3>3. LiveRow(r.row, r.name)' /\ rows'[r.row].version = r.old
      BY <1>3, <2>1, <3>1 DEF LiveRow
    <3>4. QED
      BY <1>3, <1>4, <3>2, <3>3, AppliedAgrees
  <2>3. CASE r.failed
    BY <1>1, <1>2, <1>3, <1>4, <2>1, <2>3, Answers
  <2>4. CASE ~r.failed
    BY <1>1, <1>2, <1>3, <1>4, <2>1, <2>2, <2>4, Answers
  <2>5. QED
    BY <2>3, <2>4
<1>8. QED
  BY <1>5, <1>6, <1>7

(* The sweep of a delete, or of a create that cleans up.                    *)
LEMMA SyncSweeps ==
  ASSUME IInv, Sync, NEW c \in Client,
         SweepKind(c) \/ SweepKindFails(c) \/ Swept(c)
  PROVE  Sync'
<1>1. op[c].pc = "sweep" /\ UNCHANGED <<vstatus, rows>>
  BY DEF SweepKind, SweepKindFails, Swept, Sweeping
<1>2. PICK r \in Op : r = op[c]
  BY <1>1, Standing
<1>3. /\ r.name \in Name /\ Holds(r, vstatus) /\ Keeps(r)
      /\ r.alone => Knows(r)
      /\ r.kind \in {"create", "delete", "update"} /\ r.todo \in Seq(Object)
      /\ r.failed \in BOOLEAN
  BY <1>1, <1>2, Standing DEF Holds, Op
<1>4. RowsLocal(r.name) /\ OneRow'
  BY <1>1, <1>2, RowsAreLocal
<1>5. CASE SweepKind(c) \/ SweepKindFails(c)
  <2>1. Sweeping(c) /\ r.todo # <<>> /\ UNCHANGED tainted
    BY <1>2, <1>5 DEF SweepKind, SweepKindFails, Sweeping
  <2>2. ClusterLocal(r.name, {})
    BY <1>2, <1>5, <2>1, DeleteIsLocal DEF SweepKind, SweepKindFails
  <2>3. Tail(r.todo) \in Seq(Object) /\ <<>> \in Seq(Object)
    BY <1>3, <2>1, Rest
  <2>4. CASE SweepKind(c)
    <3>1. Move(c, "sweep", Tail(r.todo), r.failed) /\ DeleteCollection(r)
      BY <1>2, <2>4 DEF SweepKind
    <3>2. SweptBut(r.todo, r.name) => SweptBut(Tail(r.todo), r.name)'
      <4> SUFFICES ASSUME SweptBut(r.todo, r.name), NEW o \in Object \ Foreign,
                          cluster'[o].release = r.name, ~Has(Tail(r.todo), o)
                   PROVE  FALSE
        BY DEF SweptBut
      <4>1. cluster'[o] = cluster[o]
        BY <1>3, <3>1, NoneIsNull DEF DeleteCollection, NoObject, IInv, TypeOK
      <4>2. o = Head(r.todo)
        BY <1>3, <2>1, <4>1, HasRest DEF SweptBut
      <4>3. cluster'[o] = NoObject
        BY <3>1, <4>1, <4>2 DEF DeleteCollection, Selected, IInv, TypeOK
      <4>4. QED
        BY <1>3, <4>3, NoneIsNull DEF NoObject
    <3>3. ASSUME NEW q \in Op, Like(r, q, "sweep", Tail(r.todo), r.failed), q.alone
          PROVE  Knows(q)'
      BY <1>1, <1>2, <1>3, <3>2, <3>3 DEF Like, Knows, Untried, Inserted
    <3>4. QED
      BY <1>1, <1>2, <1>3, <1>4, <2>1, <2>2, <2>3, <3>1, <3>3, Onward
  <2>5. CASE SweepKindFails(c)
    <3>1. PICK rest \in {Tail(r.todo), <<>>} : Move(c, "sweep", rest, TRUE)
      BY <1>2, <2>5 DEF SweepKindFails
    <3>2. ASSUME NEW q \in Op, Like(r, q, "sweep", rest, TRUE), q.alone
          PROVE  Knows(q)'
      BY <1>1, <1>2, <1>3, <3>2 DEF Like, Knows, Untried, Inserted
    <3>3. QED
      BY <1>1, <1>2, <1>4, <2>1, <2>2, <2>3, <3>1, <3>2, Onward
  <2>6. QED
    BY <1>5, <2>4, <2>5
<1>6. CASE Swept(c)
  <2>1. r.todo = <<>> /\ UNCHANGED cluster
    BY <1>2, <1>6 DEF Swept
  <2>2. ClusterLocal(r.name, {})
    BY <2>1 DEF ClusterLocal
  <2>3. CASE r.kind = "delete" /\ r.failed
    <3>1. Finish(c, "fault")
      BY <1>2, <1>6, <2>3 DEF Swept
    <3>2. QED
      BY <1>1, <1>2, <1>3, <1>4, <2>2, <3>1, Answers
  <2>4. CASE ~(r.kind = "delete" /\ r.failed)
    <3>1. Move(c, "drop", <<>>, r.failed) /\ UNCHANGED tainted
      BY <1>2, <1>6, <2>4 DEF Swept
    <3>2. SweptBut(<<>>, r.name) => SweptBut(<<>>, r.name)'
      BY <2>1 DEF SweptBut
    <3>3. ASSUME NEW q \in Op, Like(r, q, "drop", <<>>, r.failed), q.alone
          PROVE  Knows(q)'
      BY <1>1, <1>2, <1>3, <2>1, <3>2, <3>3 DEF Like, Knows, Untried, Inserted
    <3>4. QED
      BY <1>1, <1>2, <1>3, <1>4, <2>2, <3>1, <3>3, Rest, Onward
  <2>5. QED
    BY <2>3, <2>4
<1>7. QED
  BY <1>5, <1>6

(* The row goes.                                                            *)
LEMMA SyncDrops ==
  ASSUME IInv, Sync, NEW c \in Client, DropRow(c) \/ DropRowFails(c)
  PROVE  Sync'
<1>1. /\ op[c].pc \in {"drop", "unwind"} /\ UNCHANGED <<vstatus, cluster>>
      /\ RemoveRow(c) \/ UNCHANGED rows
  BY DEF DropRow, DropRowFails, RemoveRow
<1>2. PICK r \in Op : r = op[c]
  BY <1>1, Standing
<1>3. /\ r.name \in Name /\ Holds(r, vstatus) /\ Keeps(r)
      /\ r.alone => Knows(r)
      /\ r.row \in RowId /\ r.failed \in BOOLEAN
      /\ rows[r.row].name = r.name /\ rows[r.row] \in Row
  BY <1>1, <1>2, Standing DEF Holds, Keeps, Op, IInv, TypeOK
<1>4. ClusterLocal(r.name, {}) /\ RowsLocal(r.name) /\ OneRow'
  <2>1. ClusterLocal(r.name, {})
    BY <1>1 DEF ClusterLocal
  <2>2. RowsLocal(r.name) /\ OneRow'
    BY <1>1, <1>2, RowsAreLocal
  <2>3. QED
    BY <2>1, <2>2
<1>5. CASE DropRow(c)
  <2>1. PICK outcome \in {"ok", "void", "fault"} :
          /\ Finish(c, outcome)
          /\ outcome = "void" => r.pc = "unwind"
          /\ outcome = "ok" => r.pc = "drop" /\ ~r.failed
    BY <1>1, <1>2, <1>3, <1>5 DEF DropRow
  <2>2. ASSUME r.alone, Untouched(r.name) PROVE Agree(r.name)'
    <3>1. rows' = [rows EXCEPT ![r.row].state = "gone"]
      BY <1>2, <1>5 DEF DropRow, RemoveRow
    <3>2. LiveRow(r.row, r.name)
      BY <1>1, <1>2, <1>3, <2>2 DEF Knows, LiveRow
    <3>3. \A i \in RowId : LiveRow(i, r.name) => i = r.row
      BY <1>3, <3>2 DEF Sync, OneRow
    <3>4. \A i \in RowId : ~LiveRow(i, r.name)'
      BY <1>3, <3>1, <3>3 DEF LiveRow, Row, IInv, TypeOK
    <3>5. Untouched(r.name)'
      BY <1>1, <2>2 DEF Untouched
    <3>6. QED
      BY <3>4, <3>5 DEF Agree, NameTaken
  <2>3. /\ r.alone /\ outcome = "ok" => Untouched(r.name)
        /\ r.alone /\ outcome = "void" /\ Clean(r.name) => Untouched(r.name)
    <3>1. r.alone /\ outcome = "ok" => SweptBut(<<>>, r.name)
      BY <1>1, <1>2, <1>3, <2>1 DEF Knows, Keeps
    <3>2. SweptBut(<<>>, r.name) => Untouched(r.name)
      BY HasNothing DEF SweptBut, Untouched
    <3>3. r.alone /\ outcome = "void" /\ Clean(r.name) => Untouched(r.name)
      BY <1>3, <2>1 DEF Knows, Inserted
    <3>4. QED
      BY <3>1, <3>2, <3>3
  <2>4. QED
    BY <1>1, <1>2, <1>3, <1>4, <2>1, <2>2, <2>3, Answers
<1>6. CASE DropRowFails(c)
  BY <1>1, <1>2, <1>3, <1>4, <1>6, Answers DEF DropRowFails
<1>7. QED
  BY <1>5, <1>6

-----------------------------------------------------------------------------
LEMMA SyncInit == Init => Sync
<1> SUFFICES ASSUME Init PROVE Sync
  OBVIOUS
<1>1. /\ \A c \in Client : op[c] = Idle
      /\ \A o \in Object : cluster[o].release = None
      /\ \A i \in RowId : rows[i].state = "unborn"
  BY DEF Init, NoObject
<1>2. OneRow
  BY <1>1 DEF OneRow, LiveRow
<1>3. AllKeep /\ Solitary /\ AllKnow
  <2>1. Keeps(Idle) /\ Idle.pc = "done"
    BY DEF Keeps, Idle
  <2>2. QED
    BY <1>1, <2>1 DEF AllKeep, Solitary, AllKnow
<1>4. Settled
  BY <1>1, NoneIsNull DEF Settled, Agree, LiveRow, Untouched
<1>5. QED
  BY <1>2, <1>3, <1>4 DEF Sync

(* What leaves rows, objects, requests and history alone.                   *)
LEMMA SyncSame == Sync /\ UNCHANGED <<rows, cluster, op, tainted>> => Sync'
<1> SUFFICES ASSUME Sync, UNCHANGED <<rows, cluster, op, tainted>> PROVE Sync'
  OBVIOUS
<1>1. OneRow'
  BY DEF Sync, OneRow, LiveRow
<1>2. Solitary'
  BY DEF Sync, Solitary
<1>3. AllKeep'
  <2>1. \A q : Keeps(q) => Keeps(q)'
    BY DEF Keeps
  <2>2. QED
    BY <2>1 DEF Sync, AllKeep
<1>4. AllKnow'
  BY SameKnowledge DEF Sync, AllKnow
<1>5. Settled'
  <2>1. \A n \in Name : (InFlight(n)' <=> InFlight(n)) /\ (Clean(n)' <=> Clean(n))
    BY DEF InFlight, Clean
  <2>2. QED
    BY <2>1, SameRows DEF Sync, Settled
<1>6. QED
  BY <1>1, <1>2, <1>3, <1>4, <1>5 DEF Sync

(* The server dies: every name that had a request in flight is at fault.    *)
LEMMA SyncCrash == Sync /\ Crash => Sync'
<1> SUFFICES ASSUME Sync, Crash PROVE Sync'
  OBVIOUS
<1>1. (\A c \in Client : op'[c] = Idle) /\ UNCHANGED <<rows, cluster>>
  BY DEF Crash
<1>2. OneRow'
  BY <1>1 DEF Sync, OneRow, LiveRow
<1>3. AllKeep' /\ Solitary' /\ AllKnow'
  <2>1. Keeps(Idle)' /\ Idle.pc = "done"
    BY DEF Keeps, Idle
  <2>2. QED
    BY <1>1, <2>1 DEF AllKeep, Solitary, AllKnow
<1>4. Settled'
  <2> SUFFICES ASSUME NEW n \in Name, Clean(n)' PROVE Agree(n)'
    BY DEF Settled
  <2>1. ~InFlight(n) /\ Clean(n)
    BY DEF Crash, Clean
  <2>2. QED
    BY <1>1, <2>1, SameRows DEF Sync, Settled
<1>5. QED
  BY <1>2, <1>3, <1>4 DEF Sync

LEMMA SyncInductive == IInv /\ Sync /\ [Next]_vars => Sync'
<1> SUFFICES ASSUME IInv, Sync, [Next]_vars PROVE Sync'
  OBVIOUS
<1>1. ASSUME NEW c \in Client, Step(c) PROVE Sync'
  <2>1. CASE \/ \E n \in Name, v \in Version : StartCreate(c, n, v)
             \/ \E i \in RowId, v \in Version : StartUpdate(c, i, v)
             \/ \E i \in RowId : StartDelete(c, i) \/ StartForceDelete(c, i)
    BY <2>1, SyncStarts
  <2>2. CASE \/ \E i \in RowId : InsertRelease(c, i) \/ InsertAnswerLost(c, i)
             \/ InsertFails(c)
    BY <2>2, SyncInserts
  <2>3. CASE Connect(c) \/ ConnectFails(c)
    BY <2>3, SyncConnects
  <2>4. CASE ApplyDoc(c) \/ ApplyDocFails(c)
    BY <2>4, SyncApplies
  <2>5. CASE \/ CreateApplied(c) \/ CreateCleansUp(c)
             \/ UpdateApplied(c) \/ UpdateNotApplied(c)
    BY <2>5, SyncApplied
  <2>6. CASE CommitUpdate(c) \/ CommitFails(c) \/ CommitAnswerLost(c) \/ Restored(c)
    BY <2>6, SyncCommits
  <2>7. CASE SweepKind(c) \/ SweepKindFails(c) \/ Swept(c)
    BY <2>7, SyncSweeps
  <2>8. CASE DropRow(c) \/ DropRowFails(c)
    BY <2>8, SyncDrops
  <2>9. QED
    BY <1>1, <2>1, <2>2, <2>3, <2>4, <2>5, <2>6, <2>7, <2>8 DEF Step
<1>2. CASE Crash
  BY <1>2, SyncCrash
<1>3. CASE UNCHANGED <<rows, cluster, op, tainted>>
  BY <1>3, SyncSame
<1>4. QED
  BY <1>1, <1>2, <1>3 DEF Next, ChangeVersion, vars

(* Table and cluster agree on every name that has no request in flight, and *)
(* whose requests neither failed half way, nor overlapped, nor lost an      *)
(* object to another release since the last one that ran alone and          *)
(* succeeded: the roll-backs of releases.go and release_update.go undo all  *)
(* they have to, whatever objects the templates of two releases share.      *)
THEOREM TableMatchesCluster == Spec => []InSync
<1>1. Init => IInv /\ Sync
  BY InvInit, SyncInit
<1>2. IInv /\ Sync /\ [Next]_vars => (IInv /\ Sync)'
  BY Inductive, SyncInductive
<1>3. Sync => InSync
  BY DEF Sync, Settled, InSync, Clean
<1>4. QED
  BY <1>1, <1>2, <1>3, PTL DEF Spec
=============================================================================
