------------------------------ MODULE Releases ------------------------------
(***************************************************************************)
(* The release handlers of backend/internal/api/releases.go and            *)
(* release_update.go in one namespace of one cluster: rows of table        *)
(* releases on one side, objects in the cluster on the other, and no       *)
(* transaction around the two.  A handler is a sequence of calls, each of  *)
(* which may fail; other requests, and a crash of the server, come in      *)
(* between.                                                                *)
(*                                                                         *)
(* What a template renders to is a sequence of object names, given by      *)
(* Docs[n][v] for release name n and version v; form values are left out,  *)
(* a change of values being like a change to another version of the same   *)
(* documents.  Authorisation is granted.  An object carries the label      *)
(* kuberport.io/release, which is the release's NAME.                      *)
(***************************************************************************)
EXTENDS Naturals, Sequences

CONSTANTS Name,       \* release names
          Version,    \* versions of a template
          RowId,      \* ids of table releases, never reused
          Object,     \* objects of the cluster, by kind and name
          Foreign,    \* those whose document names another namespace
          Docs,       \* [Name -> [Version -> the documents, in order]]
          Kinds,      \* the objects, in the order the kinds are swept
          Client,     \* concurrent requests
          None

ASSUME DocsAreDocuments == Docs \in [Name -> [Version -> Seq(Object)]]
ASSUME KindsAreObjects == Kinds \in Seq(Object)
ASSUME ForeignAreObjects == Foreign \subseteq Object
ASSUME SweepIsComplete ==     \* what is of no swept kind is not applied either
  \A o \in Object \ Foreign : \E k \in DOMAIN Kinds : Kinds[k] = o
ASSUME NoneIsNull == None \notin Name \cup Version \cup RowId

VARIABLES vstatus,    \* Version -> template_versions.status
          rows,       \* RowId -> the row
          cluster,    \* Object -> the live object
          op,         \* Client -> the handler in flight
          tainted     \* history: the names with a failed or an overlapping
                      \* request, or an object that another release took,
                      \* that no later success made up for

vars == <<vstatus, rows, cluster, op, tainted>>

Row == [state : {"unborn", "live", "gone"},
        name : Name \cup {None}, version : Version \cup {None}]

(* The labels kuberport.io/release and kuberport.io/template-version.      *)
Live == [release : Name, version : Version]
NoObject == [release |-> None, version |-> None]

(* alone is history: no other request on the name overlapped this one, and *)
(* none on another name took an object from the release meanwhile.         *)
Idle == [kind |-> "none", pc |-> "done", row |-> None, name |-> None,
         version |-> None, old |-> None, todo |-> <<>>, failed |-> FALSE,
         alone |-> TRUE]
Op == [kind : {"none", "create", "update", "delete"},
       pc : {"done", "insert", "connect", "apply", "sweep", "drop", "unwind",
             "commit", "restore"},
       row : RowId \cup {None}, name : Name \cup {None},
       version : Version \cup {None}, old : Version \cup {None},
       todo : Seq(Object), failed : BOOLEAN, alone : BOOLEAN]

TypeOK ==
  /\ vstatus \in [Version -> {"draft", "published", "deprecated", "gone"}]
  /\ rows \in [RowId -> Row]
  /\ cluster \in [Object -> Live \cup {NoObject}]
  /\ op \in [Client -> Op]
  /\ tainted \subseteq Name

Init ==
  /\ vstatus = [v \in Version |-> "draft"]
  /\ rows = [i \in RowId |-> [state |-> "unborn", name |-> None, version |-> None]]
  /\ cluster = [o \in Object |-> NoObject]
  /\ op = [c \in Client |-> Idle]
  /\ tainted = {}

-----------------------------------------------------------------------------
LiveRow(i, n) == rows[i].state = "live" /\ rows[i].name = n
NameTaken(n) == \E i \in RowId : LiveRow(i, n)
Pinned(v) == \E i \in RowId : rows[i].state = "live" /\ rows[i].version = v

InFlight(n) == \E c \in Client : op[c].name = n

Move(c, pc, todo, failed) ==
  op' = [op EXCEPT ![c].pc = pc, ![c].todo = todo, ![c].failed = failed]

(* A handler starts: the request's reads, and the checks on what they      *)
(* returned.                                                               *)
Start(c, handler) ==
  LET n == handler.name IN
  /\ op[c] = Idle
  /\ op' = [d \in Client |->
              IF d = c THEN [handler EXCEPT !.alone = ~InFlight(n)]
              ELSE [op[d] EXCEPT !.alone = @ /\ op[d].name # n]]
  /\ tainted' = IF InFlight(n) THEN tainted \cup {n} ELSE tainted
  /\ UNCHANGED <<vstatus, rows, cluster>>

(* A handler answers.  "ok": it did what it was asked, or undid all of it; *)
(* "void": it touched nothing; "fault": it gave up half way.  A request    *)
(* that was alone on its name and succeeds makes up for what went before.  *)
Finish(c, outcome) ==
  LET n == op[c].name IN
  /\ op' = [op EXCEPT ![c] = Idle]
  /\ tainted' =
       CASE outcome = "fault" -> tainted \cup {n}
         [] outcome = "ok" /\ op[c].alone -> tainted \ {n}
         [] OTHER -> tainted

(* requireDeployableVersion, and a mutant that only refuses "deprecated".  *)
NotDeprecated(v) == vstatus[v] # "deprecated"
Deployable(v) == vstatus[v] = "published"

-----------------------------------------------------------------------------
(* The life of the versions, as VersionLifecycle has it; a foreign key     *)
(* keeps a version that a release is pinned to.                            *)
VersionStep(v) ==
  \/ vstatus[v] = "draft" /\ vstatus' = [vstatus EXCEPT ![v] = "published"]
  \/ vstatus[v] = "published" /\ vstatus' = [vstatus EXCEPT ![v] = "deprecated"]
  \/ vstatus[v] = "deprecated" /\ vstatus' = [vstatus EXCEPT ![v] = "published"]
  \/ vstatus[v] = "draft" /\ ~Pinned(v) /\ vstatus' = [vstatus EXCEPT ![v] = "gone"]

ChangeVersion(v) ==
  /\ VersionStep(v)
  /\ UNCHANGED <<rows, cluster, op, tainted>>

-----------------------------------------------------------------------------
(* CreateRelease                                                           *)
StartCreate(c, n, v) ==
  /\ Deployable(v)
  /\ Start(c, [Idle EXCEPT !.kind = "create", !.pc = "insert",
                           !.name = n, !.version = v])

(* r_name_uq refuses a second row of the name, r_tv_fk a missing version.  *)
InsertRow(c, i) ==
  /\ op[c].pc = "insert"
  /\ ~NameTaken(op[c].name)
  /\ vstatus[op[c].version] # "gone"
  /\ rows[i].state = "unborn"
  /\ rows' = [rows EXCEPT ![i] = [state |-> "live", name |-> op[c].name,
                                  version |-> op[c].version]]

InsertRelease(c, i) ==
  /\ InsertRow(c, i)
  /\ op' = [op EXCEPT ![c].pc = "connect", ![c].row = i]
  /\ UNCHANGED <<vstatus, cluster, tainted>>

(* The row is written and its answer lost: the handler answers 500.        *)
InsertAnswerLost(c, i) ==
  /\ InsertRow(c, i)
  /\ Finish(c, "fault")
  /\ UNCHANGED <<vstatus, cluster>>

InsertFails(c) ==
  /\ op[c].pc = "insert"
  /\ Finish(c, "void")
  /\ UNCHANGED <<vstatus, rows, cluster>>

(* UpdateRelease: the row is read with its version, whose rendered_yaml a  *)
(* rollback would re-apply.                                                *)
StartUpdate(c, i, v) ==
  /\ rows[i].state = "live"
  /\ Deployable(v)
  /\ Start(c, [Idle EXCEPT !.kind = "update", !.pc = "connect", !.row = i,
                           !.name = rows[i].name, !.version = v,
                           !.old = rows[i].version])

(* DeleteRelease; with force it goes straight to the row.                  *)
StartDelete(c, i) ==
  /\ rows[i].state = "live"
  /\ Start(c, [Idle EXCEPT !.kind = "delete", !.pc = "connect", !.row = i,
                           !.name = rows[i].name])

StartForceDelete(c, i) ==
  /\ rows[i].state = "live"
  /\ Start(c, [Idle EXCEPT !.kind = "delete", !.pc = "drop", !.row = i,
                           !.name = rows[i].name, !.failed = TRUE])

(* NewWithToken                                                            *)
Connect(c) ==
  LET q == op[c] IN
  /\ q.pc = "connect"
  /\ IF q.kind = "delete" THEN Move(c, "sweep", Kinds, FALSE)
                          ELSE Move(c, "apply", Docs[q.name][q.version], FALSE)
  /\ UNCHANGED <<vstatus, rows, cluster, tainted>>

ConnectFails(c) ==
  /\ op[c].pc = "connect"
  /\ IF op[c].kind = "create" THEN Move(c, "unwind", <<>>, FALSE) /\ UNCHANGED tainted
                              ELSE Finish(c, "void")
  /\ UNCHANGED <<vstatus, rows, cluster>>

(* ApplyAll, one document at a time: a failed document does not stop the   *)
(* rest, a cancelled request does.                                         *)
Applying(c) == op[c].pc \in {"apply", "restore"} /\ op[c].todo # <<>>

RestoreNew(q) == q.version                  \* mutant: rolls back to the new YAML
Target(q) == IF q.pc = "restore" THEN q.old ELSE q.version

(* Server-side apply of a fixed name with Force: an object that carries    *)
(* another release's label is taken from it, and the other is not told.    *)
Robbed(q) == {m \in Name \ {q.name} : cluster[Head(q.todo)].release = m}

Patch(c, todo, failed) ==
  LET q == op[c] IN
  /\ cluster' = [cluster EXCEPT ![Head(q.todo)] =
                    [release |-> q.name, version |-> Target(q)]]
  /\ op' = [d \in Client |->
              IF d = c THEN [q EXCEPT !.todo = todo, !.failed = failed]
              ELSE [op[d] EXCEPT !.alone = @ /\ op[d].name \notin Robbed(q)]]
  /\ tainted' = tainted \cup Robbed(q)

ApplyDoc(c) ==
  /\ Applying(c)
  /\ Patch(c, Tail(op[c].todo), op[c].failed)
  /\ UNCHANGED <<vstatus, rows>>

(* The call fails, or did its work and only the answer is lost.            *)
ApplyDocFails(c) ==
  LET q == op[c] IN
  /\ Applying(c)
  /\ \E rest \in {Tail(q.todo), <<>>} :
       \/ Patch(c, rest, TRUE)
       \/ Move(c, q.pc, rest, TRUE) /\ UNCHANGED <<cluster, tainted>>
  /\ UNCHANGED <<vstatus, rows>>

Applied(c, kind, failed) ==
  /\ op[c].pc = "apply" /\ op[c].todo = <<>>
  /\ op[c].kind = kind /\ op[c].failed = failed

CreateApplied(c) ==
  /\ Applied(c, "create", FALSE)
  /\ Finish(c, "ok")
  /\ UNCHANGED <<vstatus, rows, cluster>>

CreateCleansUp(c) ==
  /\ Applied(c, "create", TRUE)
  /\ Move(c, "sweep", Kinds, FALSE)
  /\ UNCHANGED <<vstatus, rows, cluster, tainted>>

UpdateApplied(c) ==
  /\ Applied(c, "update", FALSE)
  /\ Move(c, "commit", <<>>, FALSE)
  /\ UNCHANGED <<vstatus, rows, cluster, tainted>>

UpdateNotApplied(c) ==
  /\ Applied(c, "update", TRUE)
  /\ Finish(c, "fault")
  /\ UNCHANGED <<vstatus, rows, cluster>>

(* UpdateReleaseValuesAndVersion; no row is not an error.  When it fails,  *)
(* or when only its answer is lost, the old YAML is applied again.         *)
Upsert(c) ==                                \* mutant: INSERT ... ON CONFLICT
  rows' = [rows EXCEPT ![op[c].row].state = "live",
                       ![op[c].row].version = op[c].version]

SetVersion(c) ==
  LET i == op[c].row IN
  rows' = IF rows[i].state = "live"
          THEN [rows EXCEPT ![i].version = op[c].version] ELSE rows

CommitUpdate(c) ==
  /\ op[c].pc = "commit"
  /\ SetVersion(c)
  /\ Finish(c, "ok")
  /\ UNCHANGED <<vstatus, cluster>>

CommitFails(c) ==
  /\ op[c].pc = "commit"
  /\ Move(c, "restore", Docs[op[c].name][op[c].old], FALSE)
  /\ UNCHANGED <<vstatus, rows, cluster, tainted>>

CommitAnswerLost(c) ==
  /\ op[c].pc = "commit"
  /\ SetVersion(c)
  /\ Move(c, "restore", Docs[op[c].name][op[c].old], TRUE)
  /\ UNCHANGED <<vstatus, cluster, tainted>>

Restored(c) ==
  /\ op[c].pc = "restore" /\ op[c].todo = <<>>
  /\ Finish(c, IF op[c].failed THEN "fault" ELSE "ok")
  /\ UNCHANGED <<vstatus, rows, cluster>>

(* DeleteByRelease, one kind at a time: DeleteCollection with the selector *)
(* kuberport.io/release=name, in the release's own namespace.              *)
Sweeping(c) == op[c].pc = "sweep" /\ op[c].todo # <<>>
Selected(o, n) == cluster[o].release = n /\ o \notin Foreign

DeleteCollection(q) ==
  LET o == Head(q.todo) IN
  cluster' = IF Selected(o, q.name) THEN [cluster EXCEPT ![o] = NoObject] ELSE cluster

SweepKind(c) ==
  LET q == op[c] IN
  /\ Sweeping(c)
  /\ DeleteCollection(q)
  /\ Move(c, "sweep", Tail(q.todo), q.failed)
  /\ UNCHANGED <<vstatus, rows, tainted>>

SweepKindFails(c) ==
  LET q == op[c] IN
  /\ Sweeping(c)
  /\ DeleteCollection(q) \/ UNCHANGED cluster
  /\ \E rest \in {Tail(q.todo), <<>>} : Move(c, "sweep", rest, TRUE)
  /\ UNCHANGED <<vstatus, rows, tainted>>

(* A failed create only logs what its cleanup could not delete; a delete   *)
(* answers 502 and keeps the row.                                          *)
Swept(c) ==
  /\ op[c].pc = "sweep" /\ op[c].todo = <<>>
  /\ IF op[c].kind = "delete" /\ op[c].failed
     THEN Finish(c, "fault")
     ELSE Move(c, "drop", <<>>, op[c].failed) /\ UNCHANGED tainted
  /\ UNCHANGED <<vstatus, rows, cluster>>

SoftRemoveRow(c) ==                         \* mutant: a status for deleted rows
  /\ op[c].pc \in {"drop", "unwind"}
  /\ rows' = [rows EXCEPT ![op[c].row].state = "deleted"]

RemoveRow(c) ==
  /\ op[c].pc \in {"drop", "unwind"}
  /\ rows' = [rows EXCEPT ![op[c].row].state = "gone"]

DropRow(c) ==
  LET q == op[c] IN
  /\ RemoveRow(c)
  /\ Finish(c, CASE q.pc = "unwind" -> "void"
                 [] q.pc = "drop" /\ q.failed -> "fault"
                 [] q.pc = "drop" /\ ~q.failed -> "ok")
  /\ UNCHANGED <<vstatus, cluster>>

DropRowFails(c) ==
  /\ op[c].pc \in {"drop", "unwind"}
  /\ RemoveRow(c) \/ UNCHANGED rows
  /\ Finish(c, "fault")
  /\ UNCHANGED <<vstatus, cluster>>

(* The server dies; nothing of the requests in flight survives.            *)
Crash ==
  /\ \E c \in Client : op[c] # Idle
  /\ op' = [c \in Client |-> Idle]
  /\ tainted' = tainted \cup {n \in Name : InFlight(n)}
  /\ UNCHANGED <<vstatus, rows, cluster>>

Step(c) ==
  \/ \E n \in Name, v \in Version : StartCreate(c, n, v)
  \/ \E i \in RowId : InsertRelease(c, i)
  \/ InsertFails(c)
  \/ \E i \in RowId : InsertAnswerLost(c, i)
  \/ \E i \in RowId, v \in Version : StartUpdate(c, i, v)
  \/ \E i \in RowId : StartDelete(c, i)
  \/ \E i \in RowId : StartForceDelete(c, i)
  \/ Connect(c) \/ ConnectFails(c)
  \/ ApplyDoc(c) \/ ApplyDocFails(c)
  \/ CreateApplied(c) \/ CreateCleansUp(c)
  \/ UpdateApplied(c) \/ UpdateNotApplied(c)
  \/ CommitUpdate(c) \/ CommitFails(c) \/ CommitAnswerLost(c) \/ Restored(c)
  \/ SweepKind(c) \/ SweepKindFails(c) \/ Swept(c)
  \/ DropRow(c) \/ DropRowFails(c)

Next ==
  \/ \E c \in Client : Step(c)
  \/ \E v \in Version : ChangeVersion(v)
  \/ Crash

Spec == Init /\ [][Next]_vars

-----------------------------------------------------------------------------
(* Properties.                                                             *)

(* Every release is pinned to a version that has been published and still  *)
(* exists, although the version was checked before the row was written.    *)
PinsRetained ==
  \A i \in RowId : rows[i].state = "live" =>
    vstatus[rows[i].version] \in {"published", "deprecated"}

Deployed(i) ==
  LET n == rows[i].name
      v == rows[i].version IN
  \A k \in DOMAIN Docs[n][v] :
    LET o == cluster[Docs[n][v][k]] IN o.release = n /\ o.version = v

Untouched(n) == \A o \in Object \ Foreign : cluster[o].release # n

(* Table and cluster agree on name n: every document of its row is         *)
(* deployed, and without a row nothing is left that a sweep would find.    *)
Agree(n) ==
  /\ \A i \in RowId : LiveRow(i, n) => Deployed(i)
  /\ ~NameTaken(n) => Untouched(n)

(* When no request on a name is in flight, none failed half way or         *)
(* overlapped another, and no other release took an object of its own,     *)
(* table and cluster agree: the roll-backs of a failed create and of a     *)
(* failed UPDATE restore that, and after failures, crashes, overlaps and   *)
(* takeovers a single request that runs alone and succeeds does too.       *)
InSync ==
  \A n \in Name : ~InFlight(n) /\ n \notin tainted => Agree(n)

(* A release that was deleted stays deleted: the unconditional UPDATE of a *)
(* slow update, or the roll-back of a slow create, never brings it back.   *)
GoneStaysGone ==
  [][\A i \in RowId : rows[i].state = "gone" => rows'[i] = rows[i]]_vars
=============================================================================
