----------------------- MODULE TemplateVersionsProofs -----------------------
(* Theorems of TemplateVersions, for any number of templates, rows, editors *)
(* and versions.  The inductive invariant IInv adds to the properties what  *)
(* is known of the row each request in flight has read: a row is never      *)
(* unborn again, and one read as published or deprecated stays one of the   *)
(* two, which is what makes the unconditional UPDATE of setVersionStatus    *)
(* harmless.                                                                *)
EXTENDS TemplateVersions, TLAPS

Retired == {"published", "deprecated"}

RequestKnows(e) ==
  LET q == request[e] IN
  /\ q.op = "none" => q = Idle
  /\ q.op \in {"new", "granted", "create"} => q.row = None
  /\ q.op \in {"new", "create"} => q.tmpl \in Template /\ q.body \in Body
  /\ q.op \in {"granted", "create"} => q.tmpl \in registered
  /\ q.op \in {"publish", "update", "delete"} =>
       q.row \in Row /\ status[q.row] # "unborn"
  /\ q.op = "publish" => q.tmpl = owner[q.row]
  /\ q.op = "update" => q.body \in Body
  /\ q.op \in {"deprecate", "undeprecate"} =>
       q.row \in Row /\ status[q.row] \in Retired

RequestsKnow == \A e \in Editor : RequestKnows(e)

RowsAreOwned == \A r \in Row : status[r] # "unborn" => owner[r] \in registered

IInv == TypeOK /\ OneDraft /\ CurrentWasPublished /\ RequestsKnow /\ RowsAreOwned

-----------------------------------------------------------------------------
(* Every variable keeps its type: the tables hold rows of their domains and *)
(* a request in flight is a request of the API.                             *)
LEMMA TypeInit == Init => TypeOK
BY DEF Init, TypeOK, Stored, Idle, Request, TeamInit, TeamTypeOK

(* Each handler step preserves the types.                                   *)
LEMMA TypeStep == TypeOK /\ [Next]_vars => TypeOK'
<1> SUFFICES ASSUME TypeOK, [Next]_vars PROVE TypeOK'
  OBVIOUS
<1> USE DEF TypeOK, Stored, Request, Ops, Idle, tables, TeamTypeOK, teamVars
<1>1. CASE UNCHANGED vars
  BY <1>1 DEF vars, Member, Role
<1>2. ASSUME NEW e \in Editor, Step(e) PROVE TypeOK'
  <2>17. ASSUME NEW t \in Template, NEW g \in Team \cup {None}, NEW b \in Body,
               BeginTemplate(e, t, g, b) PROVE TypeOK'
    BY <2>17 DEF BeginTemplate, Begin
  <2>1. ASSUME NEW r \in Row, CreateTemplate(e, r) PROVE TypeOK'
    BY <2>1 DEF CreateTemplate, InsertTemplateVersionV2, Answer
  <2>2. CASE TemplateConflict(e)
    BY <2>2 DEF TemplateConflict, Answer
  <2>18. ASSUME NEW t \in Template, EnsureTemplateEditor(e, t) PROVE TypeOK'
    BY <2>18 DEF EnsureTemplateEditor, Begin
  <2>3. ASSUME NEW t \in Template, NEW b \in Body, BeginVersion(e, t, b)
        PROVE TypeOK'
    <3>1. PICK n \in 1..MaxVersion :
            Take(e, t, [Idle EXCEPT !.op = "create", !.tmpl = t, !.next = n, !.body = b])
      BY <2>3 DEF BeginVersion
    <3>2. n \in Nat
      BY MaxVersionIsNat
    <3>3. [Idle EXCEPT !.op = "create", !.tmpl = t, !.next = n, !.body = b]
            \in Request
      BY <3>2
    <3>4. request' \in [Editor -> Request]
      <4> HIDE DEF Request, Idle
      <4> QED BY <3>1, <3>3 DEF Take
    <3>5. QED
      BY <3>1, <3>4 DEF Take
  <2>4. ASSUME NEW r \in Row, InsertVersion(e, r) PROVE TypeOK'
    BY <2>4 DEF InsertVersion, InsertTemplateVersionV2, Answer
  <2>5. CASE InsertConflict(e)
    BY <2>5 DEF InsertConflict, Answer
  <2>6. ASSUME NEW r \in Row, LoadForPublish(e, r) PROVE TypeOK'
    BY <2>6 DEF LoadForPublish, Take
  <2>7. CASE PublishVersion(e)
    BY <2>7 DEF PublishVersion, PublishTemplateVersion, Answer
  <2>8. ASSUME NEW r \in Row, NEW b \in Body, LoadForUpdate(e, r, b)
        PROVE TypeOK'
    BY <2>8 DEF LoadForUpdate, Take
  <2>9. CASE UpdateTemplateVersion(e)
    BY <2>9 DEF UpdateTemplateVersion, UpdateDraftTemplateVersion, Answer
  <2>10. ASSUME NEW r \in Row, LoadForDelete(e, r) PROVE TypeOK'
    BY <2>10 DEF LoadForDelete, Take
  <2>11. CASE DeleteTemplateVersion(e)
    BY <2>11 DEF DeleteTemplateVersion, DeleteDraftTemplateVersion, Answer
  <2>12. CASE DraftConflict(e)
    BY <2>12 DEF DraftConflict, Answer
  <2>13. ASSUME NEW r \in Row, NEW op \in {"deprecate", "undeprecate"},
                NEW s, LoadForStatus(e, r, op, s)
         PROVE TypeOK'
    BY <2>13 DEF LoadForStatus, Take
  <2>14. CASE DeprecateVersion(e)
    BY <2>14 DEF DeprecateVersion, SetTemplateVersionStatus, Answer
  <2>15. CASE UndeprecateVersion(e)
    BY <2>15 DEF UndeprecateVersion, SetTemplateVersionStatus, Answer
  <2>16. CASE Abandon(e)
    BY <2>16 DEF Abandon, Answer
  <2>19. QED
    BY <1>2, <2>1, <2>2, <2>3, <2>4, <2>5, <2>6, <2>7, <2>8, <2>9, <2>10, <2>11,
       <2>12, <2>13, <2>14, <2>15, <2>16, <2>17, <2>18 DEF Step
<1>3. ASSUME NEW g \in Team, NEW e \in Member, Membership(g, e) PROVE TypeOK'
  <2>1. role' \in [Team \X Member -> Role \cup {"none"}] /\ UNCHANGED teams
    BY <1>3 DEF Membership, AddTeamMember, RemoveTeamMember
  <2>2. revoked' \subseteq Editor
    BY <1>3 DEF Membership, RecordRevoked, Member
  <2>3. QED
    BY <1>3, <2>1, <2>2 DEF Membership
<1>4. ASSUME NEW g \in Team, NewTeam(g) PROVE TypeOK'
  BY <1>4 DEF NewTeam, CreateTeam
<1>5. QED
  BY <1>1, <1>2, <1>3, <1>4 DEF Next

(* The tables hold what the schema declares, and what a handler holds on to *)
(* between its read and its write is a request of the API.                  *)
THEOREM TypeCorrect == Spec => []TypeOK
BY TypeInit, TypeStep, PTL DEF Spec

-----------------------------------------------------------------------------
(* Empty tables and no request in flight satisfy the invariant.             *)
LEMMA InvInit == Init => IInv
<1> SUFFICES ASSUME Init PROVE IInv
  OBVIOUS
<1>1. TypeOK
  BY TypeInit
<1>2. OneDraft /\ RowsAreOwned /\ CurrentWasPublished
  BY DEF Init, OneDraft, RowsAreOwned, CurrentWasPublished
<1>3. RequestsKnow
  BY DEF Init, RequestsKnow, RequestKnows, Idle
<1>4. QED
  BY <1>1, <1>2, <1>3 DEF IInv

(* A step of one editor that writes no table and leaves what it knows of    *)
(* its own request true preserves the invariant.                            *)
LEMMA QuietStep ==
  ASSUME NEW e \in Editor, IInv, TypeOK', UNCHANGED tables, RequestKnows(e)',
         \A d \in Editor : d # e => request'[d] = request[d]
  PROVE  IInv'
<1>1. RequestsKnow'
  BY DEF IInv, RequestsKnow, RequestKnows, tables
<1>2. (OneDraft /\ RowsAreOwned)'
  BY DEF IInv, OneDraft, RowsAreOwned, tables
<1>3. CurrentWasPublished'
  BY DEF IInv, CurrentWasPublished, tables
<1>4. QED
  BY <1>1, <1>2, <1>3 DEF IInv

(* A new row: what the two transactions that insert have in common.         *)
LEMMA InsertStep ==
  ASSUME NEW e \in Editor, NEW r \in Row, NEW t \in registered', NEW n, NEW b,
         IInv, TypeOK', InsertTemplateVersionV2(r, t, n, b), ~DraftTaken(t),
         registered \subseteq registered', UNCHANGED current, request'[e] = Idle,
         \A d \in Editor : d # e => request'[d] = request[d]
  PROVE  IInv'
<1> USE DEF IInv, TypeOK, InsertTemplateVersionV2
<1>1. OneDraft'
  BY DEF OneDraft, DraftTaken, Versions, Stored
<1>2. CurrentWasPublished'
  BY DEF CurrentWasPublished
<1>3. RowsAreOwned'
  BY DEF RowsAreOwned
<1>4. RequestsKnow'
  <2> SUFFICES ASSUME NEW d \in Editor PROVE RequestKnows(d)'
    BY DEF RequestsKnow
  <2>1. CASE d = e
    BY <2>1 DEF RequestKnows, Idle
  <2>2. CASE d # e
    <3>1. request'[d] = request[d] /\ RequestKnows(d)
      BY <2>2 DEF RequestsKnow
    <3>2. QED
      BY <3>1 DEF RequestKnows, Retired
  <2>3. QED
    BY <2>1, <2>2
<1>5. QED
  BY <1>1, <1>2, <1>3, <1>4

(* A status change along the life cycle: a row that is not unborn stays     *)
(* not unborn, and a retired one retired.                                   *)
LEMMA StatusStep ==
  ASSUME NEW e \in Editor, NEW r \in Row, NEW s \in Retired \cup {"gone"},
         IInv, TypeOK', status' = [status EXCEPT ![r] = s],
         status[r] # "unborn", status[r] \in Retired => s \in Retired,
         UNCHANGED <<owner, registered>>, request'[e] = Idle,
         \A d \in Editor : d # e => request'[d] = request[d]
  PROVE  OneDraft' /\ RowsAreOwned' /\ RequestsKnow'
<1> USE DEF IInv, TypeOK, Retired
<1>1. OneDraft'
  BY DEF OneDraft
<1>2. RowsAreOwned'
  BY DEF RowsAreOwned
<1>3. RequestsKnow'
  <2> SUFFICES ASSUME NEW d \in Editor PROVE RequestKnows(d)'
    BY DEF RequestsKnow
  <2>1. CASE d = e
    BY <2>1 DEF RequestKnows, Idle
  <2>2. CASE d # e
    <3>1. request'[d] = request[d] /\ RequestKnows(d)
      BY <2>2 DEF RequestsKnow
    <3>2. QED
      BY <3>1 DEF RequestKnows
  <2>3. QED
    BY <2>1, <2>2
<1>4. QED
  BY <1>1, <1>2, <1>3

(* The invariant is inductive: one case per handler step.                   *)
LEMMA InvStep == IInv /\ [Next]_vars => IInv'
<1> SUFFICES ASSUME IInv, [Next]_vars PROVE IInv'
  OBVIOUS
<1>0. TypeOK /\ TypeOK'
  BY TypeStep DEF IInv
<1>1. CASE UNCHANGED vars
  BY <1>1, <1>0 DEF vars, tables, IInv, OneDraft, CurrentWasPublished, RowsAreOwned,
       RequestsKnow, RequestKnows
<1>2. ASSUME NEW e \in Editor, Step(e) PROVE IInv'
  <2>0. RequestKnows(e) /\ request \in [Editor -> Request]
    BY <1>0 DEF IInv, RequestsKnow, TypeOK
  <2>17. ASSUME NEW t \in Template, NEW g \in Team \cup {None}, NEW b \in Body,
                BeginTemplate(e, t, g, b) PROVE IInv'
    <3>1. request' = [request EXCEPT ![e] =
            [Idle EXCEPT !.op = "new", !.tmpl = t, !.team = g, !.body = b]]
          /\ UNCHANGED tables
      BY <2>17 DEF BeginTemplate, Begin
    <3>2. request'[e] = [op |-> "new", row |-> None, tmpl |-> t, team |-> g,
                         next |-> 0, body |-> b]
      BY <3>1, <2>0 DEF Idle
    <3>3. RequestKnows(e)'
      BY <3>2 DEF RequestKnows
    <3>4. QED
      BY <3>1, <3>3, <2>0, <1>0, QuietStep
  <2>1. ASSUME NEW r \in Row, CreateTemplate(e, r) PROVE IInv'
    <3> DEFINE t == request[e].tmpl
    <3>1. ~DraftTaken(t) /\ t \in Template
      BY <2>0, <2>1 DEF CreateTemplate, TemplateRefused, DraftTaken, Versions,
           IInv, RowsAreOwned, Stored, RequestKnows
    <3>2. t \in registered' /\ registered \subseteq registered'
      BY <2>1 DEF CreateTemplate
    <3>3. request' = [request EXCEPT ![e] = Idle] /\ UNCHANGED current
      BY <2>1 DEF CreateTemplate, Answer
    <3>4. InsertTemplateVersionV2(r, t, 1, request[e].body)
      BY <2>1 DEF CreateTemplate
    <3>5. QED
      BY <2>0, <1>0, <3>1, <3>2, <3>3, <3>4, InsertStep
  <2>2. CASE TemplateConflict(e)
    BY <2>2, <2>0, <1>0, QuietStep DEF TemplateConflict, Answer, RequestKnows, Idle
  <2>18. ASSUME NEW t \in Template, EnsureTemplateEditor(e, t) PROVE IInv'
    BY <2>18, <2>0, <1>0, QuietStep
       DEF EnsureTemplateEditor, Begin, RequestKnows, Idle, tables
  <2>3. ASSUME NEW t \in Template, NEW b \in Body, BeginVersion(e, t, b)
        PROVE IInv'
    <3>1. PICK n \in 1..MaxVersion :
            Take(e, t, [Idle EXCEPT !.op = "create", !.tmpl = t, !.next = n, !.body = b])
      BY <2>3 DEF BeginVersion
    <3>2. request' = [request EXCEPT ![e] =
            [Idle EXCEPT !.op = "create", !.tmpl = t, !.next = n, !.body = b]]
      BY <3>1 DEF Take
    <3>3. UNCHANGED tables /\ t \in registered'
      BY <3>1, <2>0 DEF Take, RequestKnows, tables
    <3>4. request'[e] = [op |-> "create", row |-> None, tmpl |-> t, team |-> None,
                         next |-> n, body |-> b]
      BY <3>2, <2>0 DEF Idle
    <3>5. RequestKnows(e)'
      BY <3>3, <3>4 DEF RequestKnows
    <3>6. QED
      BY <3>2, <3>3, <3>5, <2>0, <1>0, QuietStep
  <2>4. ASSUME NEW r \in Row, InsertVersion(e, r) PROVE IInv'
    BY <2>4, <2>0, <1>0, InsertStep
       DEF InsertVersion, RequestKnows, Answer, ViolatesUnique
  <2>5. CASE InsertConflict(e)
    BY <2>5, <2>0, <1>0, QuietStep DEF InsertConflict, Answer, RequestKnows, Idle
  <2>6. ASSUME NEW r \in Row, LoadForPublish(e, r) PROVE IInv'
    BY <2>6, <2>0, <1>0, QuietStep
       DEF LoadForPublish, Take, RequestKnows, Idle, tables, Stored
  <2>7. CASE PublishVersion(e)
    <3> DEFINE r == request[e].row
    <3>1. r \in Row /\ status[r] = "draft" /\ request[e].tmpl = owner[r]
      BY <2>7, <2>0 DEF PublishVersion, PublishTemplateVersion, RequestKnows
    <3>2. status' = [status EXCEPT ![r] = "published"]
      BY <2>7 DEF PublishVersion, PublishTemplateVersion
    <3>3. current' = [current EXCEPT ![owner[r]] = r]
      BY <2>7, <3>1 DEF PublishVersion
    <3>4. (OneDraft /\ RowsAreOwned /\ RequestsKnow)'
      BY <2>7, <2>0, <1>0, <3>1, <3>2, StatusStep
         DEF PublishVersion, Answer, Retired
    <3>5. CurrentWasPublished'
      BY <2>7, <1>0, <3>1, <3>2, <3>3
         DEF PublishVersion, CurrentWasPublished, IInv, TypeOK
    <3>6. QED
      BY <1>0, <3>4, <3>5 DEF IInv
  <2>8. ASSUME NEW r \in Row, NEW b \in Body, LoadForUpdate(e, r, b)
        PROVE IInv'
    BY <2>8, <2>0, <1>0, QuietStep
       DEF LoadForUpdate, Take, RequestKnows, Idle, tables
  <2>9. CASE UpdateTemplateVersion(e)
    <3>1. request' = [request EXCEPT ![e] = Idle]
      BY <2>9 DEF UpdateTemplateVersion, Answer
    <3>2. UNCHANGED <<status, owner, current, registered>>
      BY <2>9 DEF UpdateTemplateVersion
    <3>3. (OneDraft /\ CurrentWasPublished /\ RowsAreOwned)'
      BY <3>2 DEF IInv, OneDraft, CurrentWasPublished, RowsAreOwned
    <3>4. RequestsKnow'
      <4> SUFFICES ASSUME NEW d \in Editor PROVE RequestKnows(d)'
        BY DEF RequestsKnow
      <4>1. CASE d = e
        BY <4>1, <3>1, <2>0 DEF RequestKnows, Idle
      <4>2. CASE d # e
        <5>1. request'[d] = request[d] /\ RequestKnows(d)
          BY <4>2, <3>1, <2>0 DEF IInv, RequestsKnow
        <5>2. QED
          BY <5>1, <3>2 DEF RequestKnows
      <4>3. QED
        BY <4>1, <4>2
    <3>5. QED
      BY <1>0, <3>3, <3>4 DEF IInv
  <2>10. ASSUME NEW r \in Row, LoadForDelete(e, r) PROVE IInv'
    BY <2>10, <2>0, <1>0, QuietStep
       DEF LoadForDelete, Take, RequestKnows, Idle, tables
  <2>11. CASE DeleteTemplateVersion(e)
    <3> DEFINE r == request[e].row
    <3>1. r \in Row /\ status[r] = "draft"
      BY <2>11, <2>0 DEF DeleteTemplateVersion, DeleteDraftTemplateVersion, RequestKnows, Retired
    <3>2. status' = [status EXCEPT ![r] = "gone"]
      BY <2>11 DEF DeleteTemplateVersion, DeleteDraftTemplateVersion
    <3>3. (OneDraft /\ RowsAreOwned /\ RequestsKnow)'
      BY <2>11, <2>0, <1>0, <3>1, <3>2, StatusStep DEF DeleteTemplateVersion, Answer, Retired
    <3>4. CurrentWasPublished'
      BY <2>11, <1>0, <3>1, <3>2
         DEF DeleteTemplateVersion, CurrentWasPublished, IInv, TypeOK, Retired
    <3>5. QED
      BY <1>0, <3>3, <3>4 DEF IInv
  <2>12. CASE DraftConflict(e)
    BY <2>12, <2>0, <1>0, QuietStep DEF DraftConflict, Answer, RequestKnows, Idle
  <2>13. ASSUME NEW r \in Row, NEW op \in {"deprecate", "undeprecate"},
                NEW s \in Retired, LoadForStatus(e, r, op, s)
         PROVE IInv'
    BY <2>13, <2>0, <1>0, QuietStep
       DEF LoadForStatus, Take, RequestKnows, Idle, tables, Retired
  <2>14. CASE DeprecateVersion(e)
    <3> DEFINE r == request[e].row
    <3>1. r \in Row /\ status[r] \in Retired
      BY <2>14, <2>0 DEF DeprecateVersion, SetTemplateVersionStatus, RequestKnows, Retired
    <3>2. status' = [status EXCEPT ![r] = "deprecated"]
      BY <2>14 DEF DeprecateVersion, SetTemplateVersionStatus
    <3>3. (OneDraft /\ RowsAreOwned /\ RequestsKnow)'
      BY <2>14, <2>0, <1>0, <3>1, <3>2, StatusStep DEF DeprecateVersion, Answer, Retired
    <3>4. CurrentWasPublished'
      BY <2>14, <1>0, <3>1, <3>2
         DEF DeprecateVersion, CurrentWasPublished, IInv, TypeOK, Retired
    <3>5. QED
      BY <1>0, <3>3, <3>4 DEF IInv
  <2>15. CASE UndeprecateVersion(e)
    <3> DEFINE r == request[e].row
    <3>1. r \in Row /\ status[r] \in Retired
      BY <2>15, <2>0 DEF UndeprecateVersion, SetTemplateVersionStatus, RequestKnows, Retired
    <3>2. status' = [status EXCEPT ![r] = "published"]
      BY <2>15 DEF UndeprecateVersion, SetTemplateVersionStatus
    <3>3. (OneDraft /\ RowsAreOwned /\ RequestsKnow)'
      BY <2>15, <2>0, <1>0, <3>1, <3>2, StatusStep DEF UndeprecateVersion, Answer, Retired
    <3>4. CurrentWasPublished'
      BY <2>15, <1>0, <3>1, <3>2
         DEF UndeprecateVersion, CurrentWasPublished, IInv, TypeOK, Retired
    <3>5. QED
      BY <1>0, <3>3, <3>4 DEF IInv
  <2>16. CASE Abandon(e)
    BY <2>16, <2>0, <1>0, QuietStep DEF Abandon, Answer, RequestKnows, Idle
  <2>19. QED
    BY <1>2, <2>1, <2>2, <2>3, <2>4, <2>5, <2>6, <2>7, <2>8, <2>9, <2>10, <2>11,
       <2>12, <2>13, <2>14, <2>15, <2>16, <2>17, <2>18 DEF Step, Retired
<1>3. CASE \/ \E g \in Team, e \in Member : Membership(g, e)
           \/ \E g \in Team : NewTeam(g)
  <2>1. UNCHANGED <<tables, request>>
    BY <1>3 DEF Membership, NewTeam
  <2>2. QED
    BY <2>1, <1>0 DEF tables, IInv, OneDraft, CurrentWasPublished, RowsAreOwned,
         RequestsKnow, RequestKnows
<1>4. QED
  BY <1>1, <1>2, <1>3 DEF Next

(* The inductive invariant holds of every behaviour.                        *)
THEOREM InvCorrect == Spec => []IInv
BY InvInit, InvStep, PTL DEF Spec

(* CreateTemplateVersion, DeleteTemplateVersion and PublishVersion together *)
(* never leave a template with two drafts.                                  *)
THEOREM AtMostOneDraft == Spec => []OneDraft
BY InvCorrect, PTL DEF IInv

(* templates.current_version_id always names a version of that template     *)
(* which has been published, whatever stale publications and deletions are  *)
(* in flight.                                                               *)
THEOREM CurrentIsRetained == Spec => []CurrentWasPublished
BY InvCorrect, PTL DEF IInv

(* The published content of a version never changes, and a published        *)
(* version is never again a draft nor deleted.                              *)
THEOREM ImmutableOncePublished == Spec => PublishedIsImmutable
<1>1. IInv /\ [Next]_vars =>
        [\A r \in Row : status[r] \in {"published", "deprecated"} =>
           /\ status'[r] \in {"published", "deprecated"}
           /\ content'[r] = content[r]]_vars
  <2> SUFFICES ASSUME IInv, Next, NEW r \in Row, status[r] \in Retired
               PROVE  status'[r] \in Retired /\ content'[r] = content[r]
    BY DEF Retired, vars, tables
  <2>9. CASE \E g \in Team : NewTeam(g) \/ \E e \in Member : Membership(g, e)
    BY <2>9 DEF NewTeam, Membership, tables
  <2> SUFFICES ASSUME NEW e \in Editor, Step(e)
               PROVE  status'[r] \in Retired /\ content'[r] = content[r]
    BY <2>9 DEF Next
  <2>0. RequestKnows(e) /\ TypeOK
    BY DEF IInv, RequestsKnow
  <2> USE <2>0 DEF TypeOK, Retired
  <2>1. CASE UNCHANGED <<status, content>>
    BY <2>1
  <2>2. ASSUME NEW n \in Row, NEW t, NEW k, NEW b, InsertTemplateVersionV2(n, t, k, b)
        PROVE  status'[r] \in Retired /\ content'[r] = content[r]
    BY <2>2 DEF InsertTemplateVersionV2
  <2>3. CASE PublishVersion(e)
    BY <2>3 DEF PublishVersion, PublishTemplateVersion, RequestKnows
  <2>4. CASE UpdateTemplateVersion(e)
    BY <2>4 DEF UpdateTemplateVersion, UpdateDraftTemplateVersion, RequestKnows
  <2>5. CASE DeleteTemplateVersion(e)
    BY <2>5 DEF DeleteTemplateVersion, DeleteDraftTemplateVersion, RequestKnows
  <2>6. CASE DeprecateVersion(e)
    BY <2>6 DEF DeprecateVersion, SetTemplateVersionStatus, RequestKnows
  <2>7. CASE UndeprecateVersion(e)
    BY <2>7 DEF UndeprecateVersion, SetTemplateVersionStatus, RequestKnows
  <2>8. QED
    BY <2>1, <2>2, <2>3, <2>4, <2>5, <2>6, <2>7
       DEF Step, BeginTemplate, CreateTemplate, TemplateConflict,
           EnsureTemplateEditor, BeginVersion, InsertVersion, InsertConflict,
           LoadForPublish, LoadForUpdate, LoadForDelete, DraftConflict,
           LoadForStatus, Abandon, Begin, Take, tables
<1>2. QED
  BY <1>1, InvCorrect, PTL DEF Spec, PublishedIsImmutable

-----------------------------------------------------------------------------
(* The right that a request was begun with.  No step takes a row from its   *)
(* template or a template from its team.                                    *)
Entitled(e, q) ==
  \/ e \in Admin
  \/ TeamOf(q) \in Team /\ role[<<TeamOf(q), e>>] = "editor"

LEMMA OwnersStay ==
  ASSUME IInv, NEW e \in Editor, Step(e)
  PROVE  /\ \A r \in Row : status[r] # "unborn" => owner'[r] = owner[r]
         /\ \A t \in registered : owningTeam'[t] = owningTeam[t]
<1> USE DEF IInv, TypeOK
<1>1. CASE UNCHANGED <<owner, owningTeam>>
  BY <1>1
<1>2. ASSUME NEW r \in Row, CreateTemplate(e, r)
      PROVE  /\ \A s \in Row : status[s] # "unborn" => owner'[s] = owner[s]
             /\ \A t \in registered : owningTeam'[t] = owningTeam[t]
  BY <1>2 DEF CreateTemplate, TemplateRefused, InsertTemplateVersionV2
<1>3. ASSUME NEW r \in Row, InsertVersion(e, r)
      PROVE  /\ \A s \in Row : status[s] # "unborn" => owner'[s] = owner[s]
             /\ \A t \in registered : owningTeam'[t] = owningTeam[t]
  BY <1>3 DEF InsertVersion, InsertTemplateVersionV2
<1>4. QED
  BY <1>1, <1>2, <1>3
     DEF Step, BeginTemplate, TemplateConflict, EnsureTemplateEditor, BeginVersion,
         InsertConflict, LoadForPublish, PublishVersion, LoadForUpdate,
         UpdateTemplateVersion, LoadForDelete, DeleteTemplateVersion, DraftConflict,
         LoadForStatus, DeprecateVersion, UndeprecateVersion, Abandon, Begin, Take,
         tables

(* A request that a step leaves in flight is about the same team after it.  *)
LEMMA TeamStays ==
  ASSUME IInv, NEW e \in Editor, Step(e), NEW d \in Editor,
         request[d] # Idle, request'[d] = request[d]
  PROVE  TeamOf(request[d])' = TeamOf(request[d])
<1> DEFINE q == request[d]
<1>0. RequestKnows(d) /\ q \in Request /\ q.op # "none"
  BY DEF IInv, RequestsKnow, RequestKnows, TypeOK
<1>1. CASE q.op = "new"
  BY <1>1 DEF TeamOf
<1>2. CASE q.op \in {"granted", "create"}
  BY <1>0, <1>2, OwnersStay DEF TeamOf, RequestKnows
<1>3. CASE q.op \in {"publish", "update", "delete", "deprecate", "undeprecate"}
  <2>1. q.row \in Row /\ q.row # None /\ status[q.row] # "unborn"
    BY <1>0, <1>3, NoneIsNull DEF RequestKnows, Retired
  <2>2. owner[q.row] \in registered
    BY <2>1 DEF IInv, RowsAreOwned
  <2>3. owner'[q.row] = owner[q.row]
        /\ owningTeam'[owner[q.row]] = owningTeam[owner[q.row]]
    BY <2>1, <2>2, OwnersStay
  <2>4. QED
    BY <1>3, <2>1, <2>3 DEF TeamOf
<1>4. QED
  BY <1>0, <1>1, <1>2, <1>3 DEF Request, Ops

(* Who begins a request may; who goes on with one goes on about the same    *)
(* template.                                                                *)
LEMMA OwnRight ==
  ASSUME IInv, NEW e \in Editor, Step(e), request'[e] # Idle, e \notin revoked,
         request[e] # Idle => Entitled(e, request[e])
  PROVE  Entitled(e, request[e])'
<1>0. IInv' /\ RequestKnows(e) /\ request \in [Editor -> Request]
  BY InvStep DEF Next, IInv, RequestsKnow, TypeOK
<1>1. ASSUME NEW t \in Template, NEW g \in Team \cup {None}, NEW b \in Body,
             BeginTemplate(e, t, g, b)
      PROVE  Entitled(e, request[e])'
  <2>1. request'[e].op = "new" /\ request'[e].team = g /\ UNCHANGED teamVars
    BY <1>0, <1>1 DEF BeginTemplate, Begin, Idle
  <2>2. TeamOf(request[e])' = g
    BY <2>1 DEF TeamOf
  <2>3. QED
    BY <1>1, <2>1, <2>2 DEF Entitled, BeginTemplate, EnsureTeamEditor, Member, teamVars
<1>2. ASSUME NEW t \in Template, EnsureTemplateEditor(e, t)
      PROVE  Entitled(e, request[e])'
  <2>1. /\ request'[e].op = "granted" /\ request'[e].tmpl = t /\ request'[e].row = None
        /\ UNCHANGED <<owningTeam, teams, role>>
    BY <1>0, <1>2 DEF EnsureTemplateEditor, Begin, Idle, tables, teamVars
  <2>2. TeamOf(request[e])' = owningTeam[t]
    BY <2>1 DEF TeamOf
  <2>3. QED
    BY <1>2, <2>1, <2>2 DEF Entitled, EnsureTemplateEditor, EnsureTeamEditor, Member
<1>3. ASSUME NEW t, NEW req, Take(e, t, req), req.op # "new",
             \/ req.row = None /\ req.tmpl = t
             \/ req.row \in Row /\ owner[req.row] = t
      PROVE  Entitled(e, request[e])'
  <2>1. /\ request[e].op = "granted" /\ request[e].tmpl = t /\ request[e].row = None
        /\ request[e] # Idle /\ request'[e] = req
        /\ UNCHANGED <<owner, owningTeam, teams, role>>
    BY <1>0, <1>3 DEF Take, RequestKnows, tables, teamVars, Idle
  <2>2. TeamOf(request[e]) = owningTeam[t]
    BY <2>1 DEF TeamOf
  <2>3. TeamOf(request[e])' = owningTeam[t]
    BY <1>3, <2>1, NoneIsNull DEF TeamOf
  <2>4. QED
    BY <2>1, <2>2, <2>3 DEF Entitled
<1>4. CASE Answer(e)
  BY <1>0, <1>4 DEF Answer
<1>5. ASSUME NEW t \in Template, NEW b \in Body, BeginVersion(e, t, b)
      PROVE  Entitled(e, request[e])'
  BY <1>3, <1>5 DEF BeginVersion, Idle
<1>6. ASSUME NEW r \in Row, NEW b,
             LoadForPublish(e, r) \/ LoadForUpdate(e, r, b) \/ LoadForDelete(e, r)
      PROVE  Entitled(e, request[e])'
  <2> DEFINE pub == [Idle EXCEPT !.op = "publish", !.row = r, !.tmpl = owner[r]]
             upd == [Idle EXCEPT !.op = "update", !.row = r, !.body = b]
             del == [Idle EXCEPT !.op = "delete", !.row = r]
  <2>1. /\ pub.op # "new" /\ pub.row = r
        /\ upd.op # "new" /\ upd.row = r
        /\ del.op # "new" /\ del.row = r
    BY DEF Idle
  <2>2. \/ Take(e, owner[r], pub)
        \/ Take(e, owner[r], upd)
        \/ Take(e, owner[r], del)
    BY <1>6 DEF LoadForPublish, LoadForUpdate, LoadForDelete
  <2> HIDE DEF pub, upd, del
  <2>3. QED
    BY <1>3, <2>1, <2>2
<1>7. ASSUME NEW r \in Row, NEW op \in {"deprecate", "undeprecate"}, NEW s,
             LoadForStatus(e, r, op, s)
      PROVE  Entitled(e, request[e])'
  <2> DEFINE req == [Idle EXCEPT !.op = op, !.row = r]
  <2>1. req.op # "new" /\ req.row = r
    BY DEF Idle
  <2>2. Take(e, owner[r], req)
    BY <1>7 DEF LoadForStatus
  <2> HIDE DEF req
  <2>3. QED
    BY <1>3, <2>1, <2>2
<1>8. QED
  BY <1>1, <1>2, <1>4, <1>5, <1>6, <1>7
     DEF Step, CreateTemplate, TemplateConflict, InsertVersion, InsertConflict,
         PublishVersion, UpdateTemplateVersion, DeleteTemplateVersion,
         DraftConflict, DeprecateVersion, UndeprecateVersion, Abandon

(* Requests stay entitled, or are recorded as revoked.                      *)
LEMMA AllowedStep ==
  IInv /\ InFlightIsAllowed /\ [Next]_vars => InFlightIsAllowed'
<1> SUFFICES ASSUME IInv, InFlightIsAllowed, [Next]_vars, NEW d \in Editor,
                    request'[d] # Idle, d \notin revoked'
             PROVE  Entitled(d, request[d])'
  BY DEF InFlightIsAllowed, Entitled
<1>0. request[d] # Idle /\ d \notin revoked => Entitled(d, request[d])
  BY DEF InFlightIsAllowed, Entitled
<1>1. CASE UNCHANGED vars
  BY <1>0, <1>1 DEF vars, tables, teamVars, Entitled, TeamOf
<1>2. ASSUME NEW e \in Editor, Step(e)
      PROVE  Entitled(d, request[d])'
  <2>0. request \in [Editor -> Request]
    BY DEF IInv, TypeOK
  <2>1. /\ \A c \in Editor \ {e} : request'[c] = request[c]
        /\ UNCHANGED teamVars
        /\ revoked' = revoked \/ (revoked' = revoked \ {e} /\ request'[e] = Idle)
    <3>1. CASE Answer(e)
      BY <2>0, <3>1 DEF Answer
    <3>2. ASSUME NEW req, Begin(e, req)
          PROVE  /\ \A c \in Editor \ {e} : request'[c] = request[c]
                 /\ UNCHANGED <<revoked, teamVars>>
      BY <2>0, <3>2 DEF Begin
    <3>3. ASSUME NEW t, NEW req, Take(e, t, req)
          PROVE  /\ \A c \in Editor \ {e} : request'[c] = request[c]
                 /\ UNCHANGED <<revoked, teamVars>>
      BY <2>0, <3>3 DEF Take
    <3>4. \/ Answer(e)
          \/ \E req : Begin(e, req)
          \/ \E t, req : Take(e, t, req)
      BY <1>2 DEF Step, BeginTemplate, CreateTemplate, TemplateConflict,
         EnsureTemplateEditor, BeginVersion, InsertVersion, InsertConflict,
         LoadForPublish, PublishVersion, LoadForUpdate, UpdateTemplateVersion,
         LoadForDelete, DeleteTemplateVersion, DraftConflict, LoadForStatus,
         DeprecateVersion, UndeprecateVersion, Abandon
    <3>5. QED
      BY <3>1, <3>2, <3>3, <3>4
  <2>2. CASE d = e
    <3>1. d \notin revoked
      BY <2>1, <2>2
    <3>2. QED
      BY <1>0, <1>2, <2>2, <3>1, OwnRight
  <2>3. CASE d # e
    <3>1. request'[d] = request[d] /\ d \notin revoked
      BY <2>1, <2>3
    <3>2. TeamOf(request[d])' = TeamOf(request[d])
      BY <1>2, <3>1, TeamStays
    <3>3. QED
      BY <1>0, <2>1, <3>1, <3>2 DEF Entitled, teamVars
  <2>4. QED
    BY <2>2, <2>3
<1>3. ASSUME NEW g \in Team, NEW e \in Member, Membership(g, e)
      PROVE  Entitled(d, request[d])'
  <2> DEFINE h == TeamOf(request[d])
  <2>1. request' = request /\ h' = h /\ d \notin revoked
    BY <1>3 DEF Membership, RecordRevoked, tables, TeamOf
  <2>2. CASE d \in Admin
    BY <2>2 DEF Entitled
  <2>3. CASE d \notin Admin
    <3>1. h \in Team /\ role[<<h, d>>] = "editor" /\ d \in Member
      BY <1>0, <2>1, <2>3 DEF Entitled, Member
    <3>2. role'[<<h, d>>] = "editor"
      BY <1>3, <2>1, <3>1 DEF Membership, RecordRevoked
    <3>3. QED
      BY <2>1, <3>1, <3>2 DEF Entitled
  <2>4. QED
    BY <2>2, <2>3
<1>4. ASSUME NEW g \in Team, NewTeam(g)
      PROVE  Entitled(d, request[d])'
  BY <1>0, <1>4 DEF NewTeam, CreateTeam, Entitled, TeamOf, tables
<1>5. QED
  BY <1>1, <1>2, <1>3, <1>4 DEF Next

(* A handler in flight acts for somebody who may edit the template it will  *)
(* write, or who could until after the request had begun.                   *)
THEOREM RevocationHolds == Spec => []InFlightIsAllowed
<1>1. Init => InFlightIsAllowed
  BY DEF Init, InFlightIsAllowed
<1>2. QED
  BY <1>1, InvCorrect, AllowedStep, PTL DEF Spec

-----------------------------------------------------------------------------
(* TemplateVersions implements VersionLifecycle.  Empty tables are its      *)
(* initial state.                                                           *)
LEMMA LifecycleStart == Init => Lifecycle!LifecycleInit
BY DEF Init, Lifecycle!LifecycleInit

(* A handler step that writes is the step of the life cycle it is named for *)
(* (or no step, for a status that is set to what it already was); one that  *)
(* reads or gives up leaves the life cycle alone.                           *)
LEMMA LifecycleStep ==
  IInv /\ [Next]_vars => [Lifecycle!LifecycleNext]_(Lifecycle!lifecycleVars)
<1> SUFFICES ASSUME IInv, Next
             PROVE  [Lifecycle!LifecycleNext]_(Lifecycle!lifecycleVars)
  BY DEF vars, tables, Lifecycle!lifecycleVars
<1> DEFINE Goal == [Lifecycle!LifecycleNext]_(Lifecycle!lifecycleVars)
<1>11. CASE \E g \in Team : NewTeam(g) \/ \E e \in Member : Membership(g, e)
  BY <1>11 DEF NewTeam, Membership, tables, Lifecycle!lifecycleVars
<1> SUFFICES ASSUME NEW e \in Editor, Step(e)
             PROVE  Goal
  BY <1>11 DEF Next
<1>0. RequestKnows(e) /\ TypeOK
  BY DEF IInv, RequestsKnow
<1>1. CASE UNCHANGED <<status, owner, content, current>>
  BY <1>1 DEF Lifecycle!lifecycleVars
<1>2. ASSUME NEW r \in Row, NEW t \in Template, NEW n, NEW b \in Body,
             InsertTemplateVersionV2(r, t, n, b), ~DraftTaken(t), UNCHANGED current
      PROVE  Goal
  <2>1. ~Lifecycle!HasDraft(t)
    BY <1>2 DEF DraftTaken, Versions, Stored, Lifecycle!HasDraft
  <2>2. Lifecycle!Draft(r, t, b)
    BY <1>2, <2>1 DEF InsertTemplateVersionV2, Lifecycle!Draft
  <2>3. QED
    BY <2>2 DEF Lifecycle!LifecycleNext
<1>3. ASSUME NEW r \in Row, CreateTemplate(e, r) PROVE Goal
  <2> DEFINE t == request[e].tmpl
  <2>1. ~DraftTaken(t) /\ t \in Template /\ request[e].body \in Body
    BY <1>0, <1>3 DEF CreateTemplate, TemplateRefused, DraftTaken, Versions, IInv,
         RowsAreOwned, Stored, RequestKnows
  <2>2. QED
    BY <1>2, <1>3, <2>1 DEF CreateTemplate
<1>4. ASSUME NEW r \in Row, InsertVersion(e, r) PROVE Goal
  <2>1. request[e].tmpl \in Template /\ request[e].body \in Body
    BY <1>0, <1>4 DEF InsertVersion, RequestKnows, TypeOK
  <2>2. QED
    BY <1>2, <1>4, <2>1 DEF InsertVersion, ViolatesUnique
<1> DEFINE row == request[e].row
<1>5. CASE PublishVersion(e)
  <2>1. row \in Row /\ request[e].tmpl = owner[row]
    BY <1>0, <1>5 DEF PublishVersion, RequestKnows
  <2>2. Lifecycle!Publish(row)
    BY <1>5, <2>1 DEF PublishVersion, PublishTemplateVersion, Lifecycle!Publish
  <2>3. QED
    BY <2>1, <2>2 DEF Lifecycle!LifecycleNext
<1>6. CASE UpdateTemplateVersion(e)
  <2>1. row \in Row /\ request[e].body \in Body
    BY <1>0, <1>6 DEF UpdateTemplateVersion, RequestKnows
  <2>2. Lifecycle!Edit(row, request[e].body)
    BY <1>6 DEF UpdateTemplateVersion, UpdateDraftTemplateVersion, Lifecycle!Edit
  <2>3. QED
    BY <2>1, <2>2 DEF Lifecycle!LifecycleNext
<1>7. CASE DeleteTemplateVersion(e)
  <2>1. row \in Row
    BY <1>0, <1>7 DEF DeleteTemplateVersion, RequestKnows
  <2>2. Lifecycle!Discard(row)
    BY <1>7 DEF DeleteTemplateVersion, DeleteDraftTemplateVersion, Lifecycle!Discard
  <2>3. QED
    BY <2>1, <2>2 DEF Lifecycle!LifecycleNext
<1>8. CASE DeprecateVersion(e)
  <2>1. row \in Row /\ status[row] \in Retired
    BY <1>0, <1>8 DEF DeprecateVersion, RequestKnows
  <2>2. status' = [status EXCEPT ![row] = "deprecated"]
    BY <1>8 DEF DeprecateVersion, SetTemplateVersionStatus
  <2>3. CASE status[row] = "published"
    <3>1. Lifecycle!Deprecate(row)
      BY <1>8, <2>2, <2>3 DEF DeprecateVersion, Lifecycle!Deprecate
    <3>2. QED
      BY <2>1, <3>1 DEF Lifecycle!LifecycleNext
  <2>4. CASE status[row] = "deprecated"
    <3>1. status' = status
      BY <1>0, <2>1, <2>2, <2>4 DEF TypeOK
    <3>2. QED
      BY <1>8, <3>1 DEF DeprecateVersion, Lifecycle!lifecycleVars
  <2>5. QED
    BY <2>1, <2>3, <2>4 DEF Retired
<1>9. CASE UndeprecateVersion(e)
  <2>1. row \in Row /\ status[row] \in Retired
    BY <1>0, <1>9 DEF UndeprecateVersion, RequestKnows
  <2>2. status' = [status EXCEPT ![row] = "published"]
    BY <1>9 DEF UndeprecateVersion, SetTemplateVersionStatus
  <2>3. CASE status[row] = "deprecated"
    <3>1. Lifecycle!Restore(row)
      BY <1>9, <2>2, <2>3 DEF UndeprecateVersion, Lifecycle!Restore
    <3>2. QED
      BY <2>1, <3>1 DEF Lifecycle!LifecycleNext
  <2>4. CASE status[row] = "published"
    <3>1. status' = status
      BY <1>0, <2>1, <2>2, <2>4 DEF TypeOK
    <3>2. QED
      BY <1>9, <3>1 DEF UndeprecateVersion, Lifecycle!lifecycleVars
  <2>5. QED
    BY <2>1, <2>3, <2>4 DEF Retired
<1>10. QED
  BY <1>1, <1>3, <1>4, <1>5, <1>6, <1>7, <1>8, <1>9
     DEF Step, BeginTemplate, TemplateConflict, EnsureTemplateEditor, BeginVersion,
         InsertConflict, LoadForPublish, LoadForUpdate, LoadForDelete,
         DraftConflict, LoadForStatus, Abandon, Begin, Take, tables

(* The handlers, split where other requests can interleave, implement the   *)
(* life cycle in which every transition is atomic.                          *)
THEOREM Refinement == Spec => ImplementsLifecycle
BY InvCorrect, LifecycleStart, LifecycleStep, PTL
   DEF Spec, ImplementsLifecycle, Lifecycle!LifecycleSpec
=============================================================================
