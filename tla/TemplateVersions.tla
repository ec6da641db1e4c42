-------------------------- MODULE TemplateVersions --------------------------
(***************************************************************************)
(* The template-version handlers of backend/internal/api/templates.go over *)
(* the tables templates and template_versions.  Every handler but          *)
(* CreateTemplate reads first and writes in a later statement, under READ  *)
(* COMMITTED, so a request is a value in flight between two steps: what    *)
(* the read returned, and the write that is still to come.  A row id is    *)
(* never reused; a version NUMBER is, after its draft is deleted.          *)
(*                                                                         *)
(* An Editor is a user with at most one mutation in flight: UpsertUser     *)
(* locks the caller's row of table users for the rest of the transaction,  *)
(* so two creations by one user never overlap.  What a request may do is   *)
(* decided at its beginning, by the rules of TeamPermissions.              *)
(***************************************************************************)
EXTENDS Naturals, TeamPermissions

CONSTANTS Template, Row, Body,
          MaxVersion    \* bound on version numbers

ASSUME NoneIsNull == None \notin Row \cup Template \cup Body
ASSUME MaxVersionIsNat == MaxVersion \in Nat

VARIABLES status,       \* Row -> template_versions.status
          owner,        \* Row -> template_versions.template_id
          content,      \* Row -> the YAML columns
          number,       \* Row -> template_versions.version
          current,      \* Template -> templates.current_version_id
          registered,   \* the templates that have a row
          owningTeam,   \* Template -> templates.owning_team_id
          request,      \* Editor -> the handler in flight
          revoked       \* history: editors who lost a role during their request

tables == <<status, owner, content, number, current, registered, owningTeam>>
vars == <<tables, request, revoked, teamVars>>

Lifecycle == INSTANCE VersionLifecycle

Ops == {"new", "granted", "create", "publish", "deprecate", "undeprecate",
        "update", "delete"}
Idle == [op |-> "none", row |-> None, tmpl |-> None, team |-> None,
         next |-> 0, body |-> None]
Request == [op : Ops \cup {"none"}, row : Row \cup {None},
            tmpl : Template \cup {None}, team : Team \cup {None}, next : Nat,
            body : Body \cup {None}]

Stored == {"draft", "published", "deprecated"}
Versions(t) == {r \in Row : status[r] \in Stored /\ owner[r] = t}

TypeOK ==
  /\ status \in [Row -> Stored \cup {"unborn", "gone"}]
  /\ owner \in [Row -> Template \cup {None}]
  /\ content \in [Row -> Body \cup {None}]
  /\ number \in [Row -> Nat]
  /\ current \in [Template -> Row \cup {None}]
  /\ registered \subseteq Template
  /\ owningTeam \in [Template -> Team \cup {None}]
  /\ revoked \subseteq Editor
  /\ TeamTypeOK
  /\ request \in [Editor -> Request]
  /\ \A e \in Editor : request[e].op = "new" => request[e].tmpl \in Template

Init ==
  /\ status = [r \in Row |-> "unborn"]
  /\ owner = [r \in Row |-> None]
  /\ content = [r \in Row |-> None]
  /\ number = [r \in Row |-> 0]
  /\ current = [t \in Template |-> None]
  /\ registered = {}
  /\ owningTeam = [t \in Template |-> None]
  /\ revoked = {}
  /\ TeamInit
  /\ request = [e \in Editor |-> Idle]

-----------------------------------------------------------------------------
(* The statements of queries/templates.sql, with the constraints of the    *)
(* schema they run against.                                                *)

(* SELECT COALESCE(MAX(version), 0) + 1, as the number n it returns.       *)
NextTemplateVersion(t, n) ==
  /\ \A r \in Versions(t) : number[r] < n
  /\ n = 1 \/ \E r \in Versions(t) : number[r] + 1 = n

(* The partial index tv_draft_unique and the index tv_unique_version.      *)
DraftTaken(t) == \E r \in Versions(t) : status[r] = "draft"
NumberTaken(t, n) == \E r \in Versions(t) : number[r] = n
NumberIndexOnly(t, n) == NumberTaken(t, n)        \* mutant: no tv_draft_unique
ViolatesUnique(t, n) == DraftTaken(t) \/ NumberTaken(t, n)

InsertTemplateVersionV2(r, t, n, b) ==
  /\ status[r] = "unborn"
  /\ status' = [status EXCEPT ![r] = "draft"]
  /\ owner' = [owner EXCEPT ![r] = t]
  /\ number' = [number EXCEPT ![r] = n]
  /\ content' = [content EXCEPT ![r] = b]

(* UPDATE or DELETE ... WHERE id = r AND status = 'draft'; before each, a  *)
(* mutant without the status in its WHERE clause.                          *)
PublishAnyVersion(r) ==
  /\ status[r] \in Stored
  /\ status' = [status EXCEPT ![r] = "published"]

PublishTemplateVersion(r) ==
  /\ status[r] = "draft"
  /\ status' = [status EXCEPT ![r] = "published"]

UpdateAnyVersion(r, b) ==
  /\ status[r] \in Stored
  /\ content' = [content EXCEPT ![r] = b]

UpdateDraftTemplateVersion(r, b) ==
  /\ status[r] = "draft"
  /\ content' = [content EXCEPT ![r] = b]

DeleteAnyVersion(r) ==
  /\ status[r] \in Stored
  /\ status' = [status EXCEPT ![r] = "gone"]
  /\ content' = [content EXCEPT ![r] = None]
  /\ number' = [number EXCEPT ![r] = 0]

DeleteDraftTemplateVersion(r) ==
  /\ status[r] = "draft"
  /\ status' = [status EXCEPT ![r] = "gone"]
  /\ content' = [content EXCEPT ![r] = None]
  /\ number' = [number EXCEPT ![r] = 0]

(* UPDATE ... WHERE id = r: the statement has no condition on the status.  *)
SetTemplateVersionStatus(r, s) ==
  /\ status[r] \in Stored
  /\ status' = [status EXCEPT ![r] = s]

-----------------------------------------------------------------------------
(* The handlers.  A request begins where the caller's right is checked;    *)
(* Load steps then read a row and check it, the other steps write and      *)
(* answer.                                                                 *)

Begin(e, req) ==
  /\ request[e] = Idle
  /\ request' = [request EXCEPT ![e] = req]
  /\ UNCHANGED <<tables, revoked, teamVars>>

Answer(e) ==
  /\ request' = [request EXCEPT ![e] = Idle]
  /\ revoked' = revoked \ {e}
  /\ UNCHANGED teamVars

(* CreateTemplate up to its transaction: the content and the caller are    *)
(* checked; that the team exists is left to the foreign key.               *)
BeginTemplate(e, t, g, b) ==
  /\ EnsureTeamEditor(e, g)
  /\ Begin(e, [Idle EXCEPT !.op = "new", !.tmpl = t, !.team = g, !.body = b])

(* Template and version 1 in one transaction; templates_name_uq refuses a  *)
(* second template of the name.                                            *)
TemplateRefused(q) == q.tmpl \in registered \/ q.team \notin teams \cup {None}

CreateTemplate(e, r) ==
  LET q == request[e] IN
  /\ q.op = "new"
  /\ ~TemplateRefused(q)
  /\ registered' = registered \cup {q.tmpl}
  /\ owningTeam' = [owningTeam EXCEPT ![q.tmpl] = q.team]
  /\ InsertTemplateVersionV2(r, q.tmpl, 1, q.body)
  /\ Answer(e)
  /\ UNCHANGED current

TemplateConflict(e) ==
  /\ request[e].op = "new"
  /\ TemplateRefused(request[e])
  /\ Answer(e)
  /\ UNCHANGED tables

(* Every other handler begins by reading the template and the caller's     *)
(* membership in the team that owns it.                                    *)
EnsureTemplateEditor(e, t) ==
  /\ t \in registered
  /\ EnsureTeamEditor(e, owningTeam[t])
  /\ Begin(e, [Idle EXCEPT !.op = "granted", !.tmpl = t])

(* The handler goes on with a row of template t, which it has looked up by *)
(* the name it was checked for and a number.                               *)
TakeById(e, t, req) ==        \* mutant: by an id, of whatever template
  /\ request[e].op = "granted"
  /\ request' = [request EXCEPT ![e] = req]
  /\ UNCHANGED <<tables, revoked, teamVars>>

Take(e, t, req) ==
  /\ request[e].op = "granted"
  /\ request[e].tmpl = t
  /\ request' = [request EXCEPT ![e] = req]
  /\ UNCHANGED <<tables, revoked, teamVars>>

(* CreateTemplateVersion up to NextTemplateVersion; its INSERT is a second *)
(* statement with a snapshot of its own.                                   *)
BeginVersion(e, t, b) ==
  \E n \in 1..MaxVersion :
    /\ NextTemplateVersion(t, n)
    /\ Take(e, t, [Idle EXCEPT !.op = "create", !.tmpl = t, !.next = n, !.body = b])

InsertVersion(e, r) ==
  LET q == request[e] IN
  /\ q.op = "create"
  /\ ~ViolatesUnique(q.tmpl, q.next)
  /\ InsertTemplateVersionV2(r, q.tmpl, q.next, q.body)
  /\ Answer(e)
  /\ UNCHANGED <<current, registered, owningTeam>>

InsertConflict(e) ==
  /\ request[e].op = "create"
  /\ ViolatesUnique(request[e].tmpl, request[e].next)
  /\ Answer(e)
  /\ UNCHANGED tables

(* PublishVersion looks the row up by number and does not look at its      *)
(* status; the transaction does, in the UPDATE's WHERE clause.             *)
LoadForPublish(e, r) ==
  /\ status[r] \in Stored
  /\ Take(e, owner[r], [Idle EXCEPT !.op = "publish", !.row = r, !.tmpl = owner[r]])

PublishVersion(e) ==
  LET q == request[e] IN
  /\ q.op = "publish"
  /\ PublishTemplateVersion(q.row)
  /\ current' = [current EXCEPT ![q.tmpl] = q.row]
  /\ Answer(e)
  /\ UNCHANGED <<owner, content, number, registered, owningTeam>>

(* UpdateTemplateVersion and DeleteTemplateVersion check the status they   *)
(* read, and again in the WHERE clause of the write.                       *)
LoadForUpdate(e, r, b) ==
  /\ status[r] = "draft"
  /\ Take(e, owner[r], [Idle EXCEPT !.op = "update", !.row = r, !.body = b])

UpdateTemplateVersion(e) ==
  LET q == request[e] IN
  /\ q.op = "update"
  /\ UpdateDraftTemplateVersion(q.row, q.body)
  /\ Answer(e)
  /\ UNCHANGED <<status, owner, number, current, registered, owningTeam>>

LoadForDelete(e, r) ==
  /\ status[r] = "draft"
  /\ Take(e, owner[r], [Idle EXCEPT !.op = "delete", !.row = r])

DeleteTemplateVersion(e) ==
  LET q == request[e] IN
  /\ q.op = "delete"
  /\ DeleteDraftTemplateVersion(q.row)
  /\ Answer(e)
  /\ UNCHANGED <<owner, current, registered, owningTeam>>

(* Zero rows updated or deleted: the version left draft since the read.    *)
DraftConflict(e) ==
  /\ request[e].op \in {"publish", "update", "delete"}
  /\ status[request[e].row] # "draft"
  /\ Answer(e)
  /\ UNCHANGED tables

(* setVersionStatus(expected, newStatus), for Deprecate and Undeprecate.   *)
LoadForStatus(e, r, op, expected) ==
  /\ status[r] = expected
  /\ Take(e, owner[r], [Idle EXCEPT !.op = op, !.row = r])

DeprecateVersion(e) ==
  /\ request[e].op = "deprecate"
  /\ SetTemplateVersionStatus(request[e].row, "deprecated")
  /\ Answer(e)
  /\ UNCHANGED <<owner, content, number, current, registered, owningTeam>>

UndeprecateVersion(e) ==
  /\ request[e].op = "undeprecate"
  /\ SetTemplateVersionStatus(request[e].row, "published")
  /\ Answer(e)
  /\ UNCHANGED <<owner, content, number, current, registered, owningTeam>>

(* The client goes away, the process dies or the database fails before the *)
(* write, or the handler finds no such version, or one of another status:  *)
(* the request ends and the transaction, if any, rolls back.               *)
Abandon(e) ==
  /\ request[e] # Idle
  /\ Answer(e)
  /\ UNCHANGED tables

Step(e) ==
  \/ \E t \in Template, g \in Team \cup {None}, b \in Body : BeginTemplate(e, t, g, b)
  \/ \E r \in Row : CreateTemplate(e, r)
  \/ TemplateConflict(e)
  \/ \E t \in Template : EnsureTemplateEditor(e, t)
  \/ \E t \in Template, b \in Body : BeginVersion(e, t, b)
  \/ \E r \in Row : InsertVersion(e, r)
  \/ InsertConflict(e)
  \/ \E r \in Row : LoadForPublish(e, r)
  \/ PublishVersion(e)
  \/ \E r \in Row, b \in Body : LoadForUpdate(e, r, b)
  \/ UpdateTemplateVersion(e)
  \/ \E r \in Row : LoadForDelete(e, r)
  \/ DeleteTemplateVersion(e)
  \/ DraftConflict(e)
  \/ \E r \in Row : LoadForStatus(e, r, "deprecate", "published")
  \/ DeprecateVersion(e)
  \/ \E r \in Row : LoadForStatus(e, r, "undeprecate", "deprecated")
  \/ UndeprecateVersion(e)
  \/ Abandon(e)

(* Meanwhile admins manage the teams. *)
RecordRevoked ==
  revoked' = revoked \cup {e \in Member : /\ request[e] # Idle
                                          /\ \E g \in Team : /\ role[<<g, e>>] = "editor"
                                                             /\ role'[<<g, e>>] # "editor"}

Membership(g, e) ==
  /\ \/ \E as \in Role : AddTeamMember(g, e, as)
     \/ RemoveTeamMember(g, e)
  /\ RecordRevoked
  /\ UNCHANGED <<tables, request>>

NewTeam(g) == CreateTeam(g) /\ UNCHANGED <<tables, request, revoked>>

Next ==
  \/ \E e \in Editor : Step(e)
  \/ \E g \in Team, e \in Member : Membership(g, e)
  \/ \E g \in Team : NewTeam(g)

Spec == Init /\ [][Next]_vars

-----------------------------------------------------------------------------
(* Properties.                                                             *)

(* At most one draft per template, whatever creations, deletions and       *)
(* publications overlap.                                                   *)
OneDraft ==
  \A r1, r2 \in Row :
    /\ status[r1] = "draft" /\ status[r2] = "draft"
    /\ owner[r1] = owner[r2]
    => r1 = r2

(* A template's current version is one of its own versions and has been    *)
(* published: no stale publish or delete makes current_version_id point    *)
(* at a draft, at a deleted row or at another template's version.          *)
CurrentWasPublished ==
  \A t \in Template : current[t] # None =>
    /\ status[current[t]] \in {"published", "deprecated"}
    /\ owner[current[t]] = t

(* A version once published keeps its content and is never again a draft   *)
(* nor deleted, although updates and deletions that read it while it was a *)
(* draft may still be in flight.                                           *)
PublishedIsImmutable ==
  [][\A r \in Row : status[r] \in {"published", "deprecated"} =>
       /\ status'[r] \in {"published", "deprecated"}
       /\ content'[r] = content[r]]_vars

(* Whoever has a request in flight may edit the very template whose row it *)
(* will write, or lost that right while it was in flight: taking somebody  *)
(* out of a team takes effect on every request that begins later.          *)
TeamOf(q) ==
  IF q.op = "new" THEN q.team
  ELSE owningTeam[IF q.row = None THEN q.tmpl ELSE owner[q.row]]

InFlightIsAllowed ==
  \A e \in Editor : request[e] # Idle /\ e \notin revoked =>
    LET g == TeamOf(request[e]) IN
    e \in Admin \/ (g \in Team /\ role[<<g, e>>] = "editor")

(* Every step of the handlers is a step of the promised life cycle, or     *)
(* changes nothing of it.                                                  *)
ImplementsLifecycle == Lifecycle!LifecycleSpec
=============================================================================
