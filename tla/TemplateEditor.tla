--------------------------- MODULE TemplateEditor ---------------------------
(***************************************************************************)
(* The page of a template and the editor of its versions                   *)
(* (frontend/app/templates/[name]/page.tsx and                             *)
(* versions/[v]/edit/page.tsx) over the backend's versions and the proxy   *)
(* between them (app/api/v1/[...path]/route.ts), while other clients of    *)
(* the API work on the same template.  What the server does to a version   *)
(* is VersionLifecycle, which the backend's handlers implement             *)
(* (TemplateVersions).  A page shows what it once loaded, addresses a      *)
(* version by its number, and a number is used again after its draft is    *)
(* deleted.                                                                *)
(***************************************************************************)
EXTENDS FiniteSets, Naturals

CONSTANTS None, Template, Row, Body,  \* as in VersionLifecycle
          Text,         \* what a version says, in either mode
          Meta,         \* display name and tags of the template
          MaxCalls      \* bound on the saves in flight

Modes == {"ui", "yaml"}
ASSUME EditorIsGiven ==
  /\ Row \subseteq Nat /\ Body = [mode : Modes, text : Text]
  /\ Cardinality(Template) = 1 /\ None \notin Row \cup Body \cup Text \cup Meta

VARIABLES status, owner, content, current,  \* template_versions, templates
          number,       \* Row -> template_versions.version
          metadata,     \* display_name and tags in table templates
          page,         \* "detail", "ui" or "yaml": the component on the screen
          listed,       \* the versions as the page of the template shows them
          target,       \* the v of the editor's URL
          source,       \* sourceStatus and sourceAuthoringMode, or None
          text,         \* the editor's state
          meta, initialMeta,
          err,          \* what the page reports
          calls         \* the saves in flight

tables == <<status, owner, content, current, number, metadata>>
editor == <<target, source, text, meta, initialMeta>>
vars == <<tables, page, listed, editor, err, calls>>

Lifecycle == INSTANCE VersionLifecycle

Stored == {r \in Row : status[r] \in {"draft", "published", "deprecated"}}
At(n) == {r \in Stored : number[r] = n}
NextNumber(n) ==
  /\ \A r \in Stored : number[r] < n
  /\ n = 1 \/ \E r \in Stored : number[r] + 1 = n

-----------------------------------------------------------------------------
(* The server, behind the proxy of the frontend.  A request is a record of *)
(* its method and what the handler needs; Accepts says when it succeeds.   *)
Exported(m) == m \in {"GET", "POST", "PUT", "DELETE"}

Accepts(q) ==
  CASE q.what = "post" -> ~\E r \in Stored : status[r] = "draft"
    [] q.what = "patch" -> \E r \in At(q.n) : status[r] = "draft" /\ content[r].mode = q.body.mode
    [] q.what = "publish" -> \E r \in At(q.n) : status[r] = "draft"
    [] q.what = "delete" -> \E r \in At(q.n) : status[r] = "draft"
    [] q.what = "deprecate" -> \E r \in At(q.n) : status[r] = "published"
    [] q.what = "undeprecate" -> \E r \in At(q.n) : status[r] = "deprecated"

Perform(q) ==
  /\ CASE q.what = "post" ->
            \E t \in Template, r \in Row, n \in {1} \cup {number[s] + 1 : s \in Stored} :
              /\ \A s \in Row : status[s] = "unborn" => r <= s
              /\ NextNumber(n) /\ number' = [number EXCEPT ![r] = n]
              /\ Lifecycle!Draft(r, t, q.body)
       [] q.what = "patch" -> \E r \in At(q.n) : Lifecycle!Edit(r, q.body)
       [] q.what = "publish" -> \E r \in At(q.n) : Lifecycle!Publish(r)
       [] q.what = "delete" -> \E r \in At(q.n) : Lifecycle!Discard(r)
       [] q.what = "deprecate" -> \E r \in At(q.n) : Lifecycle!Deprecate(r)
       [] q.what = "undeprecate" -> \E r \in At(q.n) : Lifecycle!Restore(r)
  /\ q.what # "post" => UNCHANGED number
  /\ UNCHANGED metadata

Ask(what, n) == [what |-> what, n |-> n, body |-> None]
Write(what, n, b) == [what |-> what, n |-> n, body |-> b]

(* Another client of the API, which is not behind the proxy.               *)
Others(q) ==
  /\ Accepts(q) /\ Perform(q)
  /\ UNCHANGED <<page, listed, editor, err, calls>>

OthersRename(m) ==
  /\ metadata' = m
  /\ UNCHANGED <<status, owner, content, current, number, page, listed, editor, err, calls>>

-----------------------------------------------------------------------------
NoEditor == /\ target' = 0 /\ source' = None /\ text' = None
            /\ meta' = None /\ initialMeta' = None

(* A component that leaves the screen leaves its saves in flight.          *)
Orphaned(cs) == {[c EXCEPT !.mounted = FALSE] : c \in cs}

(* The page of the template shows the versions of the moment.              *)
Listing == {[n |-> number'[r], status |-> status'[r], mode |-> content'[r].mode] :
              r \in {s \in Row : status'[s] \in {"draft", "published", "deprecated"}}}
ShowDetail == page' = "detail" /\ listed' = Listing /\ NoEditor

Reload ==
  /\ calls' = Orphaned(calls) /\ err' = "none"
  /\ UNCHANGED tables
  /\ ShowDetail

(* The server actions: a button of the status that was listed; a refusal   *)
(* is thrown and shows an error page.                                      *)
Buttons(v) == CASE v.status = "draft" -> {"publish", "delete"}
                [] v.status = "published" -> {"deprecate"}
                [] v.status = "deprecated" -> {"undeprecate"}

Press(v, what) ==
  /\ page = "detail" /\ err = "none" /\ v \in listed /\ what \in Buttons(v)
  /\ IF Accepts(Ask(what, v.n))
     THEN Perform(Ask(what, v.n)) /\ ShowDetail /\ UNCHANGED err
     ELSE err' = "refused" /\ UNCHANGED <<tables, page, listed, editor>>
  /\ UNCHANGED calls

(* A link to the editor, in the mode the version was written in.           *)
Open(mode, n) ==
  /\ page' = mode /\ listed' = {} /\ target' = n
  /\ source' = None /\ text' = None /\ meta' = None /\ initialMeta' = None
  /\ err' = "none" /\ calls' = Orphaned(calls)
  /\ UNCHANGED tables

Follow(v) == page = "detail" /\ err = "none" /\ v \in listed /\ Open(v.mode, v.n)
SwitchMode == page # "detail" /\ \E m \in Modes \ {page} : Open(m, target)

(* The effect that loads the version; in UI mode the template with it,     *)
(* whose failure is not reported.  A YAML version is converted.            *)
Loading(mode) == page = mode /\ source = None /\ err = "none"
Loaded ==
  /\ \/ err' = "refused" /\ UNCHANGED <<source, text>>   \* no version, or no answer
     \/ \E r \in At(target) :
          /\ source' = [status |-> status[r], mode |-> content[r].mode]
          /\ text' = content[r].text
          /\ UNCHANGED err
  /\ UNCHANGED <<tables, page, listed, target, calls>>

LoadUi ==
  /\ Loading("ui") /\ Loaded
  /\ initialMeta' \in IF source' = None THEN {None} ELSE {metadata, None}
  /\ meta' = initialMeta'

LoadYaml == Loading("yaml") /\ Loaded /\ UNCHANGED <<meta, initialMeta>>

(* The UI editor gives way to its error; the YAML editor shows both.       *)
UiOnScreen == page = "ui" /\ source # None /\ err = "none"
YamlOnScreen == page = "yaml" /\ source # None

EditUi(t, m) ==
  /\ UiOnScreen
  /\ text' = t /\ meta' = m
  /\ UNCHANGED <<tables, page, listed, target, source, initialMeta, err, calls>>

EditYaml(t) ==
  /\ YamlOnScreen
  /\ text' = t
  /\ UNCHANGED <<tables, page, listed, target, source, meta, initialMeta, err, calls>>

-----------------------------------------------------------------------------
(* Saving.                                                                 *)
AnyYaml == source.mode # "ui"          \* mutant: of any status
IsYamlDraft == source.status = "draft" /\ source.mode # "ui"
IsUiDraft == source.status = "draft" /\ source.mode = "ui"

Saving == \E c \in calls : c.mounted
Blocked == (UiOnScreen /\ IsYamlDraft) \/ (YamlOnScreen /\ IsUiDraft)
CanSaveUi == UiOnScreen /\ ~Saving /\ ~IsYamlDraft
CanSaveYaml == YamlOnScreen /\ ~Saving /\ ~IsUiDraft

(* A draft is patched in place, anything else makes a new version; a YAML  *)
(* draft, seen in UI mode, would.                                          *)
SaveAsPatch == source.status = "draft" /\ source.mode = "ui"
InPlace == IF page = "ui" THEN SaveAsPatch ELSE source.status = "draft"
Request == Write(IF InPlace THEN "patch" ELSE "post", IF InPlace THEN target ELSE 0,
                 [mode |-> page, text |-> text])
Method(q) == IF q.what = "patch" THEN "PATCH" ELSE "POST"
MetaChanged == initialMeta # None /\ meta # initialMeta

CallNumbers == {c.no : c \in calls}
FreeCall(n) == n \notin CallNumbers /\ 1..(n - 1) \subseteq CallNumbers

Send(step, m) ==
  /\ \E n \in 1..MaxCalls :
       /\ FreeCall(n)
       /\ calls' = calls \cup {[no |-> n, step |-> step, request |-> Request,
                                meta |-> m, mounted |-> TRUE]}
  /\ err' = "none"
  /\ UNCHANGED <<tables, page, listed, editor>>

SaveUi == CanSaveUi /\ IF MetaChanged THEN Send("meta", meta) ELSE Send("version", None)
SaveYaml == CanSaveYaml /\ Send("version", None)

Fails(c, why) ==
  /\ calls' = calls \ {c}
  /\ err' = IF c.mounted THEN why ELSE err
  /\ UNCHANGED <<page, listed, editor>>

(* The metadata first; a failing PATCH aborts the save.                    *)
MetaIgnored(c) ==                      \* mutant: no return after the failure
  /\ c \in calls /\ c.step = "meta"
  /\ calls' = (calls \ {c}) \cup {[c EXCEPT !.step = "version"]}
  /\ metadata' = IF Exported("PATCH") THEN c.meta ELSE metadata
  /\ UNCHANGED <<status, owner, content, current, number, page, listed, editor, err>>

MetaAnswered(c) ==
  /\ c \in calls /\ c.step = "meta"
  /\ IF Exported("PATCH")
     THEN /\ metadata' = c.meta
          /\ calls' = (calls \ {c}) \cup {[c EXCEPT !.step = "version"]}
          /\ UNCHANGED <<page, listed, editor, err>>
     ELSE Fails(c, "405") /\ UNCHANGED metadata
  /\ UNCHANGED <<status, owner, content, current, number>>

(* The version.  router.push is called by whoever is left of the page.     *)
VersionAnswered(c) ==
  /\ c \in calls /\ c.step = "version"
  /\ IF ~Exported(Method(c.request)) THEN Fails(c, "405") /\ UNCHANGED tables
     ELSE \/ Fails(c, "refused") /\ UNCHANGED tables    \* or it does not validate
          \/ /\ Accepts(c.request) /\ Perform(c.request) /\ ShowDetail
             /\ calls' = Orphaned(calls \ {c}) /\ err' = "none"

(* The answer is lost on the way; the promise rejects and only finally     *)
(* runs, whatever the server did.                                          *)
NoFinally(c) ==                        \* mutant: saving is reset on answers only
  /\ c \in calls /\ c.mounted
  /\ calls' = (calls \ {c}) \cup {[c EXCEPT !.step = "lost"]}
  /\ UNCHANGED <<tables, page, listed, editor, err>>
AnswerLost(c) ==
  /\ c \in calls
  /\ \/ c.step = "version" /\ Exported(Method(c.request)) /\ Accepts(c.request)
        /\ Perform(c.request)
     \/ UNCHANGED tables
  /\ calls' = calls \ {c}
  /\ UNCHANGED <<page, listed, editor, err>>

-----------------------------------------------------------------------------
TypeOK ==
  /\ status \in [Row -> Lifecycle!Status] /\ owner \in [Row -> Template \cup {None}]
  /\ content \in [Row -> Body \cup {None}] /\ current \in [Template -> Row \cup {None}]
  /\ \A r, s \in Stored : number[r] = number[s] => r = s
  /\ metadata \in Meta /\ page \in Modes \cup {"detail"}
  /\ page = "detail" <=> target = 0
  /\ text \in Text \cup {None} /\ {meta, initialMeta} \subseteq Meta \cup {None}
  /\ err \in {"none", "refused", "405"}
  /\ Cardinality({c \in calls : c.mounted}) <= 1

OthersNext ==
  \/ \E b \in Body : Others(Write("post", 0, b))
  \/ \E r \in Stored, b \in Body : Others(Write("patch", number[r], b))
  \/ \E r \in Stored, w \in {"publish", "delete", "deprecate", "undeprecate"} :
       Others(Ask(w, number[r]))
  \/ \E m \in Meta : OthersRename(m)

PageNext ==
  \/ Reload \/ SwitchMode \/ LoadUi \/ LoadYaml \/ SaveUi \/ SaveYaml
  \/ \E v \in listed : Follow(v) \/ \E w \in Buttons(v) : Press(v, w)
  \/ \E t \in Text : EditYaml(t) \/ \E m \in Meta : EditUi(t, m)
  \/ \E c \in calls : MetaAnswered(c) \/ VersionAnswered(c) \/ AnswerLost(c)

Answers == \E c \in calls : c.mounted /\ (MetaAnswered(c) \/ VersionAnswered(c))

-----------------------------------------------------------------------------
(* Properties.                                                             *)

(* The version is still what the editor loaded.                            *)
SourceIsCurrent ==
  source # None /\ \E r \in At(target) : source = [status |-> status[r], mode |-> content[r].mode]

(* The editor refuses only what the server would refuse: where the button  *)
(* is disabled for a draft of the other mode, "a POST here would 409" and  *)
(* a PATCH would flip the mode of the draft.                               *)
DisabledIsRefused ==
  Blocked /\ SourceIsCurrent => ~Accepts(Request)

(* When a save brings the user back to the template, everything the editor *)
(* showed at the click is there: a draft with its content, and the display *)
(* name and tags, never "the version landing with stale meta".             *)
SuccessSavesAll ==
  [][page # "detail" /\ page' = "detail" =>
       \A c \in calls : (\A d \in calls' : d.no # c.no) =>
         /\ \E r \in Row : status'[r] = "draft" /\ content'[r] = c.request.body
         /\ c.meta # None => metadata' = c.meta]_vars

(* "draft + ui-authored source -> PATCH in place", and the same for YAML:  *)
(* a draft that is loaded, that nobody has touched since and whose editor  *)
(* offers to save it is one the server lets it save.                       *)
DraftsAreSavable ==
  (CanSaveUi \/ CanSaveYaml) /\ SourceIsCurrent /\ source.status = "draft" =>
    Exported(Method(Request)) /\ Accepts(Request)
=============================================================================
