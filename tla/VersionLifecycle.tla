-------------------------- MODULE VersionLifecycle --------------------------
(***************************************************************************)
(* What the version API promises about template versions, with nothing of  *)
(* the handlers in it: a version is drafted, edited while it is a draft,   *)
(* published once, and from then on only deprecated and restored; a draft  *)
(* may be discarded; publishing makes a version the template's current     *)
(* one.  Every transition is one atomic step.  TemplateVersions, whose     *)
(* handlers read a row and act on it later, implements this.               *)
(***************************************************************************)
CONSTANTS Template,   \* names in table templates
          Row,        \* ids of table template_versions, never reused
          Body,       \* contents of a version (its YAML columns)
          None        \* SQL NULL

VARIABLES status,     \* Row -> where the version is in its life
          owner,      \* Row -> template_id
          content,    \* Row -> the YAML columns
          current     \* Template -> current_version_id

lifecycleVars == <<status, owner, content, current>>

(* "unborn" and "gone" are the rows not yet inserted and already deleted. *)
Status == {"unborn", "draft", "published", "deprecated", "gone"}

LifecycleInit ==
  /\ status = [r \in Row |-> "unborn"]
  /\ owner = [r \in Row |-> None]
  /\ content = [r \in Row |-> None]
  /\ current = [t \in Template |-> None]

(* A template has at most one draft. *)
HasDraft(t) == \E r \in Row : status[r] = "draft" /\ owner[r] = t

Draft(r, t, b) ==
  /\ status[r] = "unborn"
  /\ ~HasDraft(t)
  /\ status' = [status EXCEPT ![r] = "draft"]
  /\ owner' = [owner EXCEPT ![r] = t]
  /\ content' = [content EXCEPT ![r] = b]
  /\ UNCHANGED current

Edit(r, b) ==
  /\ status[r] = "draft"
  /\ content' = [content EXCEPT ![r] = b]
  /\ UNCHANGED <<status, owner, current>>

Publish(r) ==
  /\ status[r] = "draft"
  /\ status' = [status EXCEPT ![r] = "published"]
  /\ current' = [current EXCEPT ![owner[r]] = r]
  /\ UNCHANGED <<owner, content>>

Deprecate(r) ==
  /\ status[r] = "published"
  /\ status' = [status EXCEPT ![r] = "deprecated"]
  /\ UNCHANGED <<owner, content, current>>

Restore(r) ==
  /\ status[r] = "deprecated"
  /\ status' = [status EXCEPT ![r] = "published"]
  /\ UNCHANGED <<owner, content, current>>

Discard(r) ==
  /\ status[r] = "draft"
  /\ status' = [status EXCEPT ![r] = "gone"]
  /\ content' = [content EXCEPT ![r] = None]
  /\ UNCHANGED <<owner, current>>

LifecycleNext ==
  \E r \in Row :
    \/ \E t \in Template, b \in Body : Draft(r, t, b)
    \/ \E b \in Body : Edit(r, b)
    \/ Publish(r)
    \/ Deprecate(r)
    \/ Restore(r)
    \/ Discard(r)

LifecycleSpec == LifecycleInit /\ [][LifecycleNext]_lifecycleVars
=============================================================================
