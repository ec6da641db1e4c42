-------------------------- MODULE TemplateAuthoring --------------------------
(***************************************************************************)
(* A template from its creation on: the page that creates it (NewTemplate) *)
(* and the pages that edit it (TemplateEditor) over one server, with other *)
(* clients of the API.  A creation that the server accepts makes the       *)
(* template and its first version, a draft.                                *)
(***************************************************************************)
EXTENDS TemplateEditor, NewTemplate

allVars == <<vars, newVars>>

Exists == \E r \in Row : status[r] # "unborn"

NoTemplate ==
  /\ status = [r \in Row |-> "unborn"] /\ owner = [r \in Row |-> None]
  /\ content = [r \in Row |-> None] /\ current = [t \in Template |-> None]
  /\ number = [r \in Row |-> 0] /\ metadata \in Meta
  /\ page = "detail" /\ err = "none" /\ calls = {} /\ listed = {}
  /\ target = 0 /\ source = None /\ text = None /\ meta = None /\ initialMeta = None

AuthoringInit == NoTemplate /\ NewInit

(* CreateTemplate.                                                         *)
Create(mode) ==
  /\ ~Exists
  /\ \E t \in Text : Perform(Write("post", 0, [mode |-> mode, text |-> t]))
  /\ UNCHANGED <<page, listed, editor, err, calls>>

Created(p) == p \in posts /\ Create(p.mode) /\ PostAccepted(p)

(* The name is taken, or the server refuses what is posted.                *)
Refused(p) == PostRefused(p) /\ UNCHANGED vars

CreatedUnheard(p) ==
  /\ p \in posts
  /\ Create(p.mode) \/ UNCHANGED vars
  /\ PostLost(p)

(* The page that creates a template looks at the server only through the   *)
(* answer to its POST: what others do before is done while it is awaited,  *)
(* or after the page is left, which bounds the states and loses no answer. *)
OthersCreate ==
  /\ tab = "closed" \/ posts # {}
  /\ \E m \in Modes : Create(m)
  /\ UNCHANGED newVars

AuthoringNext ==
  \/ NewPageNext /\ UNCHANGED vars
  \/ \E p \in posts : Created(p) \/ Refused(p) \/ CreatedUnheard(p)
  \/ OthersCreate
  \/ Exists /\ tab = "closed" /\ (OthersNext \/ PageNext) /\ UNCHANGED newVars

(* A fetch of the browser is answered or fails.                            *)
PostAnswers == \E p \in posts : p.mounted /\ (Created(p) \/ Refused(p))

AuthoringSpec ==
  /\ AuthoringInit /\ [][AuthoringNext]_allVars
  /\ WF_allVars(PostAnswers)
  /\ WF_allVars(Answers /\ UNCHANGED newVars)

(* Neither page stays at "saving": whatever becomes of the answers, the    *)
(* button can be pressed again, or the page is left.                       *)
SavingEnds == /\ Posting ~> ~Posting
              /\ Saving ~> ~Saving
=============================================================================
