----------------------------- MODULE DeployPage -----------------------------
(***************************************************************************)
(* The page on which a user fills in the form of a template and creates or *)
(* updates a release (frontend/app/catalog/[name]/deploy/DeployClient.tsx) *)
(* with its preview of the resources and its access check.  Everything the *)
(* page asks the server is in flight for a while: renderings, checks,      *)
(* submissions and the list of clusters are answered in any order.  What   *)
(* the fields hold is one Value; Forms says how a value is validated.      *)
(***************************************************************************)
EXTENDS FiniteSets, Naturals

CONSTANTS None,
          Value,        \* what the form's fields may hold together
          Blank,        \* the value of a form without initialValues
          InRelease,    \* the values_json of the release to update
          Accepted,     \* the values the form's resolver accepts
          Renders,      \* the values for which /render answers 200
          KindsOf,      \* Value -> the kinds in its rendering
          Cluster, Namespace,
          Granted,      \* <<cluster, namespace>> -> kinds the user may create
          MaxPost,      \* bound on the submissions of a page
          MaxCheck      \* bound on the runs of the access check in flight

VARIABLES view,         \* "closed", "create" or "update" (isUpdate)
          listing,      \* the list of clusters is awaited
          clusters, saved,                 \* the list; localStorage kbp_cluster
          meta,         \* cluster and namespace (None when empty)
          values,       \* what the form holds
          due,          \* what the debounced preview will send, or None
          renders,      \* the values whose rendering is awaited
          rendered, pending,
          checks,       \* the runs of the panel's effect that are in flight
          panel,        \* its state: loading and results
          posts, posted, submitting, err   \* submissions in flight; their number

list == <<listing, clusters, saved>>
preview == <<due, renders, rendered, pending>>
access == <<checks, panel>>
submission == <<posts, posted, submitting, err>>
vars == <<view, meta, values, list, preview, access, submission>>

Kind == UNION {KindsOf[v] : v \in Value}

(* KIND_TO_RESOURCE: the kinds the panel can ask about.                    *)
Known == {"Deployment", "Service", "Ingress", "ConfigMap", "Secret", "StatefulSet",
          "DaemonSet", "Job", "CronJob", "PersistentVolumeClaim"}

ASSUME FormIsGiven ==
  /\ Blank \in Value /\ InRelease \in Value
  /\ Accepted \subseteq Value /\ Renders \subseteq Value
  /\ Granted \in [Cluster \X Namespace -> SUBSET (Kind \cap Known)]
  /\ "default" \in Namespace /\ MaxPost \in Nat
  /\ None \notin Value \cup Cluster \cup Namespace
  /\ None \notin [cluster : Cluster, namespace : Namespace, kinds : SUBSET Kind]

-----------------------------------------------------------------------------
Kinds == IF rendered = None THEN {} ELSE KindsOf[rendered]

(* The panel is on the page once a cluster and a namespace are given.      *)
Mounted == view # "closed" /\ meta.cluster # None /\ meta.namespace # None
Inputs == IF Mounted
          THEN [cluster |-> meta.cluster, namespace |-> meta.namespace, kinds |-> Kinds]
          ELSE None
HasInputs == Mounted /\ Kinds # {}

NoResults == [kinds |-> {}, denied |-> {}]
FreshPanel == [loading |-> FALSE, results |-> NoResults]

(* The effect of the panel: whatever changes its inputs abandons the run   *)
(* in flight, and starts one if there is something to ask.  A run that is  *)
(* abandoned for want of inputs leaves "loading" as it is.  A panel that   *)
(* leaves the page loses its state.                                        *)
Recheck ==
  IF Inputs' = Inputs THEN UNCHANGED access
  ELSE /\ checks' = {[c EXCEPT !.active = FALSE] : c \in checks}
                      \cup {[of |-> i, active |-> TRUE] : i \in IF HasInputs' THEN {Inputs'} ELSE {}}
       /\ LET kept == IF Mounted /\ Mounted' THEN panel ELSE FreshPanel IN
          panel' = [kept EXCEPT !.loading = HasInputs' \/ @]
       /\ Cardinality(checks') <= MaxCheck

EffectiveResults == IF HasInputs THEN panel.results ELSE NoResults
AllAllowed ==
  ~panel.loading /\ EffectiveResults.kinds # {} /\ EffectiveResults.denied = {}

(* A kind is denied if the server says so, or if asking failed; unknown    *)
(* kinds are not asked about.  An abandoned run changes nothing.           *)
AnyRun(c) == TRUE                      \* mutant: no "if (active)"
StillActive(c) == c.active

CheckAnswered(c) ==
  /\ c \in checks
  /\ checks' = checks \ {c}
  /\ IF ~StillActive(c) THEN UNCHANGED panel
     ELSE \E failed \in SUBSET (c.of.kinds \cap Known) :
            panel' = [loading |-> FALSE,
                      results |-> [kinds |-> c.of.kinds,
                                   denied |-> failed \cup
                                     ((c.of.kinds \cap Known) \ Granted[<<c.of.cluster, c.of.namespace>>])]]
  /\ UNCHANGED <<view, meta, values, list, preview, submission>>

-----------------------------------------------------------------------------
TypeOK ==
  /\ view \in {"closed", "create", "update"}
  /\ listing \in BOOLEAN /\ clusters \subseteq Cluster /\ saved \in Cluster \cup {None}
  /\ meta.cluster \in Cluster \cup {None} /\ meta.namespace \in Namespace \cup {None}
  /\ values \in Value /\ due \in Value \cup {None}
  /\ renders \subseteq Value /\ rendered \in Renders \cup {None} /\ pending \in BOOLEAN
  /\ \A c \in checks : c.of.cluster \in Cluster /\ c.of.namespace \in Namespace
  /\ \A p \in posts : p.no \in 1..MaxPost /\ (p.method = "POST" => p.cluster \in Cluster)
  /\ panel.loading \in BOOLEAN
  /\ panel.results.denied \subseteq panel.results.kinds
  /\ submitting \in BOOLEAN /\ err \in BOOLEAN /\ posted \in 0..MaxPost

EmptyMeta == [cluster |-> None, namespace |-> "default"]

(* The state of a component that has just been mounted.                    *)
Reset(v) ==
  /\ view' = v /\ meta' = EmptyMeta
  /\ listing' = (v = "create") /\ clusters' = {} /\ UNCHANGED saved
  /\ due' = None /\ renders' = {} /\ rendered' = None /\ pending' = FALSE
  /\ checks' = {} /\ panel' = FreshPanel
  /\ posts' = {} /\ posted' = 0 /\ submitting' = FALSE /\ err' = FALSE

Init ==
  /\ view = "closed" /\ meta = EmptyMeta /\ values = Blank
  /\ listing = FALSE /\ clusters = {} /\ saved = None
  /\ due = None /\ renders = {} /\ rendered = None /\ pending = FALSE
  /\ checks = {} /\ panel = FreshPanel
  /\ posts = {} /\ posted = 0 /\ submitting = FALSE /\ err = FALSE

(* The catalogue's route opens an empty form for the current version.      *)
OpenCurrent ==
  /\ view = "closed"
  /\ \E v \in {"create", "update"} : Reset(v)
  /\ values' = Blank

(* The pinned route fills it with the values of the release, if it can     *)
(* read them; without a release it creates one.                            *)
OpenPinned ==
  /\ view = "closed"
  /\ \/ Reset("create") /\ values' = Blank
     \/ Reset("update") /\ values' \in {InRelease, Blank}

(* The user goes elsewhere, or router.push shows the release.  What is in  *)
(* flight is answered to nobody.                                           *)
Leave ==
  /\ view # "closed"
  /\ Reset("closed") /\ UNCHANGED values

-----------------------------------------------------------------------------
(* The clusters.  The first name is any of the list.                       *)
PreferSaved(names) ==                  \* mutant: no names.includes(cached)
  IF saved # None THEN {saved} ELSE IF names = {} THEN {None} ELSE names
Preselect(names) ==
  IF saved \in names THEN {saved} ELSE IF names = {} THEN {None} ELSE names

ClustersAnswered ==
  /\ listing
  /\ listing' = FALSE
  /\ \/ \E names \in SUBSET Cluster :
          /\ clusters' = names
          /\ \E c \in Preselect(names) : meta' = IF c = None THEN meta ELSE [meta EXCEPT !.cluster = c]
     \/ UNCHANGED <<clusters, meta>>   \* it failed
  /\ UNCHANGED <<view, values, saved, preview, submission>>
  /\ Recheck

PickCluster(c) ==
  /\ view = "create" /\ c \in clusters
  /\ meta' = [meta EXCEPT !.cluster = c] /\ saved' = c
  /\ UNCHANGED <<view, values, listing, clusters, preview, submission>>
  /\ Recheck

EditNamespace(n) ==
  /\ view = "create"
  /\ meta' = [meta EXCEPT !.namespace = n]
  /\ UNCHANGED <<view, values, list, preview, submission>>
  /\ Recheck

-----------------------------------------------------------------------------
(* The preview: every change starts the 300 ms anew, and a rendering is    *)
(* neither numbered nor cancelled.                                         *)
EditForm(v) ==
  /\ view # "closed" /\ v # values
  /\ values' = v /\ due' = v
  /\ UNCHANGED <<view, meta, list, renders, rendered, pending, access, submission>>

SendPreview ==
  /\ due # None
  /\ renders' = renders \cup {due} /\ due' = None
  /\ pending' = TRUE
  /\ UNCHANGED <<view, meta, values, list, rendered, access, submission>>

PendingOnError(v) ==                   \* mutant: setPending(false) on success only
  /\ v \in renders
  /\ renders' = renders \ {v}
  /\ \/ v \in Renders /\ rendered' = v /\ pending' = FALSE
     \/ rendered' = None /\ UNCHANGED pending
  /\ UNCHANGED <<view, meta, values, list, due, submission>>
  /\ Recheck

PreviewAnswered(v) ==
  /\ v \in renders
  /\ renders' = renders \ {v}
  /\ \/ v \in Renders /\ rendered' = v
     \/ rendered' = None
  /\ pending' = FALSE
  /\ UNCHANGED <<view, meta, values, list, due, submission>>
  /\ Recheck

-----------------------------------------------------------------------------
(* The submission: the button is disabled without a cluster, and not while *)
(* a submission is in flight.                                              *)
Submittable == view = "update" \/ meta.cluster # None

Submit ==
  /\ view # "closed" /\ Submittable /\ values \in Accepted /\ posted < MaxPost
  /\ posted' = posted + 1
  /\ posts' = posts \cup {[no |-> posted + 1, method |-> IF view = "update" THEN "PUT" ELSE "POST",
                           cluster |-> meta.cluster]}
  /\ submitting' = TRUE /\ err' = FALSE
  /\ UNCHANGED <<view, meta, values, list, preview, access>>

(* On success router.push leads to Leave.                                  *)
SubmitAnswered(p) ==
  /\ p \in posts
  /\ posts' = posts \ {p}
  /\ err' \in {err, TRUE}
  /\ submitting' = FALSE
  /\ UNCHANGED <<view, meta, values, list, preview, access, posted>>

Next ==
  \/ OpenCurrent \/ OpenPinned \/ Leave \/ ClustersAnswered \/ SendPreview \/ Submit
  \/ \E c \in Cluster : PickCluster(c)
  \/ \E n \in Namespace \cup {None} : EditNamespace(n)
  \/ \E v \in Value : EditForm(v) \/ PreviewAnswered(v)
  \/ \E c \in checks : CheckAnswered(c)
  \/ \E p \in posts : SubmitAnswered(p)

(* A request is answered, or fails, and a timer runs out.  The user owes   *)
(* the page nothing.                                                       *)
Fairness ==
  /\ WF_vars(ClustersAnswered) /\ WF_vars(SendPreview)
  /\ \A v \in Value : WF_vars(PreviewAnswered(v))
  /\ WF_vars(\E c \in checks : c.active /\ CheckAnswered(c))
  /\ WF_vars(\E p \in posts : SubmitAnswered(p))

Spec == Init /\ [][Next]_vars /\ Fairness

-----------------------------------------------------------------------------
(* Properties.                                                             *)

(* When the panel says that everything may be created, it says so of the   *)
(* kinds, the cluster and the namespace that are on the page now, however  *)
(* they changed while earlier checks were in flight.                       *)
ApprovalIsTrue ==
  AllAllowed => /\ EffectiveResults.kinds = Kinds
                /\ (Kinds \cap Known) \subseteq Granted[<<meta.cluster, meta.namespace>>]

(* A release is created on a cluster of the list that the page was given   *)
(* last, although the browser remembers one from another time.             *)
CreatesOnListed == \A p \in posts : p.method = "POST" => p.cluster \in clusters

(* The page does not wait for ever: the marks of a preview and of a        *)
(* submission end, and so does a check as long as there is something to    *)
(* check.                                                                  *)
WaitsEnd ==
  /\ pending ~> ~pending
  /\ submitting ~> ~submitting
  /\ (HasInputs /\ panel.loading) ~> ~(HasInputs /\ panel.loading)
=============================================================================
