----------------------------- MODULE NewTemplate -----------------------------
(***************************************************************************)
(* The page on which a template is created (frontend/app/templates/new/    *)
(* page.tsx, components/KindPicker.tsx and components/editor/MetaRow.tsx). *)
(* In UI mode the template is a list of resources, each added with the     *)
(* schema of its kind that a cluster serves; schemas arrive in any order.  *)
(* TemplateAuthoring composes the page with the server and the editor.     *)
(***************************************************************************)
EXTENDS FiniteSets, Naturals, Sequences

CONSTANTS Nothing,
          Cluster, Kind,
          Serves,       \* Cluster -> the kinds whose schema it has
          Tag,
          MaxResources, \* bound on resources, those in flight included
          MaxPosts      \* bound on the creations in flight

ASSUME PageIsGiven ==
  /\ Serves \in [Cluster -> SUBSET Kind] /\ Nothing \notin Cluster \cup Kind
  /\ MaxResources \in Nat /\ MaxPosts \in Nat

VARIABLES tab,          \* "ui" or "yaml", or "closed"
          listing,      \* the clusters are awaited
          clusters, cluster, remembered,  \* and sessionStorage kbp:editor-cluster
          adds,         \* the schemas that are awaited
          resources, active,
          form,         \* MetaRow: whether there is a name, and the tags
          posts,        \* the creations in flight
          failed        \* err

picker == <<listing, clusters, cluster, remembered>>
newVars == <<tab, picker, adds, resources, active, form, posts, failed>>

EmptyForm == [named |-> FALSE, tags |-> <<>>]

(* Adds are numbered, and so are the resources they make; "edited" holds   *)
(* the numbers of the resources for which a field was edited.              *)
NewTypeOK ==
  /\ tab \in {"ui", "yaml", "closed"} /\ listing \in BOOLEAN
  /\ clusters \subseteq Cluster /\ {cluster, remembered} \subseteq Cluster \cup {Nothing}
  /\ \A a \in adds : a.kind \in Kind /\ a.cluster \in Cluster
  /\ \A i, j \in DOMAIN resources : resources[i].no = resources[j].no => i = j
  /\ active # Nothing => active.idx \in DOMAIN resources
  /\ form.named \in BOOLEAN
  /\ \A i, j \in DOMAIN form.tags : form.tags[i] = form.tags[j] => i = j
  /\ failed \in BOOLEAN /\ Cardinality({p \in posts : p.mounted}) <= 1

NewInit ==
  /\ tab \in {"ui", "yaml"} /\ listing = (tab = "ui")
  /\ clusters = {} /\ cluster = Nothing /\ remembered \in Cluster \cup {Nothing}
  /\ adds = {} /\ resources = <<>> /\ active = Nothing
  /\ form = EmptyForm /\ posts = {} /\ failed = FALSE

(* Another tab, or another page: the component starts from nothing, and    *)
(* what it awaited reaches nobody but for the posts.  Nobody comes back to *)
(* the page here, so what is remembered no longer matters.                 *)
Show(t) ==
  /\ tab' = t /\ listing' = (t = "ui")
  /\ clusters' = {} /\ cluster' = Nothing
  /\ remembered' = IF t = "closed" THEN Nothing ELSE remembered
  /\ adds' = {} /\ resources' = <<>> /\ active' = Nothing
  /\ form' = EmptyForm /\ failed' = FALSE

SwitchTab ==
  /\ tab # "closed"
  /\ Show(IF tab = "ui" THEN "yaml" ELSE "ui")
  /\ posts' = {[p EXCEPT !.mounted = FALSE] : p \in posts}

LeaveNew == tab # "closed" /\ posts = {} /\ Show("closed") /\ UNCHANGED posts

-----------------------------------------------------------------------------
(* The cluster that schemas are read from.                                 *)
Remembered(names) ==
  IF remembered \in names THEN {remembered} ELSE IF names = {} THEN {Nothing} ELSE names

ClustersListed ==
  /\ listing /\ listing' = FALSE
  /\ \/ /\ \E names \in SUBSET Cluster : clusters' = names /\ cluster' \in Remembered(names)
        /\ UNCHANGED failed
     \/ UNCHANGED <<clusters, cluster>> /\ failed' \in {failed, TRUE}
  /\ UNCHANGED <<tab, remembered, adds, resources, active, form, posts>>

(* Without a cluster there is nothing else on the page.                    *)
Editing == tab = "ui" /\ clusters # {}

PickCluster(c) ==
  /\ Editing /\ c \in clusters
  /\ cluster' = c /\ remembered' = c
  /\ UNCHANGED <<tab, listing, clusters, adds, resources, active, form, posts, failed>>

-----------------------------------------------------------------------------
(* The resources.                                                          *)
Numbers == {a.no : a \in adds} \cup {resources[i].no : i \in DOMAIN resources}

FreeNumber(n) == n \notin Numbers /\ 1..(n - 1) \subseteq Numbers

AddKind(k) ==
  /\ Editing
  /\ \E n \in 1..MaxResources :
       /\ FreeNumber(n)
       /\ adds' = adds \cup {[no |-> n, kind |-> k, cluster |-> cluster,
                              shown |-> Len(resources)]}
  /\ UNCHANGED <<tab, picker, resources, active, form, posts, failed>>

NumberAtClick(a) == a.shown + 1        \* mutant: resources.length, not prev.length
NumberNow(a) == Len(resources) + 1

AtFront(r) == <<r>> \o resources       \* mutant: the newest first
AtEnd(r) == Append(resources, r)

SchemaAnswered(a) ==
  /\ a \in adds /\ adds' = adds \ {a}
  /\ \/ /\ a.kind \in Serves[a.cluster]
        /\ resources' = AtEnd([no |-> a.no, name |-> <<a.kind, NumberNow(a)>>,
                               renamed |-> FALSE, edited |-> {}])
        /\ UNCHANGED failed
     \/ failed' = TRUE /\ UNCHANGED resources
  /\ UNCHANGED <<tab, picker, active, form, posts>>

Rename(i) ==
  /\ Editing /\ i \in DOMAIN resources
  /\ \E k \in Kind, n \in 1..MaxResources :
       resources' = [resources EXCEPT ![i].name = <<k, n>>, ![i].renamed = TRUE]
  /\ UNCHANGED <<tab, picker, adds, active, form, posts, failed>>

Select(i) ==
  /\ Editing /\ i \in DOMAIN resources
  /\ active' = [idx |-> i, no |-> resources[i].no]
  /\ UNCHANGED <<tab, picker, adds, resources, form, posts, failed>>

(* FieldInspector changes, or clears, a field of the active resource.      *)
EditField ==
  /\ Editing /\ active # Nothing
  /\ resources' = [resources EXCEPT ![active.idx].edited = @ \cup {active.no}]
  /\ UNCHANGED <<tab, picker, adds, active, form, posts, failed>>

-----------------------------------------------------------------------------
(* The name and the tags; a tag is added once.                             *)
SetForm(f) ==
  /\ tab = "yaml" \/ Editing
  /\ form' = f
  /\ UNCHANGED <<tab, picker, adds, resources, active, posts, failed>>

HasTag(t) == \E i \in DOMAIN form.tags : form.tags[i] = t
EditName(named) == SetForm([form EXCEPT !.named = named])
AddTag(t) == ~HasTag(t) /\ SetForm([form EXCEPT !.tags = Append(@, t)])
RemoveTag(t) == SetForm([form EXCEPT !.tags = SelectSeq(@, LAMBDA x : x # t)])

-----------------------------------------------------------------------------
(* The creation.                                                           *)
Posting == \E p \in posts : p.mounted
CanSaveNew == form.named /\ ~Posting /\ (tab = "yaml" \/ (Editing /\ resources # <<>>))

SaveDraft ==
  /\ CanSaveNew /\ Cardinality(posts) < MaxPosts
  /\ posts' = posts \cup {[mode |-> tab, mounted |-> TRUE]}
  /\ failed' = FALSE
  /\ UNCHANGED <<tab, picker, adds, resources, active, form>>

PostRefused(p) ==
  /\ p \in posts /\ posts' = posts \ {p}
  /\ failed' = (failed \/ p.mounted)
  /\ UNCHANGED <<tab, picker, adds, resources, active, form>>

PostLost(p) ==
  /\ p \in posts /\ posts' = posts \ {p}
  /\ UNCHANGED <<tab, picker, adds, resources, active, form, failed>>

(* router.push.                                                            *)
PostAccepted(p) == p \in posts /\ posts' = posts \ {p} /\ Show("closed")

NewPageNext ==
  \/ SwitchTab \/ LeaveNew \/ ClustersListed \/ EditField \/ SaveDraft
  \/ \E c \in Cluster : PickCluster(c)
  \/ \E k \in Kind : AddKind(k)
  \/ \E a \in adds : SchemaAnswered(a)
  \/ \E i \in 1..MaxResources : Rename(i) \/ Select(i)
  \/ \E named \in BOOLEAN : EditName(named)
  \/ \E t \in Tag : AddTag(t) \/ RemoveTag(t)

-----------------------------------------------------------------------------
(* Properties.                                                             *)

(* Two resources that nobody renamed have different names, although the    *)
(* schemas of several kinds may be awaited at once: the name is the key of *)
(* the resource in every path of the ui-spec.                              *)
NamesAreFresh ==
  \A i, j \in DOMAIN resources :
    ~resources[i].renamed /\ ~resources[j].renamed /\ resources[i].name = resources[j].name
    => i = j

(* What is edited in the inspector goes to the resource that was selected, *)
(* although the inspector keeps an index and resources are added while it  *)
(* is open.                                                                *)
EditsLandWhereSelected ==
  \A i \in DOMAIN resources : resources[i].edited \subseteq {resources[i].no}
=============================================================================
