------------------------ MODULE TemplateAuthoringProofs ------------------------
(* Theorems of NewTemplate and TemplateEditor, composed by TemplateAuthoring, *)
(* for any number of versions, resources, schemas awaited, saves in flight    *)
(* and other clients of the API.  The two pages share no state, so each has   *)
(* an invariant of its own: the one about the list of resources, and what     *)
(* their names and the selection say of places in it; the other about the     *)
(* numbers of the stored versions, and about what a save in flight has done.  *)
EXTENDS TemplateAuthoring, FiniteSetTheorems, TLAPS

-----------------------------------------------------------------------------
(* The page that creates a template.                                         *)
Number == 1..MaxResources
Resource == [no : Number, name : Kind \X Nat, renamed : BOOLEAN, edited : SUBSET Number]
Add == [no : Number, kind : Kind, cluster : Cluster \cup {Nothing}, shown : Nat]

ListTyped == adds \subseteq Add /\ resources \in Seq(Resource)

(* A name that was never changed tells the place of its resource.            *)
NamesTellPlaces ==
  \A i \in DOMAIN resources : ~resources[i].renamed => resources[i].name[2] = i

SelectionHolds ==
  active # Nothing => /\ active.idx \in DOMAIN resources
                      /\ active.no = resources[active.idx].no

NewInv ==
  /\ ListTyped /\ cluster \in Cluster \cup {Nothing}
  /\ clusters \subseteq Cluster /\ remembered \in Cluster \cup {Nothing}
  /\ NamesTellPlaces /\ SelectionHolds /\ EditsLandWhereSelected

(* The list and the selection are the only things that matter to it.         *)
LEMMA NewSame == NewInv /\ UNCHANGED newVars => NewInv'
BY DEF NewInv, newVars, picker, ListTyped, NamesTellPlaces, SelectionHolds,
   EditsLandWhereSelected

LEMMA NewShows == ASSUME NewInv, NEW t, Show(t) PROVE NewInv'
<1>1. /\ adds' = {} /\ resources' = <<>> /\ active' = Nothing
      /\ clusters' = {} /\ cluster' = Nothing /\ remembered' \in {remembered, Nothing}
  BY DEF Show
<1>2. <<>> \in Seq(Resource) /\ DOMAIN <<>> = {}
  OBVIOUS
<1>3. QED
  BY <1>1, <1>2 DEF NewInv, ListTyped, NamesTellPlaces, SelectionHolds,
     EditsLandWhereSelected

(* What leaves the list and the selection alone.                             *)
LEMMA NewAside ==
  ASSUME NewInv, UNCHANGED <<adds, resources, active>>,
         cluster' \in Cluster \cup {Nothing}, clusters' \subseteq Cluster,
         remembered' \in Cluster \cup {Nothing}
  PROVE  NewInv'
BY DEF NewInv, ListTyped, NamesTellPlaces, SelectionHolds, EditsLandWhereSelected

(* A resource is changed where it stands.                                    *)
LEMMA NewChanges ==
  ASSUME NewInv, NEW i \in DOMAIN resources, NEW r \in Resource,
         resources' = [resources EXCEPT ![i] = r], r.no = resources[i].no,
         ~r.renamed => ~resources[i].renamed /\ r.name = resources[i].name,
         r.edited \subseteq {r.no},
         UNCHANGED <<adds, active, clusters, cluster, remembered>>
  PROVE  NewInv'
<1>1. resources' \in Seq(Resource) /\ DOMAIN resources' = DOMAIN resources
  BY DEF NewInv, ListTyped
<1>2. \A j \in DOMAIN resources : resources'[j] = IF j = i THEN r ELSE resources[j]
  BY DEF NewInv, ListTyped
<1>3. NamesTellPlaces'
  BY <1>1, <1>2 DEF NewInv, NamesTellPlaces
<1>4. SelectionHolds'
  BY <1>1, <1>2 DEF NewInv, SelectionHolds
<1>5. EditsLandWhereSelected'
  BY <1>1, <1>2 DEF NewInv, EditsLandWhereSelected
<1>6. QED
  BY <1>1, <1>3, <1>4, <1>5 DEF NewInv, ListTyped

LEMMA NewStep == NewInv /\ NewPageNext => NewInv'
<1> SUFFICES ASSUME NewInv, NewPageNext PROVE NewInv'
  OBVIOUS
<1>1. CASE SwitchTab \/ LeaveNew
  BY <1>1, NewShows DEF SwitchTab, LeaveNew
<1>2. CASE ClustersListed
  <2>1. clusters' \subseteq Cluster /\ cluster' \in Cluster \cup {Nothing}
    BY <1>2 DEF ClustersListed, Remembered, NewInv
  <2>2. QED
    BY <1>2, <2>1, NewAside DEF ClustersListed, NewInv
<1>3. ASSUME NEW c \in Cluster, PickCluster(c) PROVE NewInv'
  BY <1>3, NewAside DEF PickCluster, NewInv
<1>4. ASSUME NEW k \in Kind, AddKind(k) PROVE NewInv'
  <2>1. adds' \subseteq Add /\ UNCHANGED <<resources, active, picker>>
    <3>1. Len(resources) \in Nat
      BY DEF NewInv, ListTyped
    <3>2. QED
      BY <1>4, <3>1 DEF AddKind, Add, Number, NewInv, ListTyped
  <2>2. QED
    BY <2>1 DEF NewInv, ListTyped, NamesTellPlaces, SelectionHolds,
       EditsLandWhereSelected, picker
<1>5. ASSUME NEW a \in adds, SchemaAnswered(a) PROVE NewInv'
  <2>1. adds' \subseteq Add /\ a \in Add /\ UNCHANGED <<active, picker>>
    BY <1>5 DEF SchemaAnswered, NewInv, ListTyped
  <2>2. CASE UNCHANGED resources
    BY <2>1, <2>2 DEF NewInv, ListTyped, NamesTellPlaces, SelectionHolds,
       EditsLandWhereSelected, picker
  <2>3. CASE ~UNCHANGED resources
    <3> DEFINE r == [no |-> a.no, name |-> <<a.kind, Len(resources) + 1>>,
                     renamed |-> FALSE, edited |-> {}]
    <3>1. resources' = Append(resources, r)
      BY <1>5, <2>3 DEF SchemaAnswered, AtEnd, NumberNow
    <3>2. r \in Resource /\ r.name[2] = Len(resources) + 1 /\ r.edited = {}
      BY <2>1 DEF Resource, Add, NewInv, ListTyped
    <3> HIDE DEF r
    <3>3. /\ resources' \in Seq(Resource)
          /\ Len(resources) \in Nat /\ DOMAIN resources = 1..Len(resources)
          /\ DOMAIN resources' = 1..(Len(resources) + 1)
          /\ \A i \in DOMAIN resources : resources'[i] = resources[i]
          /\ resources'[Len(resources) + 1] = r
      BY <3>1, <3>2 DEF NewInv, ListTyped
    <3>4. \A i \in DOMAIN resources' : i \in DOMAIN resources \/ i = Len(resources) + 1
      BY <3>3
    <3>5. NamesTellPlaces'
      BY <3>2, <3>3, <3>4 DEF NewInv, NamesTellPlaces
    <3>6. SelectionHolds'
      BY <2>1, <3>3 DEF NewInv, SelectionHolds
    <3>7. EditsLandWhereSelected'
      BY <3>2, <3>3, <3>4 DEF NewInv, EditsLandWhereSelected
    <3>8. QED
      BY <2>1, <3>3, <3>5, <3>6, <3>7 DEF NewInv, ListTyped, picker
  <2>4. QED
    BY <2>2, <2>3
<1>6. ASSUME NEW i \in 1..MaxResources, Rename(i) PROVE NewInv'
  <2>1. PICK k \in Kind, n \in Number :
          resources' = [resources EXCEPT ![i].name = <<k, n>>, ![i].renamed = TRUE]
    BY <1>6 DEF Rename, Number
  <2>2. i \in DOMAIN resources /\ resources[i] \in Resource
    BY <1>6 DEF Rename, NewInv, ListTyped
  <2> DEFINE r == [resources[i] EXCEPT !.name = <<k, n>>, !.renamed = TRUE]
  <2>3. r \in Resource
    <3>1. <<k, n>> \in Kind \X Nat
      BY DEF Number
    <3>2. QED
      BY <2>2, <3>1 DEF Resource
  <2>6. r.no = resources[i].no /\ r.renamed /\ r.edited = resources[i].edited
    BY <2>2 DEF Resource
  <2>4. resources' = [resources EXCEPT ![i] = r]
    BY <2>1, <2>2 DEF Resource, NewInv, ListTyped
  <2> HIDE DEF r
  <2>5. QED
    BY <1>6, <2>2, <2>3, <2>4, <2>6, NewChanges DEF Rename, picker, NewInv, EditsLandWhereSelected
<1>7. ASSUME NEW i \in 1..MaxResources, Select(i) PROVE NewInv'
  BY <1>7 DEF Select, NewInv, ListTyped, NamesTellPlaces, SelectionHolds,
     EditsLandWhereSelected, picker
<1>8. CASE EditField
  <2> DEFINE i == active.idx
  <2>1. /\ i \in DOMAIN resources /\ resources[i] \in Resource
        /\ active.no = resources[i].no
    BY <1>8 DEF EditField, NewInv, SelectionHolds, ListTyped
  <2> DEFINE r == [resources[i] EXCEPT !.edited = @ \cup {active.no}]
  <2>2. r \in Resource /\ r.no = resources[i].no /\ r.renamed = resources[i].renamed
          /\ r.name = resources[i].name /\ r.edited \subseteq {r.no}
    BY <2>1 DEF Resource, NewInv, EditsLandWhereSelected
  <2>3. resources' = [resources EXCEPT ![i] = r]
    BY <1>8, <2>1 DEF EditField, Resource, NewInv, ListTyped
  <2> HIDE DEF r
  <2>4. QED
    BY <1>8, <2>1, <2>2, <2>3, NewChanges DEF EditField, picker
<1>9. CASE SaveDraft
  BY <1>9, NewAside DEF SaveDraft, picker, NewInv
<1>10. ASSUME NEW f, SetForm(f) PROVE NewInv'
  BY <1>10, NewAside DEF SetForm, picker, NewInv
<1>11. QED
  BY <1>1, <1>2, <1>3, <1>4, <1>5, <1>6, <1>7, <1>8, <1>9, <1>10
     DEF NewPageNext, EditName, AddTag, RemoveTag

(* What others do, and the answers to the POST, keep it too.                 *)
LEMMA NewStarts == NewInit => NewInv
BY DEF NewInit, NewInv, ListTyped, NamesTellPlaces, SelectionHolds, EditsLandWhereSelected

LEMMA NewInductive == NewInv /\ [AuthoringNext]_allVars => NewInv'
<1> SUFFICES ASSUME NewInv, [AuthoringNext]_allVars PROVE NewInv'
  OBVIOUS
<1>1. CASE NewPageNext
  BY <1>1, NewStep
<1>2. CASE UNCHANGED newVars
  BY <1>2, NewSame
<1>3. ASSUME NEW p \in posts, Created(p) \/ Refused(p) \/ CreatedUnheard(p) PROVE NewInv'
  <2>1. CASE Created(p)
    BY <2>1, NewShows DEF Created, PostAccepted
  <2>2. CASE Refused(p) \/ CreatedUnheard(p)
    BY <2>2, NewAside DEF Refused, CreatedUnheard, PostRefused, PostLost, picker, NewInv
  <2>3. QED
    BY <1>3, <2>1, <2>2
<1>4. QED
  BY <1>1, <1>2, <1>3 DEF AuthoringNext, OthersCreate, allVars

LEMMA NewInvariance == AuthoringSpec => []NewInv
<1>1. AuthoringInit => NewInv
  BY NewStarts DEF AuthoringInit
<1>2. QED
  BY <1>1, NewInductive, PTL DEF AuthoringSpec

(* Resources that nobody renamed have different names, however many schemas  *)
(* were awaited at once: the number is taken when the answer arrives.        *)
THEOREM NamesCorrect == AuthoringSpec => []NamesAreFresh
<1>1. NewInv => NamesAreFresh
  BY DEF NewInv, NamesTellPlaces, NamesAreFresh
<1>2. QED
  BY <1>1, NewInvariance, PTL

(* What is edited in the inspector goes to the resource that was selected:   *)
(* resources are only ever added behind it.                                  *)
THEOREM EditsCorrect == AuthoringSpec => []EditsLandWhereSelected
<1>1. NewInv => EditsLandWhereSelected
  BY DEF NewInv
<1>2. QED
  BY <1>1, NewInvariance, PTL

-----------------------------------------------------------------------------
(* The pages that edit a template: first the tables that they show.          *)
Version == {"draft", "published", "deprecated"}

TablesInv ==
  /\ status \in [Row -> Lifecycle!Status] /\ owner \in [Row -> Template \cup {None}]
  /\ content \in [Row -> Body \cup {None}] /\ current \in [Template -> Row \cup {None}]
  /\ number \in [Row -> Nat] /\ metadata \in Meta
  /\ \A r \in Stored : content[r] \in Body /\ number[r] # 0
  /\ \A r, s \in Stored : number[r] = number[s] => r = s

LEMMA TablesSame == TablesInv /\ UNCHANGED tables => TablesInv'
BY DEF TablesInv, tables, Stored

(* A draft takes a number above all that are stored.                         *)
LEMMA Drafted ==
  ASSUME TablesInv, UNCHANGED metadata, NEW r \in Row, NEW t \in Template, NEW b \in Body,
         NEW n \in {1} \cup {number[s] + 1 : s \in Stored}, NextNumber(n),
         number' = [number EXCEPT ![r] = n], Lifecycle!Draft(r, t, b)
  PROVE  TablesInv' /\ status'[r] = "draft" /\ content'[r] = b
<1>1. \A s \in Stored : s \in Row /\ number[s] \in Nat
  BY DEF Stored, TablesInv
<1>2. n \in Nat /\ n # 0
  BY <1>1
<1>3. \A s \in Stored : number[s] # n
  BY <1>1, <1>2 DEF NextNumber
<1>4. /\ status' = [status EXCEPT ![r] = "draft"] /\ content' = [content EXCEPT ![r] = b]
      /\ owner' = [owner EXCEPT ![r] = t] /\ UNCHANGED current
  BY DEF Lifecycle!Draft
<1>5. /\ status' \in [Row -> Lifecycle!Status] /\ owner' \in [Row -> Template \cup {None}]
      /\ content' \in [Row -> Body \cup {None}] /\ current' \in [Template -> Row \cup {None}]
  BY <1>4 DEF TablesInv, Lifecycle!Status
<1>6. number' \in [Row -> Nat]
  BY <1>2 DEF TablesInv
<1>7. status'[r] = "draft" /\ content'[r] = b /\ number'[r] = n
  BY <1>4 DEF TablesInv
<1>8. ASSUME NEW s \in Stored', s # r
      PROVE  s \in Stored /\ content'[s] = content[s] /\ number'[s] = number[s]
  BY <1>4, <1>8 DEF TablesInv, Stored
<1>9. \A s \in Stored' : content'[s] \in Body /\ number'[s] # 0
  BY <1>2, <1>7, <1>8 DEF TablesInv
<1>10. \A s, u \in Stored' : number'[s] = number'[u] => s = u
  BY <1>3, <1>7, <1>8 DEF TablesInv
<1>11. QED
  BY <1>5, <1>6, <1>7, <1>9, <1>10 DEF TablesInv

(* A version that is stored stays with its number, or is deleted.            *)
LEMMA Moved ==
  ASSUME TablesInv, UNCHANGED <<metadata, number, owner>>, NEW r \in Stored,
         NEW st \in Version \cup {"gone"}, NEW b \in Body \cup {None},
         b \in Body \/ st = "gone",
         status' = [status EXCEPT ![r] = st], content' = [content EXCEPT ![r] = b],
         current' \in [Template -> Row \cup {None}]
  PROVE  TablesInv'
<1>1. /\ status' \in [Row -> Lifecycle!Status] /\ content' \in [Row -> Body \cup {None}]
      /\ r \in Row
  BY DEF TablesInv, Lifecycle!Status, Version, Stored
<1>2. ASSUME NEW s \in Stored'
      PROVE  s \in Stored /\ content'[s] \in Body
  BY <1>1, <1>2 DEF TablesInv, Stored
<1>3. QED
  BY <1>1, <1>2 DEF TablesInv

Wanted(q) ==
  /\ q.what \in {"post", "patch", "publish", "delete", "deprecate", "undeprecate"}
  /\ q.what \in {"post", "patch"} => q.body \in Body

(* What the server does keeps it; and what it accepts of a save is a draft   *)
(* that says what the save asked for.                                        *)
LEMMA Performed ==
  ASSUME TablesInv, NEW q, Wanted(q), Perform(q)
  PROVE  /\ TablesInv'
         /\ q.what \in {"post", "patch"} =>
              \E r \in Row : status'[r] = "draft" /\ content'[r] = q.body
<1>1. CASE q.what = "post"
  BY <1>1, Drafted DEF Perform, Wanted
<1>2. CASE q.what = "patch"
  <2>1. PICK r \in At(q.n) : Lifecycle!Edit(r, q.body)
    BY <1>2 DEF Perform
  <2>2. r \in Stored /\ r \in Row /\ status[r] = "draft" /\ UNCHANGED <<metadata, number>>
    BY <1>2, <2>1 DEF At, Stored, Lifecycle!Edit, Perform
  <2>3. /\ content' = [content EXCEPT ![r] = q.body]
        /\ UNCHANGED <<status, owner, current>> /\ q.body \in Body
    BY <1>2, <2>1 DEF Lifecycle!Edit, Wanted
  <2>4. status' = [status EXCEPT ![r] = "draft"]
    BY <2>2, <2>3 DEF TablesInv
  <2>5. TablesInv'
    BY <2>2, <2>3, <2>4, Moved DEF TablesInv, Version
  <2>6. QED
    BY <2>2, <2>3, <2>5 DEF TablesInv
<1>3. ASSUME q.what \in {"publish", "deprecate", "undeprecate"} PROVE TablesInv'
  <2>1. PICK r \in At(q.n) : Lifecycle!Publish(r) \/ Lifecycle!Deprecate(r) \/ Lifecycle!Restore(r)
    BY <1>3 DEF Perform
  <2>2. r \in Stored /\ r \in Row /\ UNCHANGED <<metadata, number>>
    BY <1>3, <2>1 DEF At, Stored, Perform
  <2>3. PICK st \in Version : status' = [status EXCEPT ![r] = st]
    BY <2>1 DEF Lifecycle!Publish, Lifecycle!Deprecate, Lifecycle!Restore, Version
  <2>4. UNCHANGED <<owner, content>> /\ content[r] \in Body
    BY <2>1, <2>2 DEF Lifecycle!Publish, Lifecycle!Deprecate, Lifecycle!Restore, TablesInv
  <2>5. content' = [content EXCEPT ![r] = content[r]]
    BY <2>4 DEF TablesInv
  <2>6. current' \in [Template -> Row \cup {None}]
    BY <2>1, <2>2 DEF Lifecycle!Publish, Lifecycle!Deprecate, Lifecycle!Restore, TablesInv
  <2>7. QED
    BY <2>2, <2>3, <2>4, <2>5, <2>6, Moved
<1>4. ASSUME q.what = "delete" PROVE TablesInv'
  <2>1. PICK r \in At(q.n) : Lifecycle!Discard(r)
    BY <1>4 DEF Perform
  <2>2. r \in Stored /\ UNCHANGED <<metadata, number>>
    BY <1>4, <2>1 DEF At, Perform
  <2>3. /\ status' = [status EXCEPT ![r] = "gone"] /\ content' = [content EXCEPT ![r] = None]
        /\ UNCHANGED <<owner, current>>
    BY <2>1 DEF Lifecycle!Discard
  <2>4. QED
    BY <2>2, <2>3, Moved DEF TablesInv
<1>5. QED
  BY <1>1, <1>2, <1>3, <1>4 DEF Wanted

(* The creations in flight are of one of the two modes.                      *)
Post == [mode : Modes, mounted : BOOLEAN]
PostsTyped == posts \subseteq Post

LEMMA PostsStep == PostsTyped /\ [AuthoringNext]_allVars => PostsTyped'
<1> SUFFICES ASSUME PostsTyped, [AuthoringNext]_allVars PROVE PostsTyped'
  OBVIOUS
<1>1. CASE SwitchTab
  BY <1>1 DEF SwitchTab, PostsTyped, Post
<1>2. CASE SaveDraft
  <2>1. tab \in Modes
    BY <1>2 DEF SaveDraft, CanSaveNew, Editing, Modes
  <2>2. [mode |-> tab, mounted |-> TRUE] \in Post
    BY <2>1 DEF Post
  <2>3. posts' = posts \cup {[mode |-> tab, mounted |-> TRUE]}
    BY <1>2 DEF SaveDraft
  <2>4. QED
    BY <2>2, <2>3 DEF PostsTyped
<1>3. CASE posts' \subseteq posts
  BY <1>3 DEF PostsTyped
<1>4. NewPageNext => SwitchTab \/ SaveDraft \/ posts' \subseteq posts
  BY DEF NewPageNext, LeaveNew, ClustersListed, EditField, PickCluster, AddKind,
     SchemaAnswered, Rename, Select, EditName, AddTag, RemoveTag, SetForm
<1>5. UNCHANGED newVars => posts' \subseteq posts
  BY DEF newVars
<1>6. \A p \in posts : Created(p) \/ Refused(p) \/ CreatedUnheard(p) => posts' \subseteq posts
  BY DEF Created, Refused, CreatedUnheard, PostAccepted, PostRefused, PostLost
<1>7. QED
  BY <1>1, <1>2, <1>3, <1>4, <1>5, <1>6 DEF AuthoringNext, OthersCreate, allVars

-----------------------------------------------------------------------------
(* What the pages keep, and the saves in flight: the one of the editor on    *)
(* the screen, and those whose editor was left.                              *)
Line == [n : Nat \ {0}, status : Version, mode : Modes]
Source == [status : Version, mode : Modes]
Save == [what : {"post", "patch"}, n : Nat, body : Body]
Call == [no : 1..MaxCalls, step : {"meta", "version"}, request : Save,
         meta : Meta \cup {None}, mounted : BOOLEAN]

PageTyped ==
  /\ page \in Modes \cup {"detail"} /\ target \in Nat
  /\ page = "detail" <=> target = 0
  /\ listed \subseteq Line /\ source \in Source \cup {None}
  /\ text \in Text \cup {None} /\ (source # None => text \in Text)
  /\ meta \in Meta \cup {None} /\ initialMeta \in Meta \cup {None}
  /\ err \in {"none", "refused", "405"}

CallsTyped == calls \subseteq Call /\ \A c \in calls : c.step = "version" => c.meta = None

OneSaveMounted == \A c, d \in calls : c.mounted /\ d.mounted => c = d

EditorInv == TablesInv /\ PostsTyped /\ PageTyped /\ CallsTyped /\ OneSaveMounted

LEMMA Orphans ==
  ASSUME CallsTyped, NEW cs \in SUBSET calls
  PROVE  /\ Orphaned(cs) \subseteq Call
         /\ \A c \in Orphaned(cs) : ~c.mounted /\ (c.step = "version" => c.meta = None)
         /\ \A c \in cs : \E d \in Orphaned(cs) : d.no = c.no
<1>1. ASSUME NEW c \in Call
      PROVE  /\ [c EXCEPT !.mounted = FALSE] \in Call
             /\ ~[c EXCEPT !.mounted = FALSE].mounted
             /\ [c EXCEPT !.mounted = FALSE].no = c.no
             /\ [c EXCEPT !.mounted = FALSE].step = c.step
             /\ [c EXCEPT !.mounted = FALSE].meta = c.meta
  BY DEF Call
<1>2. \A c \in cs : c \in Call /\ (c.step = "version" => c.meta = None)
  BY DEF CallsTyped
<1>3. Orphaned(cs) \subseteq Call
  BY <1>1, <1>2 DEF Orphaned
<1>4. ASSUME NEW d \in Orphaned(cs)
      PROVE  ~d.mounted /\ (d.step = "version" => d.meta = None)
  <2>1. PICK c \in cs : d = [c EXCEPT !.mounted = FALSE]
    BY DEF Orphaned
  <2>2. c \in Call /\ (c.step = "version" => c.meta = None)
    BY <1>2
  <2>3. ~d.mounted
    BY <1>1, <2>1, <2>2
  <2>4. d.step = c.step /\ d.meta = c.meta
    BY <1>1, <2>1, <2>2
  <2>5. QED
    BY <2>2, <2>3, <2>4
<1>5. \A c \in cs : \E d \in Orphaned(cs) : d.no = c.no
  BY <1>1, <1>2 DEF Orphaned
<1>6. QED
  BY <1>3, <1>4, <1>5

(* The saves of an editor that is left.                                      *)
LEMMA CallsLeft ==
  ASSUME CallsTyped, NEW cs \in SUBSET calls, calls' = Orphaned(cs)
  PROVE  CallsTyped' /\ OneSaveMounted'
BY Orphans DEF CallsTyped, OneSaveMounted

LEMMA CallsFewer ==
  ASSUME CallsTyped, OneSaveMounted, calls' \subseteq calls
  PROVE  CallsTyped' /\ OneSaveMounted'
BY DEF CallsTyped, OneSaveMounted

(* The page of the template.                                                 *)
LEMMA DetailShown ==
  ASSUME TablesInv', ShowDetail, err' \in {"none", "refused", "405"}
  PROVE  PageTyped'
<1>1. \A r \in Stored' : content'[r] \in Body /\ number'[r] \in Nat \ {0} /\ status'[r] \in Version
  BY DEF TablesInv, Stored, Version
<1>2. \A r \in Stored' : content'[r].mode \in Modes
  BY <1>1, EditorIsGiven
<1>3. Listing \subseteq Line
  BY <1>1, <1>2 DEF Listing, Line, Stored
<1>4. QED
  BY <1>3 DEF ShowDetail, NoEditor, PageTyped

LEMMA Opened ==
  ASSUME NEW m \in Modes, NEW n \in Nat \ {0}, Open(m, n)
  PROVE  PageTyped'
BY DEF Open, PageTyped, Modes

(* A version that the editor loads.                                          *)
LEMMA SourceTyped ==
  ASSUME TablesInv, NEW r \in At(target)
  PROVE  [status |-> status[r], mode |-> content[r].mode] \in Source /\ content[r].text \in Text
<1>1. status[r] \in Version /\ content[r] \in Body
  BY DEF TablesInv, At, Stored, Version
<1>2. content[r].mode \in Modes /\ content[r].text \in Text
  BY <1>1, EditorIsGiven
<1>3. QED
  BY <1>1, <1>2 DEF Source

(* The page is as it was, but for what it reports.                           *)
LEMMA PageSame ==
  ASSUME PageTyped, UNCHANGED <<page, listed, editor>>, err' \in {"none", "refused", "405"}
  PROVE  PageTyped'
BY DEF PageTyped, editor

LEMMA CallsSame == CallsTyped /\ OneSaveMounted /\ UNCHANGED calls => CallsTyped' /\ OneSaveMounted'
BY DEF CallsTyped, OneSaveMounted

(* What a save sends is what the editor shows.                               *)
LEMMA SaveTyped ==
  ASSUME PageTyped, page \in Modes, source # None
  PROVE  Request \in Save
<1>1. [mode |-> page, text |-> text] \in Body
  BY EditorIsGiven DEF PageTyped
<1>2. QED
  BY <1>1 DEF Request, Write, Save, PageTyped

LEMMA Sent ==
  ASSUME PageTyped, CallsTyped, Request \in Save, ~Saving,
         NEW st, NEW m \in Meta \cup {None}, st = "meta" \/ (st = "version" /\ m = None),
         Send(st, m)
  PROVE  PageTyped' /\ CallsTyped' /\ OneSaveMounted' /\ UNCHANGED tables
<1>1. PICK n \in 1..MaxCalls :
        calls' = calls \cup {[no |-> n, step |-> st, request |-> Request,
                              meta |-> m, mounted |-> TRUE]}
  BY DEF Send
<1> DEFINE c == [no |-> n, step |-> st, request |-> Request, meta |-> m, mounted |-> TRUE]
<1>2. c \in Call
  BY DEF Call
<1>3. c.step = "version" => c.meta = None
  OBVIOUS
<1> HIDE DEF c
<1>4. calls' = calls \cup {c}
  BY <1>1 DEF c
<1>5. CallsTyped'
  BY <1>2, <1>3, <1>4 DEF CallsTyped
<1>6. OneSaveMounted'
  BY <1>4 DEF OneSaveMounted, Saving
<1>7. QED
  BY <1>5, <1>6, PageSame DEF Send

PagesInv == PageTyped /\ CallsTyped /\ OneSaveMounted

(* The saves: only POST and DELETE, PUT and GET pass the proxy.              *)
LEMMA SaveAnswered ==
  ASSUME TablesInv, PagesInv, NEW c \in calls,
         MetaAnswered(c) \/ VersionAnswered(c) \/ AnswerLost(c)
  PROVE  TablesInv' /\ PagesInv'
<1>1. c \in Call /\ c.request \in Save /\ Wanted(c.request)
  BY DEF PagesInv, CallsTyped, Call, Save, Wanted
<1>2. Perform(c.request) => TablesInv'
  BY <1>1, Performed
<1>3. ASSUME UNCHANGED tables, NEW why \in {"405", "refused"}, Fails(c, why)
      PROVE  TablesInv' /\ PagesInv'
  <2>1. PageTyped'
    BY <1>3, PageSame DEF Fails, PagesInv, PageTyped
  <2>2. CallsTyped' /\ OneSaveMounted'
    BY <1>3, CallsFewer DEF Fails, PagesInv
  <2>3. QED
    BY <1>3, <2>1, <2>2, TablesSame DEF PagesInv
<1>4. CASE MetaAnswered(c)
  BY <1>3, <1>4 DEF MetaAnswered, Exported, tables
<1>5. CASE VersionAnswered(c)
  <2>1. CASE Perform(c.request) /\ ShowDetail /\ calls' = Orphaned(calls \ {c}) /\ err' = "none"
    <3>1. PageTyped'
      BY <1>2, <2>1, DetailShown
    <3>2. CallsTyped' /\ OneSaveMounted'
      BY <2>1, CallsLeft DEF PagesInv
    <3>3. QED
      BY <1>2, <2>1, <3>1, <3>2 DEF PagesInv
  <2>2. QED
    BY <1>3, <1>5, <2>1 DEF VersionAnswered
<1>6. CASE AnswerLost(c)
  <2>1. TablesInv'
    BY <1>2, <1>6, TablesSame DEF AnswerLost
  <2>2. PageTyped'
    BY <1>6, PageSame DEF AnswerLost, PagesInv, PageTyped
  <2>3. CallsTyped' /\ OneSaveMounted'
    BY <1>6, CallsFewer DEF AnswerLost, PagesInv
  <2>4. QED
    BY <2>1, <2>2, <2>3 DEF PagesInv
<1>7. QED
  BY <1>4, <1>5, <1>6

LEMMA EditorStep == TablesInv /\ PagesInv /\ PageNext => TablesInv' /\ PagesInv'
<1> SUFFICES ASSUME TablesInv, PagesInv, PageNext PROVE TablesInv' /\ PagesInv'
  OBVIOUS
<1> USE DEF PagesInv
<1>1. CASE Reload
  <2>1. TablesInv'
    BY <1>1, TablesSame DEF Reload
  <2>2. QED
    BY <1>1, <2>1, DetailShown, CallsLeft DEF Reload
<1>2. ASSUME NEW m \in Modes, NEW n \in Nat \ {0}, Open(m, n) PROVE TablesInv' /\ PagesInv'
  <2>1. CallsTyped' /\ OneSaveMounted'
    BY <1>2, CallsLeft DEF Open
  <2>2. QED
    BY <1>2, <2>1, Opened, TablesSame DEF Open
<1>3. CASE SwitchMode
  BY <1>2, <1>3 DEF SwitchMode, PageTyped
<1>4. ASSUME NEW v \in listed, Follow(v) PROVE TablesInv' /\ PagesInv'
  <2>1. v.mode \in Modes /\ v.n \in Nat \ {0}
    BY DEF PageTyped, Line
  <2>2. QED
    BY <1>2, <1>4, <2>1 DEF Follow
<1>5. CASE LoadUi \/ LoadYaml
  <2>1. TablesInv' /\ CallsTyped' /\ OneSaveMounted'
    BY <1>5, TablesSame, CallsSame DEF LoadUi, LoadYaml, Loaded
  <2>2. source' \in Source \cup {None} /\ text' \in Text \cup {None} /\ (source' # None => text' \in Text)
    BY <1>5, SourceTyped DEF LoadUi, LoadYaml, Loaded, PageTyped
  <2>3. err' \in {"none", "refused", "405"}
    BY <1>5 DEF LoadUi, LoadYaml, Loaded, PageTyped
  <2>4. meta' \in Meta \cup {None} /\ initialMeta' \in Meta \cup {None}
    BY <1>5 DEF LoadUi, LoadYaml, PageTyped, TablesInv
  <2>5. UNCHANGED <<page, listed, target>>
    BY <1>5 DEF LoadUi, LoadYaml, Loaded
  <2>6. QED
    BY <2>1, <2>2, <2>3, <2>4, <2>5 DEF PageTyped
<1>6. ASSUME NEW t \in Text, EditYaml(t) \/ \E m \in Meta : EditUi(t, m)
      PROVE  TablesInv' /\ PagesInv'
  <2>1. TablesInv' /\ CallsTyped' /\ OneSaveMounted'
    BY <1>6, TablesSame, CallsSame DEF EditYaml, EditUi
  <2>2. PageTyped'
    BY <1>6 DEF EditYaml, EditUi, PageTyped
  <2>3. QED
    BY <2>1, <2>2
<1>7. CASE SaveUi \/ SaveYaml
  <2>1. Request \in Save /\ ~Saving
    BY <1>7, SaveTyped DEF SaveUi, SaveYaml, CanSaveUi, CanSaveYaml, UiOnScreen, YamlOnScreen, Modes
  <2>2. Send("version", None) \/ (meta \in Meta \cup {None} /\ Send("meta", meta))
    BY <1>7 DEF SaveUi, SaveYaml, PageTyped
  <2>3. QED
    BY <2>1, <2>2, Sent, TablesSame
<1>8. ASSUME NEW v \in listed, NEW w \in Buttons(v), Press(v, w) PROVE TablesInv' /\ PagesInv'
  <2>1. CallsTyped' /\ OneSaveMounted'
    BY <1>8, CallsSame DEF Press
  <2>2. CASE Perform(Ask(w, v.n)) /\ ShowDetail /\ UNCHANGED err
    <3>1. v.status \in Version
      BY DEF PageTyped, Line
    <3>2. Wanted(Ask(w, v.n))
      BY <3>1 DEF Wanted, Ask, Buttons, Version
    <3>3. TablesInv'
      BY <2>2, <3>2, Performed
    <3>4. PageTyped'
      BY <2>2, <3>3, DetailShown DEF PageTyped
    <3>5. QED
      BY <2>1, <3>3, <3>4
  <2>3. CASE err' = "refused" /\ UNCHANGED <<tables, page, listed, editor>>
    BY <2>1, <2>3, PageSame, TablesSame
  <2>4. QED
    BY <1>8, <2>2, <2>3 DEF Press
<1>9. ASSUME NEW c \in calls, MetaAnswered(c) \/ VersionAnswered(c) \/ AnswerLost(c)
      PROVE  TablesInv' /\ PagesInv'
  BY <1>9, SaveAnswered
<1>10. QED
  BY <1>1, <1>3, <1>4, <1>5, <1>6, <1>7, <1>8, <1>9 DEF PageNext

(* Other clients, and a creation, change the tables alone.                   *)
LEMMA OthersStep ==
  ASSUME TablesInv, PagesInv, PostsTyped,
         OthersNext \/ \E m \in Modes : Create(m)
  PROVE  TablesInv' /\ PagesInv'
<1>1. UNCHANGED <<page, listed, editor, err, calls>>
  BY DEF OthersNext, Others, OthersRename, editor, Create
<1>2. PagesInv'
  BY <1>1, PageSame, CallsSame DEF PagesInv, PageTyped
<1>3. ASSUME NEW q, Wanted(q), Perform(q) PROVE TablesInv'
  BY <1>3, Performed
<1>4. ASSUME NEW m \in Modes, Create(m) PROVE TablesInv'
  <2>1. PICK t \in Text : Perform(Write("post", 0, [mode |-> m, text |-> t]))
    BY <1>4 DEF Create
  <2>2. Wanted(Write("post", 0, [mode |-> m, text |-> t]))
    BY EditorIsGiven DEF Wanted, Write
  <2>3. QED
    BY <1>3, <2>1, <2>2
<1>5. ASSUME NEW n, NEW b \in Body, Others(Write("post", n, b)) \/ Others(Write("patch", n, b))
      PROVE  TablesInv'
  BY <1>3, <1>5 DEF Others, Wanted, Write
<1>6. ASSUME NEW n, NEW w \in {"publish", "delete", "deprecate", "undeprecate"},
             Others(Ask(w, n))
      PROVE  TablesInv'
  BY <1>3, <1>6 DEF Others, Wanted, Ask
<1>7. ASSUME NEW m \in Meta, OthersRename(m) PROVE TablesInv'
  BY <1>7 DEF OthersRename, TablesInv, Stored
<1>8. QED
  BY <1>2, <1>4, <1>5, <1>6, <1>7 DEF OthersNext

LEMMA EditorStarts == AuthoringInit => EditorInv
BY DEF AuthoringInit, NoTemplate, NewInit, EditorInv, TablesInv, PostsTyped, PageTyped,
   CallsTyped, OneSaveMounted, Stored, Lifecycle!Status

LEMMA EditorInductive == EditorInv /\ [AuthoringNext]_allVars => EditorInv'
<1> SUFFICES ASSUME EditorInv, [AuthoringNext]_allVars PROVE EditorInv'
  OBVIOUS
<1>1. TablesInv /\ PagesInv /\ PostsTyped
  BY DEF EditorInv, PagesInv
<1>2. CASE UNCHANGED vars
  <2>1. TablesInv'
    BY <1>1, <1>2, TablesSame DEF vars
  <2>2. PagesInv'
    BY <1>1, <1>2, PageSame, CallsSame DEF vars, PagesInv, PageTyped
  <2>3. QED
    BY <2>1, <2>2, PostsStep DEF EditorInv, PagesInv
<1>3. CASE PageNext
  BY <1>1, <1>3, EditorStep, PostsStep DEF EditorInv, PagesInv
<1>4. CASE OthersNext \/ \E m \in Modes : Create(m)
  BY <1>1, <1>4, OthersStep, PostsStep DEF EditorInv, PagesInv
<1>5. \A p \in posts : p.mode \in Modes
  BY DEF EditorInv, PostsTyped, Post
<1>6. AuthoringNext =>
        UNCHANGED vars \/ PageNext \/ OthersNext \/ \E m \in Modes : Create(m)
  BY <1>5 DEF AuthoringNext, Created, Refused, CreatedUnheard, OthersCreate
<1>7. QED
  BY <1>2, <1>3, <1>4, <1>6 DEF allVars

LEMMA EditorInvariance == AuthoringSpec => []EditorInv
BY EditorStarts, EditorInductive, PTL DEF AuthoringSpec

(* The tables, the editor and what the page reports have the right types;    *)
(* among the stored versions no number is used twice, and of the saves in    *)
(* flight at most one is of the editor on the screen.                        *)
THEOREM TypeCorrect == AuthoringSpec => []TypeOK
<1>1. ASSUME EditorInv PROVE Cardinality({c \in calls : c.mounted}) <= 1
  <2> DEFINE M == {c \in calls : c.mounted}
  <2>1. CASE M = {}
    BY <2>1, FS_EmptySet
  <2>2. CASE M # {}
    <3>1. PICK c : c \in M
      BY <2>2
    <3>2. M = {c}
      BY <1>1, <3>1 DEF EditorInv, OneSaveMounted
    <3>3. QED
      BY <3>2, FS_Singleton
  <2>3. QED
    BY <2>1, <2>2
<1>2. EditorInv => TypeOK
  BY <1>1 DEF EditorInv, TablesInv, PageTyped, TypeOK
<1>3. QED
  BY <1>2, EditorInvariance, PTL

(* Where the button is disabled for a draft of the other mode, the server    *)
(* would refuse the save: in UI mode because a template has one draft, in    *)
(* YAML mode because only the draft that was loaded bears its number.        *)
THEOREM DisabledCorrect == AuthoringSpec => []DisabledIsRefused
<1>1. ASSUME EditorInv, Blocked, SourceIsCurrent PROVE ~Accepts(Request)
  <2>1. PICK r \in At(target) : source = [status |-> status[r], mode |-> content[r].mode]
    BY <1>1 DEF SourceIsCurrent
  <2>2. source.status = status[r] /\ source.mode = content[r].mode
    BY <2>1
  <2>3. r \in Stored /\ number[r] = target /\ status[r] = "draft"
    BY <1>1, <2>1, <2>2 DEF At, Blocked, IsYamlDraft, IsUiDraft
  <2>4. CASE UiOnScreen /\ IsYamlDraft
    <3>1. Request.what = "post"
      BY <2>4 DEF UiOnScreen, IsYamlDraft, Request, Write, InPlace, SaveAsPatch
    <3>2. QED
      BY <2>3, <3>1 DEF Accepts
  <2>5. CASE YamlOnScreen /\ IsUiDraft
    <3>1. /\ Request.what = "patch" /\ Request.n = target /\ Request.body.mode = "yaml"
          /\ source.mode = "ui"
      BY <2>5 DEF YamlOnScreen, IsUiDraft, Request, Write, InPlace
    <3>2. \A s \in At(target) : s = r
      BY <1>1, <2>3 DEF At, EditorInv, TablesInv
    <3>3. QED
      BY <2>2, <3>1, <3>2 DEF Accepts
  <2>6. QED
    BY <1>1, <2>4, <2>5 DEF Blocked
<1>2. EditorInv => DisabledIsRefused
  BY <1>1 DEF DisabledIsRefused
<1>3. QED
  BY <1>2, EditorInvariance, PTL

(* What is there of a save that is no longer in flight.                      *)
Lands(c) ==
  (\A d \in calls' : d.no # c.no) =>
    /\ \E r \in Row : status'[r] = "draft" /\ content'[r] = c.request.body
    /\ c.meta # None => metadata' = c.meta

LEMMA Landing ==
  EditorInv /\ [AuthoringNext]_allVars /\ page # "detail" /\ page' = "detail"
    => \A c \in calls : Lands(c)
<1> SUFFICES ASSUME EditorInv, [AuthoringNext]_allVars, page # "detail", page' = "detail",
                    NEW c \in calls, \A d \in calls' : d.no # c.no
             PROVE  /\ \E r \in Row : status'[r] = "draft" /\ content'[r] = c.request.body
                    /\ c.meta # None => metadata' = c.meta
  BY DEF Lands
<1>1. CallsTyped
  BY DEF EditorInv
<1>2. ~Reload
  BY <1>1, Orphans DEF Reload
<1>3. \A n : \A m \in Modes : ~Open(m, n)
  BY DEF Open, Modes
<1>4. PICK b \in calls : VersionAnswered(b)
  <2>1. AuthoringNext /\ ~UNCHANGED page
    BY DEF allVars, vars
  <2>2. PageNext
    BY <2>1 DEF AuthoringNext, vars, Created, Refused, CreatedUnheard, OthersCreate, Create,
       OthersNext, Others, OthersRename
  <2>3. ~SwitchMode /\ \A v \in listed : ~Follow(v) /\ \A w \in Buttons(v) : ~Press(v, w)
    BY <1>3 DEF SwitchMode, Follow, Press
  <2>4. ~LoadUi /\ ~LoadYaml /\ ~SaveUi /\ ~SaveYaml
    BY <2>1 DEF LoadUi, LoadYaml, Loaded, SaveUi, SaveYaml, Send
  <2>5. \A t, m : ~EditYaml(t) /\ ~EditUi(t, m)
    BY <2>1 DEF EditYaml, EditUi
  <2>6. \A d \in calls : ~MetaAnswered(d) /\ ~AnswerLost(d)
    BY <2>1 DEF MetaAnswered, AnswerLost, Fails
  <2>7. QED
    BY <1>2, <2>2, <2>3, <2>4, <2>5, <2>6 DEF PageNext
<1>5. b.step = "version" /\ Perform(b.request) /\ calls' = Orphaned(calls \ {b})
  BY <1>4 DEF VersionAnswered, Fails
<1>6. c = b
  BY <1>1, <1>5, Orphans
<1>7. c.meta = None /\ c.request \in Save
  BY <1>1, <1>5, <1>6 DEF CallsTyped, Call
<1>8. QED
  BY <1>5, <1>6, <1>7, Performed DEF EditorInv, Wanted, Save

(* A save that brings the user back left a draft that says what the editor   *)
(* showed, and its metadata: the metadata are never sent with the version.   *)
THEOREM SavesCorrect == AuthoringSpec => SuccessSavesAll
<1>1. EditorInv /\ [AuthoringNext]_allVars =>
        [page # "detail" /\ page' = "detail" =>
           \A c \in calls : (\A d \in calls' : d.no # c.no) =>
             /\ \E r \in Row : status'[r] = "draft" /\ content'[r] = c.request.body
             /\ c.meta # None => metadata' = c.meta]_vars
  BY Landing DEF Lands
<1>2. QED
  BY <1>1, EditorInvariance, PTL DEF AuthoringSpec, SuccessSavesAll
=============================================================================
