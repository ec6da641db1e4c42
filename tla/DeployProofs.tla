----------------------------- MODULE DeployProofs -----------------------------
(* Theorems of the two parts of a deployment in the browser.                 *)
(*                                                                           *)
(* DeployPage, for any values, kinds, clusters and namespaces, and any       *)
(* number of renderings, checks and submissions in flight: the inductive     *)
(* invariant says what the effect of the access panel relies on, that a run  *)
(* which is still active asked about the inputs of the moment, and that the  *)
(* results of a panel that is not loading are about them.                    *)
(*                                                                           *)
(* FieldForm, for any texts, numbers, patterns and templates: the invariant  *)
(* says which entries the inspector can build, that a stored one has only    *)
(* integers for bounds, and what an import and a submission have made.       *)
EXTENDS DeployPage, FieldForm, FiniteSetTheorems, SequenceTheorems, TLAPS

Asked == [cluster : Cluster, namespace : Namespace, kinds : SUBSET Kind]
Run == [of : Asked, active : BOOLEAN]
Panel == [loading : BOOLEAN, results : [kinds : SUBSET Kind, denied : SUBSET Kind]]

PageType ==
  /\ view \in {"closed", "create", "update"}
  /\ meta \in [cluster : Cluster \cup {None}, namespace : Namespace \cup {None}]
  /\ rendered \in Renders \cup {None}

Marks ==
  /\ pending \in BOOLEAN /\ submitting \in BOOLEAN /\ err \in BOOLEAN

RestType ==
  /\ listing \in BOOLEAN /\ clusters \subseteq Cluster /\ saved \in Cluster \cup {None}
  /\ values \in Value /\ due \in Value \cup {None}
  /\ renders \subseteq Value /\ Marks /\ posted \in 0..MaxPost
  /\ \A p \in posts : p.no \in 1..MaxPost

(* The access panel.                                                         *)
Missing == (Kinds \cap Known) \ Granted[<<meta.cluster, meta.namespace>>]
AccessType ==
  /\ panel \in Panel /\ panel.results.denied \subseteq panel.results.kinds
  /\ checks \subseteq Run
ActiveIsCurrent == \A c \in checks : c.active => HasInputs /\ c.of = Inputs
ResultsAreCurrent ==
  HasInputs /\ ~panel.loading =>
    panel.results.kinds = Kinds /\ Missing \subseteq panel.results.denied

(* The clusters: while they are awaited nothing can have been created.       *)
ListInv ==
  /\ listing => view = "create" /\ clusters = {} /\ posts = {}
  /\ view = "create" => meta.cluster \in clusters \cup {None}
  /\ \A p \in posts : p.method = "POST" => p.cluster \in clusters

AccessInv == AccessType /\ ActiveIsCurrent /\ ResultsAreCurrent
IInv == PageType /\ RestType /\ AccessInv /\ ListInv

-----------------------------------------------------------------------------
LEMMA Given ==
  "default" \in Namespace /\ MaxPost \in Nat /\ Blank \in Value /\ InRelease \in Value
BY FormIsGiven

(* What the panel asks about is never None.                                  *)
LEMMA KindsAreKinds == PageType => Kinds \subseteq Kind
BY FormIsGiven DEF PageType, Kinds, Kind

Asks ==
  /\ Mounted => /\ Inputs \in Asked /\ Inputs.kinds = Kinds
                /\ Inputs.cluster = meta.cluster
                /\ Inputs.namespace = meta.namespace
  /\ Inputs = None <=> ~Mounted

LEMMA InputsAreAsked == PageType => Asks
<1> SUFFICES ASSUME PageType PROVE Asks
  OBVIOUS
<1>1. ASSUME Mounted
      PROVE  Inputs \in Asked /\ Inputs.kinds = Kinds /\ Inputs.cluster = meta.cluster
             /\ Inputs.namespace = meta.namespace
  BY <1>1, KindsAreKinds DEF Mounted, Inputs, Asked, PageType
<1>2. None \notin Asked
  BY FormIsGiven DEF Asked
<1>3. QED
  BY <1>1, <1>2 DEF Inputs, Asks

(* The same inputs are asked about in the same way.                          *)
LEMMA SameInputs ==
  ASSUME PageType, PageType', AccessInv, Inputs' = Inputs, UNCHANGED access
  PROVE  AccessInv'
<1>1. Asks
  BY InputsAreAsked
<1>2. Asks'
  BY InputsAreAsked, PTL
<1>3. Mounted' <=> Mounted
  BY <1>1, <1>2 DEF Asks
<1>4. Mounted => /\ Kinds' = Kinds
                 /\ meta'.cluster = meta.cluster /\ meta'.namespace = meta.namespace
  BY <1>1, <1>2, <1>3 DEF Asks
<1>5. (HasInputs' <=> HasInputs) /\ (HasInputs => Missing' = Missing)
  BY <1>3, <1>4 DEF HasInputs, Missing
<1>6. ActiveIsCurrent'
  BY <1>5 DEF ActiveIsCurrent, AccessInv, access
<1>7. ResultsAreCurrent'
  BY <1>4, <1>5 DEF ResultsAreCurrent, AccessInv, access, HasInputs
<1>8. QED
  BY <1>6, <1>7 DEF AccessInv, AccessType, access

(* Other inputs make a new run, and a panel that is loading.                 *)
LEMMA Rechecks ==
  ASSUME PageType, PageType', AccessInv, Recheck
  PROVE  AccessInv'
<1>1. CASE Inputs' = Inputs
  BY <1>1, SameInputs DEF Recheck
<1>2. CASE Inputs' # Inputs
  <2> DEFINE kept == IF Mounted /\ Mounted' THEN panel ELSE FreshPanel
  <2>1. /\ checks' = {[c EXCEPT !.active = FALSE] : c \in checks}
                     \cup {[of |-> i, active |-> TRUE] : i \in IF HasInputs' THEN {Inputs'} ELSE {}}
        /\ panel' = [kept EXCEPT !.loading = HasInputs' \/ kept.loading]
    BY <1>2, Zenon DEF Recheck
  <2>2. HasInputs' => Inputs' \in Asked
    <3>1. Asks'
      BY InputsAreAsked, PTL
    <3>2. QED
      BY <3>1 DEF HasInputs, Asks
  <2>3. \A c \in checks' :
          /\ c \in Run
          /\ c.active => HasInputs' /\ c.of = Inputs'
    <3> SUFFICES ASSUME NEW c \in checks'
                 PROVE  c \in Run /\ (c.active => HasInputs' /\ c.of = Inputs')
      OBVIOUS
    <3>1. ASSUME NEW b \in checks, c = [b EXCEPT !.active = FALSE]
          PROVE  c \in Run /\ ~c.active
      BY <3>1 DEF AccessInv, AccessType, Run
    <3>2. ASSUME HasInputs', c = [of |-> Inputs', active |-> TRUE]
          PROVE  c \in Run /\ c.of = Inputs'
      BY <2>2, <3>2 DEF Run
    <3>3. QED
      BY <2>1, <3>1, <3>2
  <2>4. kept \in Panel /\ kept.results.denied \subseteq kept.results.kinds
    BY DEF AccessInv, AccessType, FreshPanel, NoResults, Panel
  <2> HIDE DEF kept
  <2>5. (HasInputs' \/ kept.loading) \in BOOLEAN
    OBVIOUS
  <2>6. PICK b \in BOOLEAN : /\ b = (HasInputs' \/ kept.loading)
                             /\ panel' = [kept EXCEPT !.loading = b]
    BY <2>1, <2>5, Zenon
  <2>7. panel' \in Panel /\ panel'.results = kept.results /\ panel'.loading = b
    BY <2>4, <2>6 DEF Panel
  <2>8. HasInputs' => panel'.loading
    BY <2>6, <2>7
  <2>9. AccessType'
    BY <2>3, <2>4, <2>7 DEF AccessType
  <2>10. ActiveIsCurrent' /\ ResultsAreCurrent'
    BY <2>3, <2>8 DEF ActiveIsCurrent, ResultsAreCurrent
  <2>11. QED
    BY <2>9, <2>10 DEF AccessInv
<1>3. QED
  BY <1>1, <1>2

(* A run is answered.                                                        *)
LEMMA AnswerKeeps ==
  ASSUME PageType, AccessInv, NEW c \in checks, CheckAnswered(c)
  PROVE  AccessInv'
<1>1. /\ UNCHANGED <<view, meta, rendered>> /\ checks' = checks \ {c}
      /\ c \in Run
  BY DEF CheckAnswered, preview, AccessInv, AccessType
<1>2. /\ Inputs' = Inputs /\ (HasInputs' <=> HasInputs) /\ Kinds' = Kinds
      /\ Missing' = Missing
  BY <1>1 DEF Inputs, HasInputs, Mounted, Kinds, Missing
<1>3. checks' \subseteq Run /\ ActiveIsCurrent'
  BY <1>1, <1>2 DEF AccessInv, AccessType, ActiveIsCurrent
<1>4. CASE ~c.active
  <2>1. UNCHANGED panel
    BY <1>4 DEF CheckAnswered, StillActive
  <2>2. QED
    BY <1>2, <1>3, <2>1 DEF AccessInv, AccessType, ResultsAreCurrent
<1>5. CASE c.active
  <2>1. PICK failed \in SUBSET (c.of.kinds \cap Known) :
          panel' = [loading |-> FALSE,
                    results |-> [kinds |-> c.of.kinds,
                                 denied |-> failed \cup
                                   ((c.of.kinds \cap Known) \ Granted[<<c.of.cluster, c.of.namespace>>])]]
    BY <1>5 DEF CheckAnswered, StillActive
  <2>2. HasInputs /\ c.of = Inputs /\ Asks
    BY <1>5, InputsAreAsked DEF AccessInv, ActiveIsCurrent
  <2>3. /\ c.of.kinds = Kinds /\ c.of.kinds \subseteq Kind
        /\ c.of.cluster = meta.cluster /\ c.of.namespace = meta.namespace
    BY <2>2 DEF Asks, HasInputs, Asked
  <2>4. panel' \in Panel /\ panel'.results.denied \subseteq panel'.results.kinds
    BY <2>1, <2>3 DEF Panel
  <2>5. panel'.results.kinds = Kinds /\ Missing \subseteq panel'.results.denied
    BY <2>1, <2>3 DEF Missing
  <2>6. QED
    BY <1>2, <1>3, <2>4, <2>5 DEF AccessInv, AccessType, ResultsAreCurrent
<1>6. QED
  BY <1>4, <1>5

(* A page that has just been mounted, or left.                               *)
LEMMA Mounts ==
  ASSUME IInv, NEW v \in {"closed", "create", "update"}, Reset(v), values' \in Value
  PROVE  IInv'
<1>1. PageType' /\ RestType'
  <2>1. PageType'
    BY Given DEF Reset, EmptyMeta, PageType
  <2>2. RestType'
    <3>1. Marks' /\ listing' \in BOOLEAN
      BY DEF Reset, Marks
    <3>2. QED
      BY <3>1, Given DEF Reset, RestType, IInv
  <2>3. QED
    BY <2>1, <2>2
<1>2. AccessInv'
  <2>1. FreshPanel \in Panel /\ FreshPanel.results.denied \subseteq FreshPanel.results.kinds
    BY DEF FreshPanel, NoResults, Panel
  <2>2. checks' = {} /\ panel' = FreshPanel /\ rendered' = None
    BY DEF Reset
  <2>3. ~HasInputs'
    BY <2>2 DEF HasInputs, Kinds
  <2>4. QED
    BY <2>1, <2>2, <2>3 DEF AccessInv, AccessType, ActiveIsCurrent, ResultsAreCurrent
<1>3. ListInv'
  BY DEF Reset, EmptyMeta, ListInv
<1>4. QED
  BY <1>1, <1>2, <1>3 DEF IInv

(* What the panel does not look at leaves it alone.                          *)
LEMMA Aside ==
  ASSUME PageType, AccessInv, UNCHANGED <<view, meta, rendered, checks, panel>>
  PROVE  PageType' /\ AccessInv'
<1>1. PageType'
  BY DEF PageType
<1>2. Inputs' = Inputs
  BY DEF Inputs, Mounted, Kinds
<1>3. QED
  BY <1>1, <1>2, SameInputs DEF access

-----------------------------------------------------------------------------
LEMMA InvInit == Init => IInv
<1> SUFFICES ASSUME Init PROVE IInv
  OBVIOUS
<1>1. PageType /\ RestType
  <2>1. Marks /\ listing \in BOOLEAN
    BY DEF Init, Marks
  <2>2. QED
    BY <2>1, Given DEF Init, EmptyMeta, PageType, RestType
<1>2. AccessInv
  <2>1. FreshPanel \in Panel /\ FreshPanel.results.denied \subseteq FreshPanel.results.kinds
    BY DEF FreshPanel, NoResults, Panel
  <2>2. checks = {} /\ panel = FreshPanel /\ ~HasInputs
    BY DEF Init, HasInputs, Mounted
  <2>3. QED
    BY <2>1, <2>2 DEF AccessInv, AccessType, ActiveIsCurrent, ResultsAreCurrent
<1>3. ListInv
  BY DEF Init, EmptyMeta, ListInv
<1>4. QED
  BY <1>1, <1>2, <1>3 DEF IInv

LEMMA Inductive == IInv /\ [Next]_vars => IInv'
<1> SUFFICES ASSUME IInv, [Next]_vars PROVE IInv'
  OBVIOUS
<1> USE DEF IInv
<1>1. CASE OpenCurrent \/ OpenPinned \/ Leave
  <2>1. \E v \in {"closed", "create", "update"} : Reset(v)
    BY <1>1 DEF OpenCurrent, OpenPinned, Leave
  <2>2. values' \in Value
    BY <1>1, Given DEF OpenCurrent, OpenPinned, Leave, RestType, Marks
  <2>3. QED
    BY <2>1, <2>2, Mounts
<1>2. CASE ClustersAnswered
  <2>1. PageType'
    BY <1>2 DEF ClustersAnswered, PageType, Preselect, preview, ListInv
  <2>2. AccessInv'
    BY <1>2, <2>1, Rechecks DEF ClustersAnswered
  <2>3. RestType'
    BY <1>2 DEF ClustersAnswered, RestType, Marks, preview, submission
  <2>4. ListInv'
    BY <1>2 DEF ClustersAnswered, ListInv, Preselect, submission, PageType, RestType, Marks
  <2>5. QED
    BY <2>1, <2>2, <2>3, <2>4
<1>3. ASSUME NEW k \in Cluster, PickCluster(k) PROVE IInv'
  <2>1. PageType' /\ RestType' /\ ListInv'
    BY <1>3 DEF PickCluster, PageType, RestType, Marks, ListInv, preview, submission
  <2>2. QED
    BY <1>3, <2>1, Rechecks DEF PickCluster
<1>4. ASSUME NEW n \in Namespace \cup {None}, EditNamespace(n) PROVE IInv'
  <2>1. PageType' /\ RestType' /\ ListInv'
    BY <1>4 DEF EditNamespace, PageType, RestType, Marks, ListInv, preview, submission, list
  <2>2. QED
    BY <1>4, <2>1, Rechecks DEF EditNamespace
<1>5. ASSUME NEW v \in Value, EditForm(v) PROVE IInv'
  <2>1. RestType' /\ ListInv'
    BY <1>5 DEF EditForm, RestType, Marks, ListInv, list, submission
  <2>2. QED
    BY <1>5, <2>1, Aside DEF EditForm, access
<1>6. CASE SendPreview
  <2>1. RestType' /\ ListInv'
    BY <1>6 DEF SendPreview, RestType, Marks, ListInv, list, submission
  <2>2. QED
    BY <1>6, <2>1, Aside DEF SendPreview, access
<1>7. ASSUME NEW v \in Value, PreviewAnswered(v) PROVE IInv'
  <2>1. PageType' /\ RestType' /\ ListInv'
    BY <1>7 DEF PreviewAnswered, PageType, RestType, Marks, ListInv, list, submission
  <2>2. QED
    BY <1>7, <2>1, Rechecks DEF PreviewAnswered
<1>8. CASE Submit
  <2>1. RestType'
    <3>1. posted + 1 \in 1..MaxPost
      BY <1>8, Given DEF Submit, RestType, Marks
    <3>2. \A p \in posts' : p.no \in 1..MaxPost
      BY <1>8, <3>1 DEF Submit, RestType, Marks
    <3>3. Marks'
      BY <1>8 DEF Submit, RestType, Marks, preview
    <3>4. QED
      BY <1>8, <3>1, <3>2, <3>3, Given DEF Submit, RestType, Marks, list, preview
  <2>2. ListInv'
    BY <1>8 DEF Submit, Submittable, ListInv, list, PageType
  <2>3. QED
    BY <1>8, <2>1, <2>2, Aside DEF Submit, access, preview
<1>9. ASSUME NEW p \in posts, SubmitAnswered(p) PROVE IInv'
  <2>1. RestType' /\ ListInv'
    BY <1>9 DEF SubmitAnswered, RestType, Marks, ListInv, list, preview
  <2>2. QED
    BY <1>9, <2>1, Aside DEF SubmitAnswered, access, preview
<1>10. ASSUME NEW c \in checks, CheckAnswered(c) PROVE IInv'
  <2>1. PageType' /\ RestType' /\ ListInv'
    BY <1>10 DEF CheckAnswered, PageType, RestType, Marks, ListInv, list, preview, submission
  <2>2. QED
    BY <1>10, <2>1, AnswerKeeps
<1>11. CASE UNCHANGED vars
  <2>1. RestType' /\ ListInv'
    BY <1>11 DEF vars, RestType, Marks, ListInv, list, preview, submission
  <2>2. QED
    BY <1>11, <2>1, Aside DEF vars, access, preview
<1>12. QED
  BY <1>1, <1>2, <1>3, <1>4, <1>5, <1>6, <1>7, <1>8, <1>9, <1>10, <1>11 DEF Next

LEMMA Invariance == Spec => []IInv
BY InvInit, Inductive, PTL DEF Spec

(* The state of the page, of its requests and of its panel keeps its types.  *)
THEOREM TypeCorrect == Spec => []TypeOK
<1>1. IInv => TypeOK
  <2> SUFFICES ASSUME IInv PROVE TypeOK
    OBVIOUS
  <2>1. \A c \in checks : c.of.cluster \in Cluster /\ c.of.namespace \in Namespace
    BY DEF IInv, AccessInv, AccessType, Run, Asked
  <2>2. \A p \in posts : p.no \in 1..MaxPost /\ (p.method = "POST" => p.cluster \in Cluster)
    BY DEF IInv, RestType, ListInv
  <2>3. panel.loading \in BOOLEAN /\ panel.results.denied \subseteq panel.results.kinds
    BY DEF IInv, AccessInv, AccessType, Panel
  <2>4. QED
    BY <2>1, <2>2, <2>3 DEF IInv, PageType, RestType, Marks, TypeOK
<1>2. QED
  BY <1>1, Invariance, PTL

(* When the access panel says that everything may be created it is right,    *)
(* and of what is on the page now: the "active" flag of its effect keeps     *)
(* every late answer about other inputs out.                                 *)
THEOREM ApprovalCorrect == Spec => []ApprovalIsTrue
<1>1. IInv => ApprovalIsTrue
  <2> SUFFICES ASSUME IInv, AllAllowed
               PROVE  /\ EffectiveResults.kinds = Kinds
                      /\ (Kinds \cap Known) \subseteq Granted[<<meta.cluster, meta.namespace>>]
    BY DEF ApprovalIsTrue
  <2>1. ~panel.loading /\ HasInputs /\ EffectiveResults = panel.results
    BY DEF AllAllowed, EffectiveResults, NoResults
  <2>2. panel.results.kinds = Kinds /\ Missing \subseteq panel.results.denied
    BY <2>1 DEF IInv, AccessInv, ResultsAreCurrent
  <2>3. Missing = {}
    BY <2>1, <2>2 DEF AllAllowed
  <2>4. QED
    BY <2>1, <2>2, <2>3 DEF Missing
<1>2. QED
  BY <1>1, Invariance, PTL

(* No release is created on a cluster that the page was not given: neither   *)
(* the remembered cluster nor one picked while the list is awaited can be.   *)
THEOREM CreatesCorrect == Spec => []CreatesOnListed
<1>1. IInv => CreatesOnListed
  BY DEF IInv, ListInv, CreatesOnListed
<1>2. QED
  BY <1>1, Invariance, PTL

-----------------------------------------------------------------------------
(* JavaScript values: a tag tells what a value is.                           *)
LEMMA Tags ==
  /\ \A t : Is("str", Str(t)) /\ ~Is("int", Str(t)) /\ ~Is("bool", Str(t)) /\ Str(t)[2] = t
  /\ \A n : Is("int", Num(n)) /\ ~Is("str", Num(n)) /\ ~Is("bool", Num(n)) /\ Num(n)[2] = n
  /\ \A b : Is("bool", Bool(b)) /\ ~Is("str", Bool(b)) /\ ~Is("int", Bool(b)) /\ Bool(b)[2] = b
  /\ \A v \in {Fraction, NaN, Null, Undefined, Rejected} :
       ~Is("int", v) /\ ~Is("str", v) /\ ~Is("bool", v)
  /\ \A x : /\ Str(x) \notin {Fraction, NaN, Null, Undefined, Rejected}
            /\ Num(x) \notin {Fraction, NaN, Null, Undefined, Rejected}
            /\ Bool(x) \notin {Fraction, NaN, Null, Undefined, Rejected}
  /\ Fraction # NaN /\ Fraction # Null /\ Fraction # Undefined /\ Fraction # Rejected
  /\ NaN # Null /\ NaN # Undefined /\ NaN # Rejected
  /\ Null # Undefined /\ Null # Rejected /\ Undefined # Rejected
BY DEF Is, Str, Num, Bool, Fraction, NaN, Null, Undefined, Rejected

Ordinary(v) ==
  \/ \E t \in Text : v = Str(t)
  \/ \E n \in Int : v = Num(n)
  \/ \E b \in BOOLEAN : v = Bool(b)
  \/ v \in {Fraction, NaN, Null, Undefined}

LEMMA Numbers ==
  ASSUME NEW t \in Text
  PROVE  NumberOf[t] \in {Fraction, NaN} \/ \E n \in Int : NumberOf[t] = Num(n)
BY TextIsGiven

LEMMA LeavesAreOrdinary == \A v \in Leaf : Ordinary(v)
<1> SUFFICES ASSUME NEW v \in Leaf PROVE Ordinary(v)
  OBVIOUS
<1>1. CASE \E t \in Text : v = NumberOf[t]
  BY <1>1, Numbers DEF Ordinary
<1>2. CASE v \in {Num(0), Num(1)}
  BY <1>2 DEF Ordinary
<1>3. CASE v \notin {Num(0), Num(1)} /\ ~\E t \in Text : v = NumberOf[t]
  BY <1>3 DEF Ordinary, Leaf
<1>4. QED
  BY <1>1, <1>2, <1>3

LEMMA SomeLeaves ==
  /\ \A t \in Text : Str(t) \in Leaf /\ NumberOf[t] \in Leaf
  /\ \A b \in BOOLEAN : Bool(b) \in Leaf
  /\ {Num(0), Num(1), Fraction, NaN, Null, Undefined} \subseteq Leaf
BY DEF Leaf

LEMMA CoercedIsLeaf ==
  ASSUME NEW v \in Leaf
  PROVE  CoerceNumber(v) \in Leaf
<1>1. CASE \E t \in Text : v = Str(t)
  BY <1>1, Tags, SomeLeaves DEF CoerceNumber
<1>2. CASE \E n \in Int : v = Num(n)
  BY <1>2, Tags DEF CoerceNumber
<1>3. CASE \E b \in BOOLEAN : v = Bool(b)
  BY <1>3, Tags, SomeLeaves DEF CoerceNumber
<1>4. CASE v \in {Fraction, NaN, Null, Undefined}
  BY <1>4, Tags, SomeLeaves DEF CoerceNumber
<1>5. QED
  BY <1>1, <1>2, <1>3, <1>4, LeavesAreOrdinary DEF Ordinary

-----------------------------------------------------------------------------
(* The two validations.                                                      *)
LEMMA SafeIsValid ==
  ASSUME NEW e \in EntryType, NEW v \in Leaf, NEW p, p = Safe(e, v), p # Rejected
  PROVE  /\ p \in Leaf
         /\ p # Undefined => Validate(e, p)
<1>1. CASE v = Undefined /\ ~e.required
  BY <1>1 DEF Safe
<1>2. CASE ~(v = Undefined /\ ~e.required)
  <2>1. CASE e.type \in {"string", "autocomplete"}
    <3>1. p = v /\ Is("str", v) /\ (e.pattern => v[2] \in Pattern)
      BY <1>2, <2>1 DEF Safe
    <3>2. QED
      BY <2>1, <3>1 DEF Validate
  <2>2. CASE e.type = "integer"
    <3>1. p = CoerceNumber(v) /\ Is("int", p) /\ InRange(e, p)
      BY <1>2, <2>2 DEF Safe
    <3>2. Truncated(p) = p
      BY <3>1, Tags DEF Truncated
    <3>3. QED
      BY <2>2, <3>1, <3>2, CoercedIsLeaf DEF Validate, InRange
  <2>3. CASE e.type = "boolean"
    BY <1>2, <2>3 DEF Safe, Validate
  <2>4. CASE e.type = "enum"
    <3>1. p = v /\ Is("str", v) /\ v[2] \in e.values
      BY <1>2, <2>4 DEF Safe
    <3>2. PICK t \in Text : v = Str(t)
      BY <3>1, Tags, LeavesAreOrdinary DEF Ordinary
    <3>3. Printed(v, v[2])
      BY <3>2, Tags DEF Printed
    <3>4. QED
      BY <2>4, <3>1, <3>3 DEF Validate
  <2>5. QED
    BY <2>1, <2>2, <2>3, <2>4 DEF EntryType, Types, StringCompatible
<1>3. QED
  BY <1>1, <1>2

(* What passes the form is rendered as it is.                                *)
LEMMA SafeRenders ==
  ASSUME NEW e \in EntryType, NEW v \in Leaf, NEW d, NEW p, p = Safe(e, v),
         p # Rejected, p # Undefined
  PROVE  Render(e, d, p) = p
BY SafeIsValid DEF Render, Absent

-----------------------------------------------------------------------------
(* A stored entry has integers for bounds, which someone typed.              *)
WellBounded(e) ==
  \A m \in {e.min, e.max} :
    m = Undefined \/ \E t \in Text \ {""} : Numeral(t) /\ m = NumberOf[t]

LEMMA NumeralIsNumber ==
  ASSUME NEW t \in Text, Numeral(t)
  PROVE  /\ \E n \in Int : NumberOf[t] = Num(n)
         /\ Above(NumberOf[t], NumberOf[t]) /\ Below(NumberOf[t], NumberOf[t])
<1>1. PICK n \in Int : NumberOf[t] = Num(n)
  BY Numbers, Tags DEF Numeral
<1>2. Above(Num(n), Num(n)) /\ Below(Num(n), Num(n))
  <2>1. Num(n)[2] = n
    BY Tags
  <2>2. n >= n /\ n <= n
    OBVIOUS
  <2>3. QED
    BY <2>1, <2>2 DEF Above, Below
<1>3. QED
  BY <1>1, <1>2

(* The widget's number that is within the bounds.                            *)
LEMMA SomeNumber ==
  ASSUME NEW e \in EntryType, WellBounded(e), Sensible(e)
  PROVE  \E t \in Text \ {""} : Numeral(t) /\ InRange(e, NumberOf[t])
<1>2. CASE e.min # Undefined
  <2>1. PICK t \in Text \ {""} : Numeral(t) /\ e.min = NumberOf[t]
    BY <1>2 DEF WellBounded
  <2>2. Above(NumberOf[t], e.min)
    BY <2>1, NumeralIsNumber
  <2>3. Below(NumberOf[t], e.max)
    BY <2>1 DEF Sensible, Numeral
  <2>4. QED
    BY <2>1, <2>2, <2>3 DEF InRange
<1>3. CASE e.min = Undefined /\ e.max # Undefined
  <2>1. PICK t \in Text \ {""} : Numeral(t) /\ e.max = NumberOf[t]
    BY <1>3 DEF WellBounded
  <2>3. Below(NumberOf[t], e.max)
    BY <2>1, NumeralIsNumber
  <2>4. Above(NumberOf[t], e.min)
    BY <1>3, Tags DEF Above
  <2>5. QED
    BY <2>1, <2>3, <2>4 DEF InRange
<1>4. CASE e.min = Undefined /\ e.max = Undefined
  <2>1. PICK t \in Text \ {""} : Numeral(t)
    BY TextIsGiven
  <2>2. QED
    BY <1>4, <2>1, Tags DEF InRange, Above, Below
<1>5. QED
  BY <1>2, <1>3, <1>4

Accepts(e, v) == v \in RenderWidget(e) /\ v \in Leaf /\ Safe(e, v) = v /\ v # Undefined /\ v # Rejected
LEMMA SomeSetting ==
  ASSUME NEW e \in EntryType, WellBounded(e), Sensible(e), Opens(e)
  PROVE  \E v \in RenderWidget(e) :
           v \in Leaf /\ Safe(e, v) = v /\ v # Undefined /\ v # Rejected
<1>1. CASE e.type \in {"string", "autocomplete"}
  <2>1. PICK t \in Text : e.pattern => t \in Pattern
    BY TextIsGiven DEF Sensible
  <2>2. Str(t) \in RenderWidget(e)
    BY <1>1 DEF RenderWidget
  <2>3. Safe(e, Str(t)) = Str(t) /\ Str(t) # Undefined /\ Str(t) # Rejected
    BY <1>1, <2>1, Tags DEF Safe
  <2>4. QED
    BY <2>2, <2>3, SomeLeaves
<1>2. CASE e.type = "integer"
  <2>1. PICK t \in Text \ {""} : Numeral(t) /\ InRange(e, NumberOf[t])
    BY SomeNumber
  <2> DEFINE n == NumberOf[t]
  <2>2. Is("int", n) /\ ~Is("str", n) /\ ~Is("bool", n) /\ n # Undefined /\ n # Rejected /\ n # NaN /\ n # Fraction
    <3>1. PICK i \in Int : n = Num(i)
      BY <2>1, NumeralIsNumber
    <3>2. QED
      BY <3>1, Tags
  <2>3. n \in RenderWidget(e)
    BY <1>2, <2>1, <2>2 DEF RenderWidget, InRange
  <2>4. Safe(e, n) = n
    <3>1. CoerceNumber(n) = n
      BY <2>2, Tags DEF CoerceNumber
    <3>2. QED
      BY <1>2, <2>1, <2>2, <3>1 DEF Safe
  <2>5. QED
    BY <2>2, <2>3, <2>4, SomeLeaves
<1>3. CASE e.type = "boolean"
  <2>1. Bool(TRUE) \in RenderWidget(e) /\ Safe(e, Bool(TRUE)) = Bool(TRUE)
    BY <1>3, Tags DEF RenderWidget, Safe
  <2>2. QED
    BY <2>1, Tags, SomeLeaves
<1>4. CASE e.type = "enum"
  <2>1. PICK o \in e.values : o \in Text
    BY <1>4 DEF Opens, EntryType
  <2>2. Str(o) \in RenderWidget(e) /\ Safe(e, Str(o)) = Str(o)
    BY <1>4, <2>1, Tags DEF RenderWidget, Safe
  <2>3. QED
    BY <2>1, <2>2, Tags, SomeLeaves
<1>5. QED
  BY <1>1, <1>2, <1>3, <1>4 DEF EntryType, Types, StringCompatible

-----------------------------------------------------------------------------
(* The inductive invariant.                                                  *)
StoredInv ==
  stage \in {"form", "done"} => WellBounded(stored.entry) /\ Opens(stored.entry)
Submitted(p) ==
  /\ p = Safe(stored.entry, value) /\ p # Rejected
  /\ release = [values |-> p, manifest |-> Render(stored.entry, stored.document, p)]
DoneInv == stage = "done" => \E p : Submitted(p)
ReleaseInv == release = [values |-> release.values, manifest |-> release.manifest]
ImportInv ==
  stage = "imported" =>
    \E e \in {NoEntry} \cup Imported, m \in BOOLEAN : fields = YamlToUIState(doc, e, m)

FormInv == FieldTypeOK /\ StoredInv /\ DoneInv /\ ReleaseInv /\ ImportInv

FieldsAreTyped(f) == \A s \in DOMAIN f : f[s] \in FieldType

LEMMA FormInvInit == FieldInit => FormInv
<1> SUFFICES ASSUME FieldInit PROVE FormInv
  OBVIOUS
<1>1. FieldTypeOK
  <2>1. \A s \in DOMAIN fields : fields[s] \in FieldType
    <3>1. DOMAIN <<>> = {}
      OBVIOUS
    <3>2. QED
      BY <3>1 DEF FieldInit
  <2>2. value \in Leaf /\ release.values \in Leaf
    BY SomeLeaves DEF FieldInit, NoRelease
  <2>3. QED
    BY <2>1, <2>2 DEF FieldInit, FieldTypeOK
<1>2. QED
  BY <1>1 DEF FieldInit, FormInv, StoredInv, DoneInv, ReleaseInv, ImportInv, NoRelease

LEMMA PutIsTyped ==
  ASSUME NEW f, FieldsAreTyped(f), NEW x, NEW v \in FieldType
  PROVE  FieldsAreTyped(Put(f, x, v))
BY DEF FieldsAreTyped, Put

LEMMA SomeFields ==
  /\ \A v \in Leaf : Fixed(v) \in FieldType
  /\ \A e \in EntryType : Exposed(e) \in FieldType
BY DEF FieldType

LEMMA Inspects ==
  ASSUME FormInv, NEW f, FieldsAreTyped(f), Inspect(f)
  PROVE  FormInv'
<1>1. FieldTypeOK'
  BY DEF FormInv, FieldTypeOK, FieldsAreTyped, Inspect
<1>2. QED
  BY <1>1 DEF FormInv, StoredInv, DoneInv, ReleaseInv, ImportInv, Inspect

LEMMA CurrentIsEntry ==
  ASSUME FormInv, FocusIs("exposed")
  PROVE  Current \in EntryType /\ fields[Focus] = Exposed(Current)
<1>1. fields[Focus] \in FieldType /\ fields[Focus].mode = "exposed"
  BY DEF FocusIs, FormInv, FieldTypeOK
<1>2. PICK e \in EntryType : fields[Focus] = Exposed(e)
  BY <1>1 DEF FieldType, Fixed
<1>3. QED
  BY <1>2 DEF Current, Exposed

LEMMA Edits ==
  ASSUME FormInv, NEW e \in EntryType, Edit(e)
  PROVE  FormInv'
<1>1. FieldsAreTyped(Put(fields, Focus, Exposed(e)))
  BY SomeFields, PutIsTyped DEF FormInv, FieldTypeOK, FieldsAreTyped
<1>2. QED
  BY <1>1, Inspects DEF Edit

LEMMA CoerceIsLeaf ==
  ASSUME NEW raw \in Text, NEW t
  PROVE  Coerce(raw, t) \in Leaf
<1>1. Str(raw) \in Leaf /\ NumberOf[raw] \in Leaf /\ Undefined \in Leaf /\ Bool(raw = "true") \in Leaf
  BY SomeLeaves
<1>2. QED
  BY <1>1 DEF Coerce

LEMMA DefaultIsLeaf == \A t : DefaultFor(t) \in Leaf
BY SomeLeaves, TextIsGiven DEF DefaultFor

LEMMA FreshEntry ==
  ASSUME NEW t \in Types, NEW b \in BOOLEAN
  PROVE  Entry(t, b) \in EntryType
BY SomeLeaves DEF Entry, EntryType, Bounds

LEMMA ImportedIsTyped == Imported \subseteq EntryType
<1> SUFFICES ASSUME NEW x \in Imported PROVE x \in EntryType
  OBVIOUS
<1>1. PICK t \in Types, b \in BOOLEAN :
        x = Entry(t, b) \/ x = [Entry(t, b) EXCEPT !.default = DefaultFor(Entry(t, b).type)]
  BY DEF Imported
<1>2. QED
  BY <1>1, FreshEntry, DefaultIsLeaf DEF EntryType

LEMMA WalkIsTyped ==
  ASSUME NEW d \in Documents
  PROVE  FieldsAreTyped(WalkScalars(d))
<1> DEFINE leaves == {p \in DOMAIN d : IsLeaf(d[p])}
<1> SUFFICES ASSUME NEW s \in DOMAIN WalkScalars(d)
             PROVE  WalkScalars(d)[s] \in FieldType
  BY DEF FieldsAreTyped
<1>1. /\ s \in {FlattenSeq(p) : p \in leaves}
      /\ WalkScalars(d)[s] = Fixed(d[CHOOSE p \in leaves : FlattenSeq(p) = s])
  BY DEF WalkScalars
<1>2. PICK q \in leaves : q = CHOOSE p \in leaves : FlattenSeq(p) = s
  BY <1>1
<1>3. d[q] \in Leaf
  BY <1>2, DocumentsAreGiven DEF IsLeaf
<1>4. QED
  BY <1>1, <1>2, <1>3, SomeFields

-----------------------------------------------------------------------------
(* Every step keeps it.                                                      *)
LEMMA ImportKeeps == FormInv /\ Import => FormInv'
<1> SUFFICES ASSUME FormInv, Import PROVE FormInv'
  OBVIOUS
<1>1. PICK e \in {NoEntry} \cup Imported, m \in BOOLEAN :
        /\ fields' = YamlToUIState(doc, e, m)
        /\ warned' = (e # NoEntry /\ ~m)
  BY DEF Import
<1>2. FieldsAreTyped(YamlToUIState(doc, e, m))
  <2>1. doc \in Documents
    BY DEF FormInv, FieldTypeOK
  <2>2. FieldsAreTyped(WalkScalars(doc))
    BY <2>1, WalkIsTyped
  <2>3. CASE e # NoEntry /\ m
    BY <2>2, <2>3, ImportedIsTyped, SomeFields, PutIsTyped DEF YamlToUIState
  <2>4. CASE ~(e # NoEntry /\ m)
    BY <2>2, <2>4 DEF YamlToUIState
  <2>5. QED
    BY <2>3, <2>4
<1>3. FieldTypeOK'
  <2>1. warned' \in BOOLEAN
    BY <1>1
  <2>2. QED
    BY <1>1, <1>2, <2>1 DEF Import, FormInv, FieldTypeOK, FieldsAreTyped
<1>4. ImportInv'
  BY <1>1 DEF ImportInv, Import
<1>5. QED
  BY <1>3, <1>4 DEF Import, FormInv, StoredInv, DoneInv, ReleaseInv

LEMMA ChoiceKeeps == FormInv /\ (ChooseFixed \/ ChooseExposed \/ Clear) => FormInv'
<1> SUFFICES ASSUME FormInv, ChooseFixed \/ ChooseExposed \/ Clear PROVE FormInv'
  OBVIOUS
<1> USE DEF FormInv
<1>1. FieldsAreTyped(fields)
  BY DEF FieldTypeOK, FieldsAreTyped
<1>2. CASE ChooseFixed
  <2>1. FieldsAreTyped(Put(fields, Focus, Fixed(DefaultFor(schemaType))))
    BY <1>1, DefaultIsLeaf, SomeFields, PutIsTyped
  <2>2. QED
    BY <1>2, <2>1, Inspects DEF ChooseFixed
<1>3. CASE ChooseExposed
  <2>1. schemaType \in Types
    BY <1>3 DEF ChooseExposed, Inspect, FieldTypeOK
  <2>2. FieldsAreTyped(Put(fields, Focus, Exposed(Entry(schemaType, FALSE))))
    BY <1>1, <2>1, FreshEntry, SomeFields, PutIsTyped
  <2>3. QED
    BY <1>3, <2>2, Inspects DEF ChooseExposed
<1>4. CASE Clear
  <2>1. FieldsAreTyped([s \in DOMAIN fields \ {Focus} |-> fields[s]])
    BY <1>1 DEF FieldsAreTyped
  <2>2. QED
    BY <1>4, <2>1, Inspects DEF Clear
<1>5. QED
  BY <1>2, <1>3, <1>4

LEMMA FixedKeeps ==
  ASSUME FormInv, NEW raw \in Text, EditFixed(raw)
  PROVE  FormInv'
<1>1. FieldsAreTyped(Put(fields, Focus, Fixed(Coerce(raw, schemaType))))
  BY CoerceIsLeaf, SomeFields, PutIsTyped DEF FormInv, FieldTypeOK, FieldsAreTyped
<1>2. QED
  BY <1>1, Inspects DEF EditFixed

LEMMA EntryKeeps ==
  ASSUME FormInv,
         \/ \E raw \in Text : EditDefault(raw) \/ EditBound("min", raw) \/ EditBound("max", raw)
         \/ \E t \in StringCompatible : ChooseType(t)
         \/ \E r \in BOOLEAN : EditRequired(r)
         \/ AddValue
         \/ \E old, new \in Option : EditValue(old, new)
         \/ \E v \in Option : RemoveValue(v)
  PROVE  FormInv'
<1>1. FocusIs("exposed")
  BY DEF EditDefault, EditBound, ChooseType, EditRequired, AddValue, EditValue, RemoveValue,
         HasValues, Edit
<1>2. Current \in EntryType
  BY <1>1, CurrentIsEntry
<1>3. CASE \E raw \in Text : EditDefault(raw)
  <2>1. PICK raw \in Text : EditDefault(raw)
    BY <1>3
  <2>2. [Current EXCEPT !.default = Coerce(raw, Current.type)] \in EntryType
    BY <1>2, CoerceIsLeaf DEF EntryType
  <2>3. QED
    BY <2>1, <2>2, Edits DEF EditDefault
<1>4. CASE \E raw \in Text, b \in {"min", "max"} : EditBound(b, raw)
  <2>1. PICK raw \in Text, b \in {"min", "max"} : EditBound(b, raw)
    BY <1>4
  <2> DEFINE n == IF raw = "" THEN Undefined ELSE NumberOf[raw]
  <2>2. n \in Bounds
    BY DEF Bounds
  <2>3. [Current EXCEPT !.min = n] \in EntryType /\ [Current EXCEPT !.max = n] \in EntryType
    BY <1>2, <2>2 DEF EntryType
  <2>4. QED
    BY <2>1, <2>3, Edits DEF EditBound
<1>5. CASE \E t \in StringCompatible : ChooseType(t)
  <2>1. PICK t \in StringCompatible : ChooseType(t)
    BY <1>5
  <2>2. [Current EXCEPT !.type = t] \in EntryType
    BY <1>2 DEF EntryType, Types
  <2>3. QED
    BY <2>1, <2>2, Edits DEF ChooseType
<1>6. CASE \E r \in BOOLEAN : EditRequired(r)
  <2>1. PICK r \in BOOLEAN : EditRequired(r)
    BY <1>6
  <2>2. [Current EXCEPT !.required = r] \in EntryType
    BY <1>2 DEF EntryType
  <2>3. QED
    BY <2>1, <2>2, Edits DEF EditRequired
<1>7. \A set \in SUBSET Text : [Current EXCEPT !.values = set] \in EntryType
  BY <1>2 DEF EntryType
<1>8. Current.values \subseteq Text /\ "" \in Text /\ Option \subseteq Text
  BY <1>2, TextIsGiven DEF EntryType
<1>9. CASE AddValue
  BY <1>7, <1>8, <1>9, Edits DEF AddValue
<1>10. CASE \E old, new \in Option : EditValue(old, new)
  BY <1>7, <1>8, <1>10, Edits DEF EditValue
<1>11. CASE \E v \in Option : RemoveValue(v)
  BY <1>7, <1>8, <1>11, Edits DEF RemoveValue
<1>12. QED
  BY <1>3, <1>4, <1>5, <1>6, <1>9, <1>10, <1>11

LEMMA SavedIsBounded ==
  ASSUME NEW m \in Bounds, m # Fraction
  PROVE  /\ Nil(m) \in Bounds
         /\ Nil(m) = Undefined \/ \E t \in Text \ {""} : Numeral(t) /\ Nil(m) = NumberOf[t]
<1>1. CASE m \in {Undefined, NaN}
  BY <1>1 DEF Nil, Json, Bounds
<1>2. CASE m \notin {Undefined, NaN}
  <2>1. PICK t \in Text \ {""} : m = NumberOf[t]
    BY <1>2 DEF Bounds
  <2>2. PICK n \in Int : m = Num(n)
    BY <1>2, <2>1, Numbers
  <2>3. Nil(m) = m
    BY <2>2, Tags DEF Nil, Json
  <2>4. Numeral(t)
    <3>1. Is("int", Num(n)) /\ NumberOf[t] = Num(n)
      BY <2>1, <2>2, Tags
    <3>2. QED
      BY <3>1 DEF Numeral
  <2>5. QED
    BY <2>1, <2>3, <2>4
<1>3. QED
  BY <1>1, <1>2

LEMMA NilIsLeaf == \A v \in Leaf : Nil(v) \in Leaf
BY SomeLeaves DEF Nil

LEMMA SaveKeeps == FormInv /\ Save => FormInv'
<1> SUFFICES ASSUME FormInv, Save PROVE FormInv'
  OBVIOUS
<1> DEFINE c == Current
           e == [c EXCEPT !.default = Nil(@), !.min = Nil(@), !.max = Nil(@)]
<1>1. c \in EntryType
  BY CurrentIsEntry DEF Save
<1>2. c.min # Fraction /\ c.max # Fraction
  BY DEF Save
<1>3. /\ c.min \in Bounds /\ c.max \in Bounds /\ c.default \in Leaf
  BY <1>1 DEF EntryType
<1>4. /\ e \in EntryType
      /\ e.type = c.type /\ e.values = c.values
      /\ e.min = Nil(c.min) /\ e.max = Nil(c.max) /\ e.default = Nil(c.default)
  <2>1. Nil(c.min) \in Bounds /\ Nil(c.max) \in Bounds /\ Nil(c.default) \in Leaf
    BY <1>2, <1>3, SavedIsBounded, NilIsLeaf
  <2>2. QED
    BY <1>1, <2>1 DEF EntryType
<1>5. WellBounded(e)
  BY <1>2, <1>3, <1>4, SavedIsBounded DEF WellBounded
<1>6. stored'.entry = e
  BY DEF Save
<1>7. FieldTypeOK'
  <2>1. CASE Opens(c)
    <3>1. PICK initial \in {Undefined, release.values} : value' = Defaults(stored'.entry, initial)
      BY <2>1 DEF Save
    <3>2. value' \in Leaf
      BY <1>3, <1>4, <1>6, <3>1, NilIsLeaf, SomeLeaves DEF Defaults, FormInv, FieldTypeOK
    <3>3. QED
      BY <1>4, <1>6, <2>1, <3>2 DEF Save, FormInv, FieldTypeOK
  <2>2. CASE ~Opens(c)
    BY <2>2 DEF Save, FormInv, FieldTypeOK
  <2>3. QED
    BY <2>1, <2>2
<1>8. StoredInv'
  <2>1. CASE Opens(c)
    BY <1>4, <1>5, <1>6, <2>1 DEF StoredInv, Opens
  <2>2. CASE ~Opens(c)
    BY <2>2 DEF Save, StoredInv
  <2>3. QED
    BY <2>1, <2>2
<1>9. stage' \in {"form", "crashed"} /\ UNCHANGED release
  BY DEF Save
<1>10. QED
  BY <1>7, <1>8, <1>9 DEF FormInv, DoneInv, ReleaseInv, ImportInv

LEMMA WidgetIsLeaf ==
  ASSUME NEW v \in Leaf, FormInv, EditWidget(v)
  PROVE  FormInv'
BY DEF EditWidget, FormInv, FieldTypeOK, StoredInv, DoneInv, ReleaseInv, ImportInv

LEMMA SubmitKeeps == FormInv /\ SubmitForm => FormInv'
<1> SUFFICES ASSUME FormInv, SubmitForm PROVE FormInv'
  OBVIOUS
<1>1. PICK p : p = Safe(stored.entry, value)
  OBVIOUS
<1>2. /\ stage = "form" /\ p # Rejected /\ stage' = "done"
      /\ release' = [values |-> p, manifest |-> Render(stored.entry, stored.document, p)]
      /\ UNCHANGED <<schemaType, doc, fields, warned, stored, value>>
  BY <1>1 DEF SubmitForm
<1>3. p \in Leaf /\ release'.values = p
  BY <1>1, <1>2, SafeIsValid DEF FormInv, FieldTypeOK
<1>4. FieldTypeOK'
  BY <1>2, <1>3 DEF FormInv, FieldTypeOK
<1>5. Submitted(p)'
  BY <1>1, <1>2 DEF Submitted
<1>6. ReleaseInv'
  BY <1>2 DEF ReleaseInv
<1>7. StoredInv'
  BY <1>2 DEF FormInv, StoredInv
<1>8. QED
  BY <1>2, <1>4, <1>5, <1>6, <1>7 DEF FormInv, DoneInv, ImportInv

LEMMA NextKeeps == FormInv /\ NextVersion => FormInv'
<1> SUFFICES ASSUME FormInv, NextVersion PROVE FormInv'
  OBVIOUS
<1>1. PICK r : /\ r \in {NoRelease, release}
               /\ release' = [r EXCEPT !.manifest = Undefined]
  BY DEF NextVersion
<1>2. r = [values |-> r.values, manifest |-> r.manifest] /\ r.values \in Leaf
  BY <1>1, SomeLeaves DEF FormInv, ReleaseInv, FieldTypeOK, NoRelease
<1>3. release' = [values |-> r.values, manifest |-> Undefined]
  BY <1>1, <1>2
<1>4. FieldTypeOK'
  BY <1>2, <1>3, SomeLeaves DEF NextVersion, FormInv, FieldTypeOK
<1>5. ReleaseInv'
  BY <1>3 DEF ReleaseInv
<1>6. QED
  BY <1>4, <1>5 DEF NextVersion, FormInv, StoredInv, DoneInv, ImportInv

LEMMA PickKeeps ==
  ASSUME FormInv, NEW type \in Types \cup {"none"}, PickType(type)
  PROVE  FormInv'
BY DEF PickType, FormInv, FieldTypeOK, StoredInv, DoneInv, ReleaseInv, ImportInv

LEMMA FormInductive == FormInv /\ [FieldNext]_fieldVars => FormInv'
<1> SUFFICES ASSUME FormInv, [FieldNext]_fieldVars PROVE FormInv'
  OBVIOUS
<1>1. CASE UNCHANGED fieldVars
  BY <1>1 DEF fieldVars, FormInv, FieldTypeOK, StoredInv, DoneInv, Submitted, ReleaseInv, ImportInv
<1>2. CASE \E t \in Types \cup {"none"} : PickType(t)
  BY <1>2, PickKeeps
<1>3. CASE Import
  BY <1>3, ImportKeeps
<1>4. CASE ChooseFixed \/ ChooseExposed \/ Clear
  BY <1>4, ChoiceKeeps
<1>5. CASE Save
  BY <1>5, SaveKeeps
<1>6. CASE SubmitForm
  BY <1>6, SubmitKeeps
<1>7. CASE NextVersion
  BY <1>7, NextKeeps
<1>8. CASE \E raw \in Text : EditFixed(raw)
  BY <1>8, FixedKeeps
<1>9. CASE \/ \E raw \in Text : EditDefault(raw) \/ EditBound("min", raw) \/ EditBound("max", raw)
           \/ \E t \in StringCompatible : ChooseType(t)
           \/ \E r \in BOOLEAN : EditRequired(r)
           \/ AddValue
           \/ \E old, new \in Option : EditValue(old, new)
           \/ \E v \in Option : RemoveValue(v)
  BY <1>9, EntryKeeps
<1>10. CASE \E v \in Leaf : EditWidget(v)
  BY <1>10, WidgetIsLeaf
<1>11. QED
  BY <1>1, <1>2, <1>3, <1>4, <1>5, <1>6, <1>7, <1>8, <1>9, <1>10 DEF FieldNext, FieldStep

LEMMA FormInvariance == FieldSpec => []FormInv
BY FormInvInit, FormInductive, PTL DEF FieldSpec

(* The field, its entry, the stored version, the form and the release have   *)
(* their types, whatever is imported, typed, saved and submitted.            *)
THEOREM FieldTypeCorrect == FieldSpec => []FieldTypeOK
<1>1. FormInv => FieldTypeOK
  BY DEF FormInv
<1>2. QED
  BY <1>1, FormInvariance, PTL

(* The two validations, in two languages, agree: nothing the form accepts is *)
(* refused by the server, for every entry that the inspector or an import    *)
(* can build and every text that can be typed.                               *)
THEOREM AcceptedIsRendered == FieldSpec => []AcceptedRenders
<1>1. FormInv => AcceptedRenders
  <2> SUFFICES ASSUME FormInv, stage = "done", release.values # Undefined
               PROVE  release.manifest # Rejected
    BY DEF AcceptedRenders
  <2>1. PICK p : Submitted(p)
    BY DEF FormInv, DoneInv
  <2>2. release.manifest = Render(stored.entry, stored.document, p) /\ release.values = p
    BY <2>1 DEF Submitted
  <2>3. QED
    BY <2>1, <2>2, SafeRenders DEF Submitted, FormInv, FieldTypeOK
<1>2. QED
  BY <1>1, FormInvariance, PTL

(* What is entered is what is deployed, the falsy values too.                *)
THEOREM EnteredIsRendered == FieldSpec => []EnteredIsDeployed
<1>1. FormInv => EnteredIsDeployed
  <2> SUFFICES ASSUME FormInv, stage = "done", release.values # Undefined
               PROVE  release.manifest = release.values
    BY DEF EnteredIsDeployed
  <2>1. PICK p : Submitted(p)
    BY DEF FormInv, DoneInv
  <2>2. release.manifest = Render(stored.entry, stored.document, p) /\ release.values = p
    BY <2>1 DEF Submitted
  <2>3. QED
    BY <2>1, <2>2, SafeRenders DEF Submitted, FormInv, FieldTypeOK
<1>2. QED
  BY <1>1, FormInvariance, PTL

(* No form is a dead end: a sensible entry has a setting of its widget that  *)
(* form and server accept, since a saved bound is an integer that was typed. *)
THEOREM FormIsCompletable == FieldSpec => []Completable
<1>1. FormInv => Completable
  <2> SUFFICES ASSUME FormInv, stage = "form", Sensible(stored.entry)
               PROVE  \E v \in RenderWidget(stored.entry) :
                        /\ Safe(stored.entry, v) # Rejected
                        /\ Render(stored.entry, stored.document, Safe(stored.entry, v)) # Rejected
    BY DEF Completable
  <2>1. PICK e \in EntryType : e = stored.entry
    BY DEF FormInv, FieldTypeOK
  <2>2. PICK v \in RenderWidget(e) :
          v \in Leaf /\ Safe(e, v) = v /\ v # Undefined /\ v # Rejected
    BY <2>1, SomeSetting DEF FormInv, StoredInv
  <2>3. Render(e, stored.document, v) = v
    BY <2>2, SafeRenders
  <2>4. QED
    BY <2>1, <2>2, <2>3
<1>2. QED
  BY <1>1, FormInvariance, PTL

-----------------------------------------------------------------------------
(* Induction, on sets, and what FlattenSeq makes of a path without dots.     *)
(* A set of naturals with zero and the successors of its members has all of *)
(* them: otherwise the successor would map its members below a missing one  *)
(* injectively into fewer.                                                  *)
LEMMA SetInduction ==
  ASSUME NEW S \in SUBSET Nat, 0 \in S, \A n \in S : n + 1 \in S
  PROVE  S = Nat
<1> SUFFICES ASSUME NEW n \in Nat, n \notin S PROVE FALSE
  OBVIOUS
<1> DEFINE T == {i \in S : i <= n}
           f == [i \in T |-> i + 1]
<1>1. T \subseteq 0..n
  <2>1. S \subseteq Nat
    OBVIOUS
  <2>2. \A i \in S : i \in Nat
    BY <2>1
  <2>3. ASSUME NEW i \in T PROVE i \in 0..n
    <3>1. i \in S /\ i <= n
      OBVIOUS
    <3>2. i \in Nat
      BY <2>2, <3>1
    <3>3. QED
      BY <3>1, <3>2
  <2>4. QED
    BY <2>3
<1>2. IsFiniteSet(T) /\ Cardinality(T) \in Nat
  <2>1. IsFiniteSet(0..n)
    BY FS_Interval
  <2>2. IsFiniteSet(T)
    BY <1>1, <2>1, FS_Subset
  <2>3. QED
    BY <2>2, FS_CardinalityType
<1>3. f \in Injection(T, T \ {0})
  <2>1. \A i \in T : i \in Nat /\ i + 1 \in T \ {0}
    OBVIOUS
  <2>2. f \in [T -> T \ {0}]
    BY <2>1
  <2>3. \A a, b \in T : f[a] = f[b] => a = b
    BY <2>1
  <2>4. QED
    BY <2>2, <2>3 DEF Injection, IsInjective
<1>4. /\ IsFiniteSet(T \ {0})
      /\ Cardinality(T \ {0}) = Cardinality(T) - 1
  <2>1. 0 \in T
    OBVIOUS
  <2>2. QED
    BY <1>2, <2>1, FS_RemoveElement
<1>5. Cardinality(T) <= Cardinality(T \ {0})
  BY <1>3, <1>4, FS_Injection
<1>6. QED
  BY <1>2, <1>4, <1>5

(* What the first i keys of a path without dots make.                        *)
Firsts(s, i) == [j \in 1..i |-> s[j][1]]
OneEach(s, S) ==
  \A i \in DOMAIN s : s[i] \in Seq(S) /\ Len(s[i]) = 1

LEMMA FirstsGrow ==
  ASSUME NEW S, NEW s, NEW n \in Nat, DOMAIN s = 1..n, OneEach(s, S)
  PROVE  /\ \A i \in 1..n : Firsts(s, i) \in Seq(S) /\ Len(Firsts(s, i)) = i
         /\ n > 0 => Firsts(s, 1) = s[1]
         /\ \A i \in 1..n : i # 1 => Firsts(s, i) = Firsts(s, i - 1) \o s[i]
<1>1. \A i \in 1..n : s[i] \in Seq(S) /\ Len(s[i]) = 1 /\ s[i][1] \in S
  <2> SUFFICES ASSUME NEW i \in 1..n PROVE s[i] \in Seq(S) /\ Len(s[i]) = 1 /\ s[i][1] \in S
    OBVIOUS
  <2>1. s[i] \in Seq(S) /\ Len(s[i]) = 1
    BY DEF OneEach
  <2>2. QED
    BY <2>1, ElementOfSeq
<1>2. \A i \in 0..n : /\ Firsts(s, i) \in Seq(S) /\ Len(Firsts(s, i)) = i
                      /\ \A j \in 1..i : Firsts(s, i)[j] = s[j][1]
  BY <1>1 DEF Firsts
<1>3. ASSUME n > 0 PROVE Firsts(s, 1) = s[1]
  <2>1. Len(Firsts(s, 1)) = Len(s[1]) /\ Firsts(s, 1)[1] = s[1][1]
    BY <1>1, <1>2, <1>3
  <2>2. Firsts(s, 1) \in Seq(S) /\ s[1] \in Seq(S) /\ Len(Firsts(s, 1)) = 1
    BY <1>1, <1>2, <1>3
  <2>3. \A j \in 1..1 : Firsts(s, 1)[j] = s[1][j]
    BY <2>1
  <2>4. QED
    BY <2>1, <2>2, <2>3, SeqEqual
<1>4. ASSUME NEW i \in 1..n, i # 1 PROVE Firsts(s, i) = Firsts(s, i - 1) \o s[i]
  <2> DEFINE a == Firsts(s, i)
             b == Firsts(s, i - 1)
             c == s[i]
  <2>1. /\ i - 1 \in 0..n /\ i \in 0..n
        /\ a \in Seq(S) /\ Len(a) = i /\ \A j \in 1..i : a[j] = s[j][1]
        /\ b \in Seq(S) /\ Len(b) = i - 1 /\ \A j \in 1..(i-1) : b[j] = s[j][1]
        /\ c \in Seq(S) /\ Len(c) = 1 /\ c[1] = s[i][1]
    <3>1. i - 1 \in 0..n /\ i \in 0..n
      BY <1>4
    <3>2. QED
      BY <1>1, <1>2, <3>1
  <2> HIDE DEF a, b, c
  <2>2. /\ b \o c \in Seq(S) /\ Len(b \o c) = Len(b) + Len(c)
        /\ \A j \in 1 .. Len(b) + Len(c) : (b \o c)[j] = IF j <= Len(b) THEN b[j] ELSE c[j - Len(b)]
    BY <2>1, ConcatProperties
  <2>3. Len(b) + Len(c) = i
    BY <2>1
  <2>4. ASSUME NEW j \in 1..i PROVE a[j] = (b \o c)[j]
    <3>1. CASE j <= i - 1
      <4>1. i \in Nat /\ j \in Nat /\ j >= 1 /\ j <= i
        OBVIOUS
      <4>2. j \in 1..(i-1) /\ j <= Len(b) /\ j \in 1..(Len(b) + Len(c))
        BY <2>1, <3>1, <4>1
      <4>3. a[j] = s[j][1] /\ b[j] = s[j][1] /\ (b \o c)[j] = b[j]
        BY <2>1, <2>2, <4>2
      <4>4. QED
        BY <4>3
    <3>2. CASE j = i
      <4>1. i - Len(b) = 1 /\ ~(i <= Len(b))
        BY <2>1
      <4>2. (b \o c)[i] = c[i - Len(b)]
        BY <2>2, <2>3, <4>1
      <4>3. QED
        BY <2>1, <3>2, <4>1, <4>2
    <3>3. j <= i - 1 \/ j = i
      OBVIOUS
    <3>4. QED
      BY <3>1, <3>2, <3>3
  <2>5. a = b \o c
    BY <2>1, <2>2, <2>3, <2>4, SeqEqual
  <2>6. QED
    BY <2>5 DEF a, b, c
<1>5. \A i \in 1..n : Firsts(s, i) \in Seq(S) /\ Len(Firsts(s, i)) = i
  <2>1. \A i \in 1..n : i \in 0..n
    OBVIOUS
  <2>2. QED
    BY <1>2, <2>1
<1>6. QED
  BY <1>3, <1>4, <1>5

LEMMA FlattenPlain ==
  ASSUME NEW S, NEW s, NEW n \in Nat, Len(s) = n, DOMAIN s = 1..n, n # 0, OneEach(s, S)
  PROVE  FlattenSeq(s) = Firsts(s, n)
<1> DEFINE Step(g) == [i \in 1..n |-> IF i = 1 THEN s[i] ELSE g[i-1] \o s[i]]
           w == [i \in 1..n |-> Firsts(s, i)]
           fl == CHOOSE g : g = Step(g)
<1>1. w = Step(w)
  <2>1. \A i \in 1..n : w[i] = IF i = 1 THEN s[i] ELSE w[i-1] \o s[i]
    <3>1. \A i \in 1..n : i # 1 => i - 1 \in 1..n
      OBVIOUS
    <3>2. Firsts(s, 1) = s[1]
      <4>1. n > 0
        OBVIOUS
      <4>2. QED
        BY <4>1, FirstsGrow
    <3>3. \A i \in 1..n : i # 1 => Firsts(s, i) = Firsts(s, i - 1) \o s[i]
      BY FirstsGrow
    <3>4. QED
      BY <3>1, <3>2, <3>3
  <2>2. QED
    BY <2>1
<1>2. fl = Step(fl)
  BY <1>1
<1>3. \A i \in 1..n : fl[i] = IF i = 1 THEN s[i] ELSE fl[i-1] \o s[i]
  BY <1>2
<1>4. \A i \in 1..n : w[i] = IF i = 1 THEN s[i] ELSE w[i-1] \o s[i]
  BY <1>1
<1>5. FlattenSeq(s) = fl[n]
  BY DEF FlattenSeq
<1> HIDE DEF fl
<1>6. \A i \in 1..n : fl[i] = w[i]
  <2> DEFINE P == {i \in Nat : i \in 1..n => fl[i] = w[i]}
  <2>1. 0 \in P
    OBVIOUS
  <2> HIDE DEF w
  <2>2. ASSUME NEW i \in P PROVE i + 1 \in P
    <3>1. i \in Nat /\ (i \in 1..n => fl[i] = w[i])
      OBVIOUS
    <3>2. CASE i = 0
      <4>1. ASSUME 1 \in 1..n PROVE fl[1] = w[1]
        BY <1>3, <1>4, <4>1
      <4>2. i + 1 = 1
        BY <3>2
      <4>3. QED
        BY <4>1, <4>2
    <3>3. CASE i # 0 /\ i + 1 \in 1..n
      <4>1. i \in 1..n /\ i + 1 # 1 /\ (i + 1) - 1 = i
        BY <3>1, <3>3
      <4>2. fl[i+1] = fl[i] \o s[i+1] /\ w[i+1] = w[i] \o s[i+1]
        BY <1>3, <1>4, <3>3, <4>1
      <4>3. QED
        <5>1. fl[i+1] = w[i+1]
          BY <3>1, <4>1, <4>2
        <5>2. i + 1 \in Nat
          BY <3>1
        <5>3. QED
          BY <5>1, <5>2
    <3>4. QED
      BY <3>1, <3>2, <3>3
  <2>3. P = Nat
    <3>1. P \in SUBSET Nat
      OBVIOUS
    <3> HIDE DEF P
    <3>2. QED
      BY <2>1, <2>2, <3>1, SetInduction
  <2>4. QED
    BY <2>3
<1>7. QED
  BY <1>5, <1>6

-----------------------------------------------------------------------------
(* The round trip of a plain document.                                       *)
LEMMA PlainPath ==
  ASSUME NEW d \in Documents, Plain(d), NEW p \in DOMAIN d
  PROVE  /\ Keys(FlattenSeq(p)) = p
         /\ IsLeaf(d[p]) /\ Json(d[p]) = d[p]
<1>1. p \in Seq(Seq(STRING)) /\ p # <<>> /\ \A i \in DOMAIN p : Len(p[i]) = 1
  BY DocumentsAreGiven DEF Plain
<1>2. PICK n \in Nat : Len(p) = n /\ DOMAIN p = 1..n /\ n # 0
  BY <1>1, LenProperties, EmptySeq
<1>3. \A i \in 1..n : p[i] \in Seq(STRING) /\ Len(p[i]) = 1
  BY <1>1, <1>2, ElementOfSeq
<1>4. OneEach(p, STRING)
  BY <1>2, <1>3 DEF OneEach
<1>5. FlattenSeq(p) = Firsts(p, n)
  BY <1>2, <1>4, FlattenPlain
<1>6. \A i \in 1..n : p[i] = <<p[i][1]>>
  <2> SUFFICES ASSUME NEW i \in 1..n PROVE p[i] = <<p[i][1]>>
    OBVIOUS
  <2> DEFINE q == p[i]
  <2>1. q \in Seq(STRING) /\ Len(q) = 1
    BY <1>3
  <2> HIDE DEF q
  <2>2. q[1] \in STRING
    BY <2>1, ElementOfSeq
  <2>3. <<q[1]>> \in Seq(STRING) /\ Len(<<q[1]>>) = 1 /\ <<q[1]>>[1] = q[1]
    BY <2>2
  <2>4. \A j \in 1..1 : q[j] = <<q[1]>>[j]
    BY <2>3
  <2>5. q = <<q[1]>>
    BY <2>1, <2>3, <2>4, SeqEqual
  <2>6. QED
    BY <2>5 DEF q
<1>7. Keys(FlattenSeq(p)) = [i \in 1..n |-> <<p[i][1]>>]
  BY <1>5 DEF Keys, Firsts
<1>8. p = [i \in 1..n |-> p[i]]
  BY <1>1, <1>2, LenProperties
<1>9. d[p] \in (Leaf \ {NaN, Undefined}) \cup {EmptyMap, EmptyArray} /\ IsLeaf(d[p])
  BY DocumentsAreGiven DEF Plain, IsLeaf
<1>10. Json(d[p]) = d[p]
  BY <1>9 DEF Json, IsLeaf
<1>11. QED
  BY <1>6, <1>7, <1>8, <1>9, <1>10

(* Every path is a field of its own, with the value of its leaf.             *)
LEMMA PlainWalk ==
  ASSUME NEW d \in Documents, Plain(d), NEW w, w = WalkScalars(d)
  PROVE  /\ DOMAIN w = {FlattenSeq(p) : p \in DOMAIN d}
         /\ \A p \in DOMAIN d : w[FlattenSeq(p)] = Fixed(d[p])
<1> DEFINE leaves == {p \in DOMAIN d : IsLeaf(d[p])}
<1>1. leaves = DOMAIN d
  BY PlainPath
<1>2. w = [s \in {FlattenSeq(p) : p \in leaves} |->
             Fixed(d[CHOOSE p \in leaves : FlattenSeq(p) = s])]
  BY DEF WalkScalars
<1>3. ASSUME NEW p \in DOMAIN d PROVE w[FlattenSeq(p)] = Fixed(d[p])
  <2>1. PICK q \in leaves : /\ q = CHOOSE r \in leaves : FlattenSeq(r) = FlattenSeq(p)
                            /\ FlattenSeq(q) = FlattenSeq(p)
    BY <1>1, <1>3
  <2>2. q = p
    BY <2>1, <1>1, PlainPath
  <2>3. QED
    BY <1>1, <1>2, <1>3, <2>1, <2>2
<1>4. QED
  BY <1>1, <1>2, <1>3

(* The same fields, and others at some paths, make the same document        *)
(* outside of these.                                                         *)
KeysOf(set) == {Keys(s) : s \in set}
LEMMA PlainSerializes ==
  ASSUME NEW d \in Documents, Plain(d), NEW F, NEW others,
         \A p \in DOMAIN d : p \notin KeysOf(others) =>
           FlattenSeq(p) \in DOMAIN F /\ F[FlattenSeq(p)] = Fixed(d[p]),
         \A s \in DOMAIN F : s \in others \/ \E p \in DOMAIN d : s = FlattenSeq(p)
  PROVE  /\ \A p \in DOMAIN d \ KeysOf(others) :
              p \in DOMAIN Serialize(F) /\ Serialize(F)[p] = d[p]
         /\ DOMAIN Serialize(F) \ KeysOf(others) \subseteq DOMAIN d
<1> DEFINE set == {s \in DOMAIN F : IsWritten(F[s])}
           ser == Serialize(F)
<1>1. ser = [p \in {Keys(s) : s \in set} |-> Written(F[CHOOSE s \in set : Keys(s) = p])]
  BY DEF Serialize
<1>2. ASSUME NEW p \in DOMAIN d, p \notin KeysOf(others)
      PROVE  p \in DOMAIN ser /\ ser[p] = d[p]
  <2>1. /\ Keys(FlattenSeq(p)) = p /\ Json(d[p]) = d[p]
        /\ FlattenSeq(p) \in DOMAIN F /\ F[FlattenSeq(p)] = Fixed(d[p])
    BY <1>2, PlainPath
  <2>2. FlattenSeq(p) \in set
    BY <2>1 DEF IsWritten, Fixed
  <2>3. PICK s \in set : s = (CHOOSE r \in set : Keys(r) = p) /\ Keys(s) = p
    BY <2>1, <2>2
  <2>4. s \notin others
    BY <1>2, <2>3 DEF KeysOf
  <2>5. PICK q \in DOMAIN d : s = FlattenSeq(q)
    BY <2>3, <2>4
  <2>6. q = p
    BY <2>3, <2>5, PlainPath
  <2>7. Written(F[s]) = d[p]
    BY <2>1, <2>5, <2>6 DEF Written, Fixed
  <2>8. p \in {Keys(r) : r \in set}
    BY <2>3
  <2>9. QED
    BY <1>1, <2>3, <2>7, <2>8
<1>3. ASSUME NEW p \in DOMAIN ser, p \notin KeysOf(others)
      PROVE  p \in DOMAIN d
  <2>1. PICK s \in set : Keys(s) = p
    BY <1>1, <1>3
  <2>2. s \notin others
    BY <1>3, <2>1 DEF KeysOf
  <2>3. PICK q \in DOMAIN d : s = FlattenSeq(q)
    BY <2>1, <2>2
  <2>4. QED
    BY <2>1, <2>3, PlainPath
<1> HIDE DEF ser
<1>4. QED
  BY <1>2, <1>3 DEF ser

(* An entry with a default leaves nothing to the document.                   *)
LEMMA DefaultDecides ==
  ASSUME NEW e, e.default # Undefined, NEW v, NEW d1, NEW d2
  PROVE  Render(e, d1, v) = Render(e, d2, v)
BY Tags DEF Render, Absent

(* An import that is saved as it is has lost nothing: the document is the    *)
(* one that was written, but for the exposed path, and renders alike.        *)
THEOREM ImportRoundTrips == FieldSpec => []RoundTripsPlain
<1>1. FormInv => RoundTripsPlain
  <2> SUFFICES ASSUME FormInv, stage = "imported", Plain(doc) PROVE RoundTripsPlain
    BY DEF RoundTripsPlain
  <2>1. PICK e \in {NoEntry} \cup Imported, m \in BOOLEAN : fields = YamlToUIState(doc, e, m)
    BY DEF FormInv, ImportInv
  <2>2. PICK w : w = WalkScalars(doc)
    OBVIOUS
  <2>3. doc \in Documents
    BY DEF FormInv, FieldTypeOK
  <2>4. /\ DOMAIN w = {FlattenSeq(p) : p \in DOMAIN doc}
        /\ \A p \in DOMAIN doc : w[FlattenSeq(p)] = Fixed(doc[p])
    BY <2>2, <2>3, PlainWalk
  <2>5. CASE e # NoEntry /\ m
    <3>1. fields = Put(w, Focus, Exposed(e))
      BY <2>1, <2>2, <2>5 DEF YamlToUIState
    <3>2. FocusIs("exposed") /\ DOMAIN fields = DOMAIN w \cup {Focus}
      BY <3>1 DEF FocusIs, Put, Exposed
    <3>3. KeysOf({Focus}) = {Keys(Focus)}
      BY DEF KeysOf
    <3>4. \A p \in DOMAIN doc : p \notin KeysOf({Focus}) =>
            FlattenSeq(p) \in DOMAIN fields /\ fields[FlattenSeq(p)] = Fixed(doc[p])
      <4> SUFFICES ASSUME NEW p \in DOMAIN doc, p # Keys(Focus)
                   PROVE  FlattenSeq(p) \in DOMAIN fields /\ fields[FlattenSeq(p)] = Fixed(doc[p])
        BY <3>3
      <4>1. FlattenSeq(p) # Focus
        BY <2>3, PlainPath
      <4>2. QED
        BY <2>4, <3>1, <4>1 DEF Put
    <3>5. /\ \A p \in DOMAIN doc \ KeysOf({Focus}) :
               p \in DOMAIN Serialize(fields) /\ Serialize(fields)[p] = doc[p]
          /\ DOMAIN Serialize(fields) \ KeysOf({Focus}) \subseteq DOMAIN doc
      BY <2>3, <2>4, <3>2, <3>4, PlainSerializes
    <3>6. Same(Except(Serialize(fields), Keys(Focus)), Except(doc, Keys(Focus)))
      BY <3>3, <3>5 DEF Same, Except
    <3>7. QED
      BY <3>2, <3>6, DefaultDecides DEF RoundTripsPlain
  <2>6. CASE ~(e # NoEntry /\ m)
    <3>1. fields = w
      BY <2>1, <2>2, <2>6 DEF YamlToUIState
    <3>2. ~FocusIs("exposed")
      <4>1. \A v : Fixed(v).mode # "exposed"
        BY DEF Fixed
      <4>2. Focus \in DOMAIN fields => \E p \in DOMAIN doc : fields[Focus] = Fixed(doc[p])
        BY <2>4, <3>1
      <4>3. QED
        BY <4>1, <4>2 DEF FocusIs
    <3>3. KeysOf({}) = {}
      BY DEF KeysOf
    <3>4. /\ \A p \in DOMAIN doc \ KeysOf({}) :
               p \in DOMAIN Serialize(fields) /\ Serialize(fields)[p] = doc[p]
          /\ DOMAIN Serialize(fields) \ KeysOf({}) \subseteq DOMAIN doc
      BY <2>3, <2>4, <3>1, PlainSerializes
    <3>5. Same(Serialize(fields), doc)
      BY <3>3, <3>4 DEF Same
    <3>6. QED
      BY <3>2, <3>5 DEF RoundTripsPlain
  <2>7. QED
    BY <2>5, <2>6
<1>2. QED
  BY <1>1, FormInvariance, PTL
=============================================================================
