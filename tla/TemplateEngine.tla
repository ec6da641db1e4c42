--------------------------- MODULE TemplateEngine ---------------------------
(***************************************************************************)
(* The template engine of backend/internal/template, from the state of the *)
(* UI editor to a manifest: SerializeUIMode (uimode.go) turns the editor's *)
(* fields into documents and a ui-spec, in the random order in which Go    *)
(* ranges over a map; Render (render.go, jsonpath.go) sets the values of a *)
(* deploy form on the documents and stamps the labels by which releases    *)
(* find their objects.                                                     *)
(*                                                                         *)
(* A path is a sequence of keys and array indices.  A YAML document is a   *)
(* function from the paths of its nodes to "map", "arr", "nil" or a scalar *)
(* named for where it came from.  All resources are of one kind; a field's *)
(* selector is a resource name.  Values are scalars, and valid or not.     *)
(***************************************************************************)
EXTENDS Naturals, Sequences, SequencesExt

CONSTANTS Key,                        \* keys of maps; the ones with a role:
          metadata, name, labels, release, spec, template, jobTemplate,
          Names,        \* the resources' names, in order
          Slot,         \* <<resource, path>>: what the editor may fill in
          MaxFields,    \* bound on the fields of a template
          MaxIndex      \* maxArrayIndex: 1024 in the code

ASSUME KeysAreKeys ==
  /\ {metadata, name, labels, release, spec, template, jobTemplate} \subseteq Key
  /\ metadata # spec /\ template # jobTemplate /\ Key \cap Nat = {}
ASSUME SlotsAreSlots ==
  Slot \subseteq (DOMAIN Names) \X Seq(Key \cup Nat) /\ \A f \in Slot : f[2] # <<>>
ASSUME BoundsAreNat == MaxFields \in Nat /\ MaxIndex \in Nat

VARIABLES ui,           \* slot -> what the editor says of it
          phase,
          todo,         \* slots that SerializeUIMode has not looked at
          docs,         \* resource -> its document
          fields,       \* the slots in the ui-spec; then those left to set
          form          \* slot -> "absent", "given" or "bad"

vars == <<ui, phase, todo, docs, fields, form>>

(* A fixed value, or a form field with or without a default.               *)
Field == {[mode |-> "fixed", default |-> FALSE, required |-> FALSE]} \cup
         {[mode |-> "exposed", default |-> d, required |-> r] : d, r \in BOOLEAN}

Origin == {"fixed", "default", "given", "own"}
Container == {"map", "arr", "nil"}
Scalar == Origin \cup {Names[i] : i \in DOMAIN Names}
ASSUME NamesAreNames ==
  /\ Names \in Seq({Names[i] : i \in DOMAIN Names})
  /\ \A i \in DOMAIN Names : Names[i] \notin Origin \cup Container

-----------------------------------------------------------------------------
(* Paths and documents.                                                    *)
Kind(seg) == IF seg \in Key THEN "map" ELSE "arr"
UpTo(p, k) == SubSeq(p, 1, k)
Above(p) == {UpTo(p, k) : k \in 0..Len(p) - 1}

(* The node p becomes v: what was under p goes, what is missing above p is *)
(* made.                                                                   *)
Put(doc, p, v) ==
  [q \in {p} \cup Above(p) \cup {q \in DOMAIN doc : ~IsStrictPrefix(p, q)} |->
     IF q = p THEN v ELSE IF q \in Above(p) THEN Kind(p[Len(q) + 1]) ELSE doc[q]]

IsDoc(doc) ==
  /\ <<>> \in DOMAIN doc /\ doc[<<>>] = "map"
  /\ \A q \in DOMAIN doc :
       /\ q \in Seq(Key \cup Nat) /\ doc[q] \in Scalar \cup Container
       /\ \A k \in DOMAIN q :
            /\ UpTo(q, k - 1) \in DOMAIN doc /\ doc[UpTo(q, k - 1)] = Kind(q[k])
            /\ q[k] \notin Key /\ q[k] > 0 => Append(UpTo(q, k - 1), q[k] - 1) \in DOMAIN doc

TypeOK ==
  /\ DOMAIN ui \subseteq Slot /\ \A f \in DOMAIN ui : ui[f] \in Field
  /\ phase \in {"serialize", "deploy", "render", "rendered", "rejected",
                "refused", "failed"}
  /\ todo \subseteq DOMAIN ui
  /\ DOMAIN docs = DOMAIN Names /\ \A i \in DOMAIN docs : IsDoc(docs[i])
  /\ fields \in Seq(DOMAIN ui)
  /\ \A f \in DOMAIN form : f \in DOMAIN ui /\ form[f] \in {"absent", "given", "bad"}

Init ==
  /\ \E S \in SUBSET Slot : Cardinality(S) <= MaxFields /\ ui \in [S -> Field]
  /\ phase = "serialize"
  /\ todo = DOMAIN ui
  /\ docs = [i \in DOMAIN Names |->
               Put([q \in {<<>>} |-> "map"], <<metadata, name>>, Names[i])]
  /\ fields = <<>>
  /\ form = <<>>

-----------------------------------------------------------------------------
(* SerializeUIMode.                                                        *)

(* setJSONPathAbsolute: containers that exist must be of the right kind,   *)
(* except an array slot that still is nil.                                 *)
SettableAbsolute(doc, p) ==
  /\ \A k \in 0..Len(p) - 1 :
       UpTo(p, k) \in DOMAIN doc =>
         \/ doc[UpTo(p, k)] = Kind(p[k + 1])
         \/ k > 0 /\ p[k] \notin Key /\ doc[UpTo(p, k)] = "nil"
  /\ \A k \in DOMAIN p : p[k] \notin Key => p[k] <= MaxIndex

(* The slots an array grows by below the index that is set: containers if  *)
(* the path goes on, else nil.                                             *)
NewSlots(p) ==
  UNION {{Append(UpTo(p, k - 1), j) : j \in 0..(p[k] - 1)} :
           k \in {k \in DOMAIN p : p[k] \notin Key}}

Grow(doc, p) ==
  [q \in DOMAIN doc \cup NewSlots(p) |->
     IF q \in DOMAIN doc THEN doc[q]
     ELSE IF Len(q) = Len(p) THEN "nil" ELSE Kind(p[Len(q) + 1])]

(* mutant: an array is copied to length index + 1 although it is longer    *)
SetTruncated(doc, p, v) ==
  LET cut == {q \in DOMAIN doc : \E k \in DOMAIN p :
                /\ p[k] \notin Key /\ Len(q) >= k
                /\ UpTo(q, k - 1) = UpTo(p, k - 1) /\ q[k] > p[k]} IN
  Grow(Put([q \in DOMAIN doc \ cut |-> doc[q]], p, v), p)

SetJSONPathAbsolute(doc, p, v) == Grow(Put(doc, p, v), p)

Writes(f) == ui[f].mode = "fixed" \/ ui[f].default
Constant(f) == IF ui[f].mode = "fixed" THEN "fixed" ELSE "default"

(* Resources in order, the fields of each in any order.                    *)
NextField(f) == phase = "serialize" /\ f \in todo /\ \A g \in todo : f[1] <= g[1]

SerializeField(f) ==
  /\ NextField(f)
  /\ Writes(f) => SettableAbsolute(docs[f[1]], f[2])
  /\ docs' = IF Writes(f)
             THEN [docs EXCEPT ![f[1]] = SetJSONPathAbsolute(@, f[2], Constant(f))]
             ELSE docs
  /\ fields' = IF ui[f].mode = "exposed" THEN Append(fields, f) ELSE fields
  /\ todo' = todo \ {f}
  /\ UNCHANGED <<ui, phase, form>>

SerializeRejects(f) ==
  /\ NextField(f)
  /\ Writes(f) /\ ~SettableAbsolute(docs[f[1]], f[2])
  /\ phase' = "rejected"
  /\ UNCHANGED <<ui, todo, docs, fields, form>>

Serialized ==
  /\ phase = "serialize" /\ todo = {}
  /\ phase' = "deploy"
  /\ UNCHANGED <<ui, todo, docs, fields, form>>

-----------------------------------------------------------------------------
(* Render.                                                                 *)
Deploy ==
  /\ phase = "deploy"
  /\ form' \in [{fields[k] : k \in DOMAIN fields} -> {"absent", "given", "bad"}]
  /\ phase' = "render"
  /\ UNCHANGED <<ui, todo, docs, fields>>

(* findDoc: the first document, by the name the documents have by now.     *)
HasName(doc, n) == <<metadata, name>> \in DOMAIN doc /\ doc[<<metadata, name>>] = n
Named(n) ==
  {i \in DOMAIN docs : HasName(docs[i], n) /\ \A j \in 1..(i - 1) : ~HasName(docs[j], n)}

SettableThere(doc, p) ==                 \* mutant: missing maps are not made
  \A k \in 0..Len(p) - 1 :
    UpTo(p, k) \in DOMAIN doc /\ doc[UpTo(p, k)] = Kind(p[k + 1])

(* setInto: it makes maps, and neither makes nor grows an array.           *)
Settable(doc, p) ==
  \A k \in 0..Len(p) - 1 :
    IF UpTo(p, k) \in DOMAIN doc
    THEN doc[UpTo(p, k)] = Kind(p[k + 1])
         /\ (p[k + 1] \notin Key => UpTo(p, k + 1) \in DOMAIN doc)
    ELSE p[k + 1] \in Key

DefaultFirst(f) == IF ui[f].default THEN "default" ELSE form[f]   \* mutant
Value(f) == IF form[f] = "absent" /\ ui[f].default THEN "default" ELSE form[f]

Refuses(f) ==
  \/ form[f] = "bad"
  \/ form[f] = "absent" /\ ui[f].required

(* A field without value or default is left out; the others are set.       *)
SetField ==
  LET f == Head(fields) IN
  /\ phase = "render" /\ fields # <<>> /\ ~Refuses(f)
  /\ IF Value(f) = "absent" THEN UNCHANGED docs
     ELSE \E i \in Named(Names[f[1]]) :
            /\ Settable(docs[i], f[2])
            /\ docs' = [docs EXCEPT ![i] = Put(@, f[2], Value(f))]
  /\ fields' = Tail(fields)
  /\ UNCHANGED <<ui, phase, todo, form>>

Refuse ==
  /\ phase = "render" /\ fields # <<>> /\ Refuses(Head(fields))
  /\ phase' = "refused"
  /\ UNCHANGED <<ui, todo, docs, fields, form>>

Fail ==
  LET f == Head(fields) IN
  /\ phase = "render" /\ fields # <<>> /\ ~Refuses(f)
  /\ Value(f) # "absent"
  /\ \A i \in Named(Names[f[1]]) : ~Settable(docs[i], f[2])
  /\ phase' = "failed"
  /\ UNCHANGED <<ui, todo, docs, fields, form>>

(* stampLabels, after every field is set.                                  *)
EnsureMap(doc, p) == IF p \in DOMAIN doc /\ doc[p] = "map" THEN doc ELSE Put(doc, p, "map")

KeepLabel(doc, p) ==                   \* mutant: the template's own label wins
  IF p \in DOMAIN doc THEN doc ELSE Put(doc, p, "own")
WriteLabel(doc, p) == Put(doc, p, "own")

StampLabelsOnto(doc, meta) ==
  WriteLabel(EnsureMap(EnsureMap(doc, meta), Append(meta, labels)),
             meta \o <<labels, release>>)

IsMap(doc, t) == t \in DOMAIN doc /\ doc[t] = "map"
StampTemplate(doc, t) ==
  IF IsMap(doc, t) THEN StampLabelsOnto(doc, Append(t, metadata)) ELSE doc

OfJob == <<spec, jobTemplate, spec, template>>
PodTemplate == {<<spec, template>>, OfJob}

StampLabels(doc) ==
  StampTemplate(StampTemplate(StampLabelsOnto(doc, <<metadata>>), <<spec, template>>), OfJob)

Stamp ==
  /\ phase = "render" /\ fields = <<>>
  /\ docs' = [i \in DOMAIN docs |-> StampLabels(docs[i])]
  /\ phase' = "rendered"
  /\ UNCHANGED <<ui, todo, fields, form>>

Next ==
  \/ \E f \in Slot : SerializeField(f) \/ SerializeRejects(f)
  \/ Serialized \/ Deploy \/ SetField \/ Refuse \/ Fail \/ Stamp

Spec == Init /\ [][Next]_vars

-----------------------------------------------------------------------------
(* Properties.                                                             *)

(* The paths of resource i that F names, with its own name.                *)
PathsOf(F, i) == {f[2] : f \in {g \in F : g[1] = i}}

(* Paths that can be parts of one document: no node is both a scalar and a *)
(* container, or both a map and an array, all container elements of an     *)
(* array are of one kind, and no index is left out.                        *)
Agreeing(p, q) ==
  /\ ~IsStrictPrefix(p, q)
  /\ \A k \in 1..Len(p) :
       k <= Len(q) /\ UpTo(p, k - 1) = UpTo(q, k - 1) =>
         /\ Kind(p[k]) = Kind(q[k])
         /\ p[k] \notin Key /\ k < Len(p) /\ k < Len(q) =>
              Kind(p[k + 1]) = Kind(q[k + 1])

Coherent(P) ==
  /\ \A p, q \in P : Agreeing(p, q)
  /\ \A p \in P : \A k \in DOMAIN p : p[k] \notin Key /\ p[k] > 0 =>
       \A j \in 0..(p[k] - 1) :
         \E q \in P : Len(q) >= k /\ UpTo(q, k) = Append(UpTo(p, k - 1), j)

(* From fields that can be parts of one document SerializeUIMode makes     *)
(* that document and nothing else, in whatever order it takes them.        *)
SerializesDeclared ==
  phase = "deploy" =>
    \A i \in DOMAIN docs :
      LET written == {f \in DOMAIN ui : Writes(f)}
          paths == PathsOf(written, i)
          scalars == paths \cup {<<metadata, name>>} IN
      Coherent(scalars) /\ <<metadata, name>> \notin paths =>
        /\ DOMAIN docs[i] = scalars \cup UNION {Above(p) : p \in scalars}
        /\ \A f \in written : f[1] = i => docs[i][f[2]] = Constant(f)

(* Every document of a manifest carries the release's own label, and so do *)
(* its pod templates, whatever the template and the form put there: the    *)
(* sweep of a deletion and the status of a release find it.                *)
Labelled ==
  phase = "rendered" =>
    \A i \in DOMAIN docs :
      \A t \in {<<>>} \cup PodTemplate :
        LET p == t \o <<metadata, labels, release>> IN
        t = <<>> \/ IsMap(docs[i], t) => p \in DOMAIN docs[i] /\ docs[i][p] = "own"

(* What the editor fixed, and what the user entered or left at its         *)
(* default, is in the manifest, unless another field covers it, it cannot  *)
(* be in one document with a label, or two resources have one name.        *)
ManifestIsFaithful ==
  phase = "rendered" =>
    \A f \in DOMAIN ui :
      LET i == f[1]
          v == IF ui[f].mode = "fixed" THEN "fixed"
               ELSE IF form[f] = "given" THEN "given"
               ELSE IF ui[f].default THEN "default" ELSE "absent" IN
      /\ v # "absent"
      /\ \A j \in DOMAIN Names : Names[j] = Names[i] => j = i
      /\ \A g \in DOMAIN ui \ {f} : g[1] = i =>
           ~IsPrefix(f[2], g[2]) /\ ~IsPrefix(g[2], f[2])
      /\ \A t \in {<<>>} \cup PodTemplate :
           LET p == t \o <<metadata, labels, release>> IN
           f[2] # p /\ Agreeing(f[2], p) /\ Agreeing(p, f[2])
      => f[2] \in DOMAIN docs[i] /\ docs[i][f[2]] = v

(* An array that two paths go through holds values, or containers.         *)
OneKind(p, q) ==
  \A k \in 1..Len(p) :
    k <= Len(q) /\ UpTo(p, k - 1) = UpTo(q, k - 1) /\ {p[k], q[k]} \cap Key = {} =>
      (Len(p) = k <=> Len(q) = k)

(* A field that has its resource, and its way in it, to itself: the        *)
(* resource keeps a name of its own, and no field disagrees with another.  *)
Undisturbed(f) ==
  /\ \A j \in DOMAIN Names : Names[j] = Names[f[1]] => j = f[1]
  /\ \A g \in DOMAIN ui : g[1] = f[1] =>
       /\ g[2] \notin {<<metadata>>, <<metadata, name>>}
       /\ Agreeing(f[2], g[2]) /\ Agreeing(g[2], f[2]) /\ OneKind(f[2], g[2])
  /\ Agreeing(f[2], <<metadata, name>>) /\ Agreeing(<<metadata, name>>, f[2])

(* Field g goes through the array that f enters at its k-th segment, there *)
(* or at a later index.                                                    *)
Reaches(g, f, k) ==
  LET p == f[2]
      q == g[2] IN
  /\ g[1] = f[1] /\ k <= Len(q) /\ UpTo(q, k - 1) = UpTo(p, k - 1)
  /\ q[k] \notin Key /\ q[k] >= p[k]

(* Every index on the way of f is in an array that a fixed value or a      *)
(* default brought into the template.                                      *)
ArraysAreMade(f) ==
  \A k \in DOMAIN f[2] : f[2][k] \notin Key =>
    \E g \in DOMAIN ui : Writes(g) /\ Reaches(g, f, k)

(* A value can be set on its field if, and only if, the arrays on its way  *)
(* are there: a deployment fails for no other reason, whatever maps are    *)
(* missing, and whatever was set before; and one that is rendered found    *)
(* them.                                                                   *)
FailsForAReason ==
  /\ phase = "failed" => ~(Undisturbed(Head(fields)) /\ ArraysAreMade(Head(fields)))
  /\ phase = "rendered" =>
       \A f \in DOMAIN form :
         Value(f) # "absent" /\ Undisturbed(f) => ArraysAreMade(f)
=============================================================================
