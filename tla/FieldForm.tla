------------------------------ MODULE FieldForm ------------------------------
(***************************************************************************)
(* One field of a template on its way, from the type that its schema gives *)
(* it: the editor imports a YAML template (frontend/lib/yaml-to-ui-state.ts) *)
(* or starts from nothing, an admin fixes or exposes the field             *)
(* (components/FieldInspector.tsx), the backend serialises and stores it,  *)
(* the deploy form shows it (components/DynamicForm.tsx), validates what   *)
(* is entered (lib/ui-spec-to-zod.ts) and submits it, and the backend      *)
(* renders it.  TemplateFields adds the tree the type is picked from.      *)
(*                                                                         *)
(* A JavaScript value is a pair of its type and what it is.  A path of a   *)
(* document is a sequence of keys, and a key the sequence of the segments  *)
(* its dots separate, so the key "nginx.conf" of a ConfigMap is one key of *)
(* two segments; a path of the editor is a sequence of segments.           *)
(***************************************************************************)
EXTENDS Integers, Sequences, SequencesExt

CONSTANTS Focus,        \* the path of the field that is edited
          Text,         \* what may be typed into an input of the inspector
          NumberOf,     \* Text -> the JavaScript number it converts to
          Option,       \* what may be typed as one of an entry's values
          Pattern,      \* the strings a pattern matches
          Documents,    \* templates: functions from paths to leaves
          Identifier    \* the segments that SerializeUIMode reads

Str(s) == <<"str", s>>
Num(n) == <<"int", n>>
Bool(b) == <<"bool", b>>
Fraction == <<"float", 0>>            \* 0.5, which Go's int() truncates to 0
NaN == <<"nan", 0>>
Null == <<"null", 0>>
Undefined == <<"undefined", 0>>
EmptyMap == <<"map", 0>>
EmptyArray == <<"array", 0>>

Is(tag, v) == v[1] = tag

Numeral(t) == Is("int", NumberOf[t])

(* An input is a string; one of them at least reads as an integer.         *)
ASSUME TextIsGiven ==
  /\ "" \in Text /\ Text \subseteq STRING /\ Option \subseteq Text /\ Pattern \subseteq Text
  /\ \A t \in Text :
       \/ NumberOf[t] \in {Fraction, NaN}
       \/ /\ NumberOf[t][2] \in Int
          /\ NumberOf[t] = Num(NumberOf[t][2])
  /\ \E t \in Text \ {""} : Numeral(t)

Leaf == {Str(t) : t \in Text} \cup {NumberOf[t] : t \in Text} \cup {Num(0), Num(1)}
          \cup {Bool(b) : b \in BOOLEAN} \cup {Fraction, NaN, Null, Undefined}

(* A template is what JSON can carry.                                      *)
ASSUME DocumentsAreGiven ==
  /\ Focus \in Seq(STRING) /\ Focus # <<>>
  /\ \A d \in Documents : \A p \in DOMAIN d :
       /\ p \in Seq(Seq(STRING)) /\ p # <<>>
       /\ d[p] \in (Leaf \ {NaN, Undefined}) \cup {EmptyMap, EmptyArray}

VARIABLES schemaType,   \* of the node at Focus, "none" if the tree has none
          doc,          \* the template that is imported
          fields,       \* UIResource.fields: editor's path -> field
          warned,       \* the conversion warned
          stage,        \* "tree", "import", "imported", "edit", "form", "crashed" or "done"
          stored,       \* the stored version: document and ui-spec entry
          value,        \* what the form holds for the field
          release       \* values_json of the release, its outcome and manifest

fieldVars == <<schemaType, doc, fields, warned, stage, stored, value, release>>

NoEntry == <<>>
Fixed(v) == [mode |-> "fixed", value |-> v, entry |-> NoEntry]
Exposed(e) == [mode |-> "exposed", value |-> Undefined, entry |-> e]

Put(f, x, v) == [y \in DOMAIN f \cup {x} |-> IF y = x THEN v ELSE f[y]]

-----------------------------------------------------------------------------
(* The conversion of YAML to the editor's state.                           *)

SkipNulls(v) == v \notin {EmptyMap, EmptyArray, Null}  \* mutant: if (!value) return
IsLeaf(v) == v \notin {EmptyMap, EmptyArray}

(* walkScalars: a leaf becomes a fixed field at the dotted path; what has  *)
(* no children disappears.                                                 *)
WalkScalars(d) ==
  LET leaves == {p \in DOMAIN d : IsLeaf(d[p])} IN
  [s \in {FlattenSeq(p) : p \in leaves} |->
     Fixed(d[CHOOSE p \in leaves : FlattenSeq(p) = s])]

(* The ui-spec: an entry that names the resource exposes its path, with or *)
(* without a leaf there; one that does not is warned of.                   *)
YamlToUIState(d, entry, matches) ==
  IF entry # NoEntry /\ matches
  THEN Put(WalkScalars(d), Focus, Exposed(entry)) ELSE WalkScalars(d)

(* What JSON carries to the server: neither undefined nor NaN.             *)
Json(v) == IF v \in {Undefined, NaN} THEN Null ELSE v

(* SerializeUIMode takes each segment for a key; a nil default is not      *)
(* written, a nil value is.                                                *)
Keys(segments) == [i \in DOMAIN segments |-> <<segments[i]>>]
IsWritten(f) == f.mode = "fixed" \/ Json(f.entry.default) # Null
Written(f) == Json(IF f.mode = "fixed" THEN f.value ELSE f.entry.default)
Serialize(fs) ==
  LET set == {s \in DOMAIN fs : IsWritten(fs[s])} IN
  [p \in {Keys(s) : s \in set} |-> Written(fs[CHOOSE s \in set : Keys(s) = p])]
Serializable(fs) == \A s \in DOMAIN fs : IsWritten(fs[s]) => Range(s) \subseteq Identifier

-----------------------------------------------------------------------------
(* The inspector.                                                          *)
StringCompatible == {"string", "enum", "autocomplete"}
Types == StringCompatible \cup {"integer", "boolean"}

DefaultFor(t) ==
  CASE t = "integer" -> Num(0) [] t = "boolean" -> Bool(FALSE) [] OTHER -> Str("")

Coerce(raw, t) ==
  CASE t = "integer" -> IF raw = "" THEN Undefined ELSE NumberOf[raw]
    [] t = "boolean" -> Bool(raw = "true")
    [] OTHER -> Str(raw)

Entry(t, pattern) ==
  [type |-> t, values |-> {}, min |-> Undefined, max |-> Undefined,
   default |-> Undefined, required |-> FALSE, pattern |-> pattern]

Editing == stage \in {"imported", "edit"}

Inspect(f) ==
  /\ Editing /\ stage' = "edit" /\ schemaType # "none"
  /\ fields' = f
  /\ UNCHANGED <<schemaType, doc, warned, stored, value, release>>

FocusIs(mode) == Focus \in DOMAIN fields /\ fields[Focus].mode = mode
Current == fields[Focus].entry
Edit(e) == FocusIs("exposed") /\ Inspect(Put(fields, Focus, Exposed(e)))

ChooseFixed == Inspect(Put(fields, Focus, Fixed(DefaultFor(schemaType))))
ChooseExposed == Inspect(Put(fields, Focus, Exposed(Entry(schemaType, FALSE))))
Clear == Focus \in DOMAIN fields
         /\ Inspect([s \in DOMAIN fields \ {Focus} |-> fields[s]])
EditFixed(raw) ==
  FocusIs("fixed") /\ Inspect(Put(fields, Focus, Fixed(Coerce(raw, schemaType))))

ChooseType(t) == schemaType \in StringCompatible /\ Edit([Current EXCEPT !.type = t])
EditDefault(raw) == Edit([Current EXCEPT !.default = Coerce(raw, Current.type)])
EditBound(b, raw) ==
  FocusIs("exposed") /\ Current.type = "integer" /\
  LET n == IF raw = "" THEN Undefined ELSE NumberOf[raw] IN
  Edit(IF b = "min" THEN [Current EXCEPT !.min = n] ELSE [Current EXCEPT !.max = n])
EditRequired(r) == Edit([Current EXCEPT !.required = r])

HasValues == FocusIs("exposed") /\ Current.type \in {"enum", "autocomplete"}
AddValue == HasValues /\ Edit([Current EXCEPT !.values = @ \cup {""}])
EditValue(old, new) ==
  HasValues /\ old \in Current.values
            /\ Edit([Current EXCEPT !.values = (@ \ {old}) \cup {new}])
RemoveValue(v) == HasValues /\ Edit([Current EXCEPT !.values = @ \ {v}])

-----------------------------------------------------------------------------
(* The form.  schemaFromUISpec throws on an enum without values.           *)
Opens(e) == e.type # "enum" \/ e.values # {}

(* What z.coerce.number() makes of a value.                                *)
CoerceNumber(v) ==
  CASE Is("int", v) \/ v = Fraction -> v
    [] Is("str", v) -> NumberOf[v[2]]
    [] Is("bool", v) -> Num(IF v[2] THEN 1 ELSE 0)
    [] v = Null -> Num(0)
    [] OTHER -> NaN

Above(v, min) == Is("int", min) => v[2] >= min[2]
Below(v, max) == Is("int", max) => v[2] <= max[2]

NoMax(e, n) == Above(n, e.min)         \* mutant: max is not carried over
StrictMax(e, n) ==                     \* mutant: an exclusive max
  Above(n, e.min) /\ (Is("int", e.max) => n[2] < e.max[2])
InRange(e, n) == Above(n, e.min) /\ Below(n, e.max)

Rejected == <<"rejected", 0>>
Safe(e, v) ==
  IF v = Undefined /\ ~e.required THEN v
  ELSE CASE e.type \in {"string", "autocomplete"} ->
              IF Is("str", v) /\ (e.pattern => v[2] \in Pattern) THEN v ELSE Rejected
         [] e.type = "integer" ->
              LET n == CoerceNumber(v) IN
              IF Is("int", n) /\ InRange(e, n) THEN n ELSE Rejected
         [] e.type = "boolean" -> IF Is("bool", v) THEN v ELSE Rejected
         [] e.type = "enum" ->
              IF Is("str", v) /\ v[2] \in e.values THEN v ELSE Rejected

(* What the widget of a type may hand over: a slider the integers of its   *)
(* range, a number input any number, or undefined when it is emptied.      *)
RenderWidget(e) ==
  CASE e.type = "boolean" -> {Bool(b) : b \in BOOLEAN}
    [] e.type = "integer" ->
         LET numbers == {NumberOf[t] : t \in Text \ {""}} \ {NaN} IN
         IF Undefined \notin {e.min, e.max}
         THEN {n \in numbers : Is("int", n) /\ Above(n, e.min) /\ Below(n, e.max)}
         ELSE numbers \cup {Undefined}
    [] e.type = "enum" -> {Str(o) : o \in e.values} \cup {Undefined}
    [] OTHER -> {Str(t) : t \in Text}

(* defaultsFromUISpec, and the values of the release over them.            *)
Defaults(e, initial) == IF initial # Undefined THEN initial ELSE e.default

-----------------------------------------------------------------------------
(* The backend's Render, for this field.                                   *)
Printed(v, o) ==                       \* fmt.Sprint(v) = o
  CASE Is("int", v) \/ v = Fraction -> o # "" /\ NumberOf[o] = v
    [] Is("bool", v) -> o = IF v[2] THEN "true" ELSE "false"
    [] OTHER -> v = Str(o)
Truncated(v) == IF v = Fraction THEN Num(0) ELSE v
Validate(e, v) ==
  CASE e.type = "integer" -> /\ Is("int", v) \/ v = Fraction
                             /\ Above(Truncated(v), e.min) /\ Below(Truncated(v), e.max)
    [] e.type \in {"string", "autocomplete"} -> Is("str", v) /\ (e.pattern => v[2] \in Pattern)
    [] e.type = "boolean" -> Is("bool", v)
    [] e.type = "enum" -> \E o \in e.values : Printed(v, o)

FromDocument(d) == IF Keys(Focus) \in DOMAIN d THEN d[Keys(Focus)] ELSE Undefined

(* The value that Render sets, or leaves as the document has it; a field   *)
(* that is absent and required, or that Validate refuses, fails the call.  *)
FalsyIsAbsent(v) == v \in {Undefined, Num(0), Str(""), Bool(FALSE)} \* mutant
Absent(v) == v = Undefined
Render(e, d, v) ==
  LET raw == IF ~Absent(v) THEN v ELSE IF e.required THEN Rejected ELSE e.default IN
  IF raw = Undefined THEN FromDocument(d)
  ELSE IF raw # Rejected /\ Validate(e, raw) THEN raw ELSE Rejected

-----------------------------------------------------------------------------
NothingStored == [document |-> <<>>, entry |-> NoEntry]
NoRelease == [values |-> Undefined, manifest |-> Undefined]
Bounds == {NumberOf[t] : t \in Text \ {""}} \cup {Undefined}
EntryType == [type : Types, values : SUBSET Text, min : Bounds, max : Bounds,
              default : Leaf, required : BOOLEAN, pattern : BOOLEAN]
FieldType == {Fixed(v) : v \in Leaf} \cup {Exposed(e) : e \in EntryType}

FieldTypeOK ==
  /\ doc \in Documents /\ schemaType \in Types \cup {"none"} /\ warned \in BOOLEAN
  /\ stage \in {"tree", "import", "imported", "edit", "form", "crashed", "done"}
  /\ \A s \in DOMAIN fields : fields[s] \in FieldType
  /\ stage \in {"form", "done"} => stored.entry \in EntryType
  /\ value \in Leaf /\ release.values \in Leaf

FieldInit ==
  /\ schemaType = "none"
  /\ doc \in Documents
  /\ fields = <<>> /\ warned = FALSE /\ stage = "tree"
  /\ stored = NothingStored
  /\ value = Undefined /\ release = NoRelease

PickType(type) ==
  /\ stage = "tree" /\ stage' = "import"
  /\ schemaType' = type
  /\ UNCHANGED <<doc, fields, warned, stored, value, release>>

Imported ==
  LET without == {Entry(t, b) : t \in Types \ {"enum"}, b \in BOOLEAN} IN
  without \cup {[e EXCEPT !.default = DefaultFor(e.type)] : e \in without}

(* The editor opens a version written in YAML, with a ui-spec of its own.  *)
Import ==
  /\ stage = "import" /\ stage' = "imported"
  /\ \E e \in {NoEntry} \cup Imported, matches \in BOOLEAN :
       /\ fields' = YamlToUIState(doc, e, matches)
       /\ warned' = (e # NoEntry /\ ~matches)
  /\ UNCHANGED <<schemaType, doc, stored, value, release>>

(* A bound with a fraction does not unmarshal.                             *)
Nil(v) == IF Json(v) = Null THEN Undefined ELSE v
Save ==
  /\ Editing /\ FocusIs("exposed") /\ Serializable(fields)
  /\ Fraction \notin {Current.min, Current.max}
  /\ stored' = [document |-> Serialize(fields),
               entry |-> [Current EXCEPT !.default = Nil(@), !.min = Nil(@), !.max = Nil(@)]]
  /\ IF Opens(Current)
     THEN /\ stage' = "form"
          /\ \E initial \in {Undefined, release.values} :
               value' = Defaults(stored'.entry, initial)
     ELSE stage' = "crashed" /\ UNCHANGED value
  /\ UNCHANGED <<schemaType, doc, fields, warned, release>>

EditWidget(v) ==
  /\ stage = "form" /\ v \in RenderWidget(stored.entry)
  /\ value' = v
  /\ UNCHANGED <<schemaType, doc, fields, warned, stage, stored, release>>

(* A value that the resolver rejects is reported at the field; another one *)
(* reaches the server as the schema parsed it.                             *)
SubmitForm ==
  LET parsed == Safe(stored.entry, value) IN
  /\ stage = "form" /\ parsed # Rejected
  /\ release' = [values |-> parsed, manifest |-> Render(stored.entry, stored.document, parsed)]
  /\ stage' = "done"
  /\ UNCHANGED <<schemaType, doc, fields, warned, stored, value>>

(* The next version, and an update of the release to it; the form may have *)
(* been abandoned.  A refused submission made no release.                  *)
NextVersion ==
  /\ stage \in {"form", "crashed", "done"} /\ stage' = "edit"
  /\ value' = Undefined /\ stored' = NothingStored
  /\ release' = [IF release.manifest = Rejected THEN NoRelease ELSE release
                   EXCEPT !.manifest = Undefined]
  /\ UNCHANGED <<schemaType, doc, fields, warned>>

FieldStep ==
  \/ Import \/ ChooseFixed \/ ChooseExposed \/ Clear \/ AddValue \/ Save \/ SubmitForm \/ NextVersion
  \/ \E raw \in Text : EditFixed(raw) \/ EditDefault(raw) \/ EditBound("min", raw) \/ EditBound("max", raw)
  \/ \E t \in StringCompatible : ChooseType(t)
  \/ \E r \in BOOLEAN : EditRequired(r)
  \/ \E old, new \in Option : EditValue(old, new)
  \/ \E v \in Option : RemoveValue(v)
  \/ \E v \in Leaf : EditWidget(v)

FieldNext == FieldStep \/ \E t \in Types \cup {"none"} : PickType(t)

FieldSpec == FieldInit /\ [][FieldNext]_fieldVars

-----------------------------------------------------------------------------
(* Properties.                                                             *)

(* What the form accepts, the server renders: the two validations, written *)
(* twice in two languages, agree on every entry the inspector can build.   *)
(* Only a value that is left empty may still fail, when the entry's        *)
(* default breaks the entry's own rules.                                   *)
AcceptedRenders ==
  stage = "done" /\ release.values # Undefined => release.manifest # Rejected

(* What is entered, a falsy value too, is what the manifest has.           *)
EnteredIsDeployed ==
  stage = "done" /\ release.values # Undefined => release.manifest = release.values

(* An entry that a template's author can have meant is not one on which    *)
(* every deployment is refused: some setting of its widget is accepted, by *)
(* the form and by the server, whatever the default and an earlier release *)
(* left in the form.                                                       *)
Sensible(e) ==
  /\ Is("int", e.min) => Below(e.min, e.max)
  /\ e.pattern => \E t \in Text : t \in Pattern
Completable ==
  stage = "form" /\ Sensible(stored.entry) =>
    \E v \in RenderWidget(stored.entry) :
      /\ Safe(stored.entry, v) # Rejected
      /\ Render(stored.entry, stored.document, Safe(stored.entry, v)) # Rejected

(* "Everything else becomes a fixed field so the round-trip through        *)
(* SerializeUIMode reproduces the original document"                       *)
(* (yaml-to-ui-state.ts): an imported template renders what the original   *)
(* rendered, for every value of an exposed field that has a default, as    *)
(* long as no key has a dot and no container is empty.                     *)
Same(d, e) == DOMAIN d = DOMAIN e /\ \A p \in DOMAIN d : d[p] = e[p]
Except(d, x) == [p \in DOMAIN d \ {x} |-> d[p]]
Plain(d) == \A p \in DOMAIN d : d[p] \notin {EmptyMap, EmptyArray} /\ \A i \in DOMAIN p : Len(p[i]) = 1
RoundTripsPlain ==
  stage = "imported" /\ Plain(doc) =>
    IF FocusIs("exposed")
    THEN /\ Same(Except(Serialize(fields), Keys(Focus)), Except(doc, Keys(Focus)))
         /\ Current.default # Undefined =>
              \A v \in Leaf : Render(Current, Serialize(fields), v) = Render(Current, doc, v)
    ELSE Same(Serialize(fields), doc)

(* "Returns warnings for lossy or unusual inputs so the caller can surface *)
(* them to the admin" (yaml-to-ui-state.ts): what is converted without a   *)
(* warning is either refused when it is saved or saved as it was.          *)
LossIsWarned ==
  stage = "imported" /\ ~warned /\ ~FocusIs("exposed") /\ Serializable(fields) =>
    Same(Serialize(fields), doc)
=============================================================================
