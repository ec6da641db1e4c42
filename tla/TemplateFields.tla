--------------------------- MODULE TemplateFields ---------------------------
(***************************************************************************)
(* The field of FieldForm, picked from the tree of SchemaTree: rows are    *)
(* unfolded and folded until the one of the field is clicked, whose node   *)
(* gives the inspector its type (the edit page of a template's version).   *)
(***************************************************************************)
EXTENDS SchemaTree, FieldForm

VARIABLES schemas,      \* the OpenAPI document, until the field is picked
          expanded      \* the rows that are unfolded, until then

treeVars == <<schemas, expanded>>
vars == <<treeVars, fieldVars>>

Init ==
  /\ schemas \in SchemaDocs /\ expanded = InitiallyExpanded
  /\ FieldInit

(* The rows of the resource's kind; none, when the document has no such    *)
(* kind.  A click on the field's row gives its node to the inspector.      *)
Rows == RenderNode(<<>>, FindKindSchema(schemas), expanded)

Fold(row) ==
  /\ stage = "tree" /\ Folds(row)
  /\ expanded' = Toggle(expanded, row.path)
  /\ UNCHANGED <<schemas, fieldVars>>

LeaveTree == schemas' = <<>> /\ expanded' = {}

SelectFocus(row) ==
  row.path = Focus /\ PickType(MapSchemaType(row.node)) /\ LeaveTree
GoWithout == PickType("none") /\ LeaveTree

Next ==
  \/ \E row \in Rows : Fold(row) \/ SelectFocus(row)
  \/ GoWithout
  \/ FieldStep /\ UNCHANGED treeVars

Spec == Init /\ [][Next]_vars

-----------------------------------------------------------------------------
(* The rows of the tree are the paths that the document declares below the *)
(* rows that are unfolded, with the types it declares them with: resolving *)
(* loses no property of any branch of an allOf, a reference that is met    *)
(* twice in different branches is followed in both, and a cycle ends.      *)
RowsAreDeclared ==
  stage = "tree" =>
    LET segments == UNION {DOMAIN Properties(schemas[n]) : n \in DOMAIN schemas} \cup {"[0]"}
        open == {p \in expanded : \A i \in 1..(Len(p) - 1) : SubSeq(p, 1, i) \in expanded}
        below == {Append(p, x) : p \in open \cup {<<>>}, x \in segments}
    IN /\ {row.path : row \in Rows} = {p \in below : Describe(schemas, p) # {}}
       /\ \A row \in Rows :
            MapSchemaType(row.node) \in
              {MapSchemaType(part.node) : part \in Describe(schemas, row.path)}
=============================================================================
