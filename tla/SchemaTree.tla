----------------------------- MODULE SchemaTree -----------------------------
(***************************************************************************)
(* The tree from which an editor's field is picked: a kind's schema, found *)
(* in a cluster's OpenAPI document and resolved (frontend/lib/openapi.ts), *)
(* is shown row by row as its nodes are expanded                           *)
(* (components/SchemaTree.tsx).                                            *)
(*                                                                         *)
(* A schema node is a record of the keys that the node has: type, enum,    *)
(* properties, items, allOf, ref, and the kinds it declares as gvks.  A    *)
(* document maps names to nodes.  A path is a sequence of segments.        *)
(***************************************************************************)
EXTENDS Naturals, Sequences, SequencesExt, TLC

CONSTANTS SchemaDocs,   \* the documents a cluster may answer with
          Kind          \* the kind that a resource of the template has

Has(node, key) == key \in DOMAIN node
Get(node, key, default) == IF Has(node, key) THEN node[key] ELSE default
TypeOf(node) == Get(node, "type", "?")
Properties(node) == Get(node, "properties", <<>>)

-----------------------------------------------------------------------------
(* resolveRefs.                                                            *)

(* { ...a, ...b, properties: { ...a.properties, ...b.properties } }        *)
Overwrite(a, b) == b @@ a              \* mutant: properties are overwritten too
Merge(a, b) == [properties |-> Properties(b) @@ Properties(a)] @@ b @@ a

Cycle == [type |-> "object"]
Empty == <<>>

RECURSIVE ResolveRefs(_, _, _)
ResolveRefs(node, schemas, seen) ==
  IF Has(node, "ref")
  THEN IF node.ref \in seen THEN Cycle
       ELSE IF node.ref \notin DOMAIN schemas THEN node
       ELSE ResolveRefs(schemas[node.ref], schemas, seen \cup {node.ref})
  ELSE IF Get(node, "allOf", <<>>) # <<>>
  THEN LET branches == [i \in DOMAIN node.allOf |->
                          ResolveRefs(node.allOf[i], schemas, seen)]
           parent == Restrict(node, DOMAIN node \ {"allOf"})
       IN ResolveRefs(Merge(FoldLeft(Merge, Empty, branches), parent), schemas, seen)
  ELSE [key \in DOMAIN node |->
          CASE key = "properties" ->
                 [x \in DOMAIN node.properties |->
                    ResolveRefs(node.properties[x], schemas, seen)]
            [] key = "items" -> ResolveRefs(node.items, schemas, seen)
            [] OTHER -> node[key]]

NotFound == [type |-> "not found"]
FindKindSchema(schemas) ==
  LET named == {n \in DOMAIN schemas : Kind \in Get(schemas[n], "gvks", {})} IN
  IF named = {} THEN NotFound
  ELSE ResolveRefs(schemas[CHOOSE n \in named : TRUE], schemas, {})

-----------------------------------------------------------------------------
(* renderNode: the rows on the screen, each a path and its node.           *)
Element(node) == IF Has(node, "items") THEN "[0]" :> node.items ELSE <<>>
Children(node) ==
  CASE TypeOf(node) = "object" -> Properties(node)
    [] TypeOf(node) = "array" -> Element(node)
    [] OTHER -> <<>>

RECURSIVE RenderNode(_, _, _)
RenderNode(path, node, expanded) ==
  LET Row(x) == LET p == Append(path, x)
                    child == Children(node)[x] IN
        {[path |-> p, node |-> child]}
          \cup IF p \in expanded THEN RenderNode(p, child, expanded) ELSE {}
  IN UNION {Row(x) : x \in DOMAIN Children(node)}

MapSchemaType(node) ==
  IF Has(node, "enum") THEN "enum"
  ELSE CASE TypeOf(node) \in {"integer", "number"} -> "integer"
         [] TypeOf(node) = "boolean" -> "boolean"
         [] OTHER -> "string"

InitiallyExpanded == {<<"spec">>, <<"metadata">>}

(* A click on a row selects it, and unfolds or folds one that has          *)
(* children; the row of an array's element folds whether it has or not.    *)
HasKids(node) ==
  \/ TypeOf(node) = "object" /\ Has(node, "properties")
  \/ TypeOf(node) = "array" /\ Has(node, "items")
Folds(row) == HasKids(row.node) \/ Last(row.path) = "[0]"
Toggle(expanded, p) ==
  IF p \in expanded THEN expanded \ {p} ELSE expanded \cup {p}

-----------------------------------------------------------------------------
(* What a document says of a path, without resolving it: the nodes that    *)
(* together describe it, each with the references followed on the way.     *)
Direct(schemas, part) ==
  LET node == part.node IN
  IF Has(node, "ref")
  THEN {IF node.ref \in part.seen THEN [part EXCEPT !.node = Cycle]
        ELSE [node |-> schemas[node.ref], seen |-> part.seen \cup {node.ref}]}
  ELSE {[part EXCEPT !.node = b] : b \in Range(Get(node, "allOf", <<>>))}

MaxChain == 6           \* bound on references and allOf in a chain
Parts(schemas, start) ==
  LET Close(set, i) == set \cup UNION {Direct(schemas, p) : p \in set} IN
  FoldLeft(Close, start, [i \in 1..MaxChain |-> i])

Describe(schemas, path) ==
  LET Inside(node) == Properties(node) @@ Element(node)
      Child(parts, x) ==
        Parts(schemas, {[part EXCEPT !.node = Inside(part.node)[x]] :
                          part \in {p \in parts : x \in DOMAIN Inside(p.node)}})
      roots == {[node |-> schemas[n], seen |-> {}] :
                  n \in {m \in DOMAIN schemas : Kind \in Get(schemas[m], "gvks", {})}}
  IN FoldLeft(Child, Parts(schemas, roots), path)
=============================================================================
