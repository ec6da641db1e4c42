--------------------------- MODULE MCTemplateFields ---------------------------
(* The field is spec.replicas of a resource whose template says nothing, a  *)
(* number or null there, and beside it may have a key with a dot, one that  *)
(* is no identifier, and an emptyDir: {}.                                     *)
EXTENDS TemplateFields

NumberHere == [t \in {"", "0", "1", "0.5", "a"} |->
                 CASE t \in {"", "0"} -> Num(0) [] t = "1" -> Num(1)
                   [] t = "0.5" -> Fraction [] OTHER -> NaN]

Replicas == << <<"spec">>, <<"replicas">> >>
Path == << <<"spec">>, <<"path">> >>
Dotted == << <<"data">>, <<"nginx", "conf">> >>
Hyphened == << <<"data">>, <<"log-level">> >>
EmptyDir == << <<"spec">>, <<"emptyDir">> >>

DocumentsHere ==
  { Replicas :> Num(1),
    Replicas :> Null @@ Path :> Null,
    Path :> Str("a") @@ Dotted :> Str("a"),
    Replicas :> Num(1) @@ Hyphened :> Str("a"),
    EmptyDir :> EmptyMap }
LossyHere == { Path :> Str("a") @@ Dotted :> Str("a"), EmptyDir :> EmptyMap }
IdentifierHere == {"spec", "replicas", "path", "data", "nginx", "conf", "emptyDir"}
FocusHere == <<"spec", "replicas">>

(* Documents: what spec.replicas is, and what stands beside it, a cycle, an *)
(* array, two branches that meet in a third schema, or nothing.             *)
Ref(n) == [ref |-> n]
AllOf(branches) == [allOf |-> branches]
Object(properties) == [type |-> "object", properties |-> properties]
Document(kind, spec) ==
  "Deployment" :> [type |-> "object", gvks |-> {kind},
                   properties |-> "metadata" :> [type |-> "object"]
                                  @@ "spec" :> AllOf(<<Ref("Spec")>>)]
  @@ "Count" :> [type |-> "integer"]
  @@ "Left" :> Object("name" :> [type |-> "string"] @@ "shared" :> Ref("Leaf"))
  @@ "Right" :> Object("on" :> [type |-> "boolean"] @@ "again" :> Ref("Leaf"))
  @@ "Leaf" :> Object("count" :> Ref("Count"))
  @@ "Both" :> (AllOf(<<Ref("Left"), AllOf(<<Ref("Right")>>)>>)
                @@ Object("shared" :> Ref("Leaf") @@ "back" :> Ref("Deployment")))
  @@ "Spec" :> Object(spec)
ReplicasHere ==
  { <<>>, "replicas" :> AllOf(<<Ref("Count")>>), "replicas" :> [type |-> "boolean"],
    "replicas" :> [type |-> "string", enum |-> TRUE] }
BesideHere ==
  { [type |-> "string"], Ref("Spec"), AllOf(<<Ref("Left"), Ref("Right")>>),
    [type |-> "array", items |-> AllOf(<<Ref("Right")>>)],
    AllOf(<<Ref("Both")>>) }
SchemaDocsHere ==
  {Document("Deployment", r @@ "template" :> b) : r \in ReplicasHere, b \in BesideHere}
    \cup {Document("Service", <<>>)}
PlainSchema == {Document("Deployment", "replicas" :> [type |-> "string"])}
=============================================================================
