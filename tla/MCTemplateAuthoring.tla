------------------------- MODULE MCTemplateAuthoring -------------------------
(* A template with up to as many versions as there are rows, created from   *)
(* the kinds that one of two clusters serves.                                        *)
EXTENDS TemplateAuthoring

BodyHere == [mode : {"ui", "yaml"}, text : Text]
ServesHere == [c \in Cluster |-> IF c = "c1" THEN Kind ELSE {}]
=============================================================================
