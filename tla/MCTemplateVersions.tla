------------------------- MODULE MCTemplateVersions -------------------------
(* Instances of TemplateVersions for TLC.  Templates, rows and contents are *)
(* interchangeable: the specification only compares them.                  *)
EXTENDS TemplateVersions, TLC

Symmetry == Permutations(Template) \cup Permutations(Row) \cup Permutations(Body)
=============================================================================
