----------------------------- MODULE MCReleases -----------------------------
(* Two releases of one template, whose names are fixed: they share every     *)
(* object.  The second version adds an object; the other one is in a         *)
(* namespace of its own.  Names, requests and row ids are interchangeable.   *)
EXTENDS Releases, TLC

CONSTANTS v1, v2, o1, o2

DocsHere == [n \in Name |-> (v1 :> <<o2>> @@ v2 :> <<o1, o2>>)]
Sweep == <<o1, o2>>

Symmetry == Permutations(Client) \cup Permutations(RowId) \cup Permutations(Name)
=============================================================================
