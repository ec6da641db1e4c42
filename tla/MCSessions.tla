----------------------------- MODULE MCSessions -----------------------------
(* The requests, and the logins, of a browser are interchangeable.          *)
EXTENDS Sessions, TLC

Symmetry == Permutations(Request) \cup Permutations(Flow)
=============================================================================
