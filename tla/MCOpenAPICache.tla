--------------------------- MODULE MCOpenAPICache ---------------------------
(* Instances of OpenAPICache for TLC.                                      *)
EXTENDS OpenAPICache, TLC

CONSTANTS c1, c2, c3, b1, b2

(* Two clusters of one certificate authority, and one whose bundle is not  *)
(* a certificate.                                                          *)
Bundles == c1 :> b1 @@ c2 :> b1 @@ c3 :> b2

Symmetry == Permutations(Request) \cup Permutations(GV)
=============================================================================
