------------------------------ MODULE LogLines ------------------------------
(* The lines of the pods of a release, and what it means that a sequence of *)
(* events carries their logs.  The n-th line of a pod is <<pod, n>>.        *)
EXTENDS Naturals, Sequences, FiniteSets

CONSTANTS Pod,
          MaxLine       \* bound on the lines of a pod

ASSUME PodsAreFinite == IsFiniteSet(Pod) /\ Pod # {}
ASSUME PodsAreNoLines == MaxLine \in Nat /\ Pod \cap (Pod \X (1..MaxLine)) = {}

Line == Pod \X (1..MaxLine)

(* The lines of p among the first m of the events s, by their numbers, and  *)
(* that s carries the log of p from its beginning, in order, without a gap. *)
LinesIn(p, s, m) == {n \in 1..MaxLine : \E i \in 1..m : s[i] = <<p, n>>}
LogOf(p, s) ==
  \A i \in DOMAIN s, n \in 1..MaxLine :
    s[i] = <<p, n>> => LinesIn(p, s, i - 1) = 1..(n - 1)
=============================================================================
