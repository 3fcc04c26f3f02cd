---------------------------- MODULE MCProofCache ----------------------------
(* TLC instances of ProofCache. *)
EXTENDS ProofCache, TLC

CONSTANTS omega, z3, ab, cd, sat

TwoProvers == {omega, z3}

\* Two valid implications with one normal form, and a satisfiable formula with
\* that normal form too.
ThreeGoals == {ab, cd, sat}
ThreeKinds == [g \in ThreeGoals |-> IF g = sat THEN "sat" ELSE "imply"]
ThreeKeys == [g \in ThreeGoals |-> "shape"]
TwoValid == {ab, cd}

OneKey == {"shape"}

\* Nothing tells the two provers apart, nor the two implications.
Alike == Permutations(TwoProvers) \cup Permutations(TwoValid)
=============================================================================
