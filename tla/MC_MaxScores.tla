---------------------------- MODULE MC_MaxScores ----------------------------
(* Instances of MaxScores for TLC. *)
EXTENDS MaxScores, TLC

SomePoints == 0..1
Symmetry == Permutations(Sub) \cup Permutations(Tx) \cup Permutations(Stk)
=============================================================================
