--------------------------- MODULE MC_Submissions ---------------------------
(* Instances of Submissions for TLC. *)
EXTENDS Submissions, TLC

Subs(n) == 1..n
OneSub == Subs(1)
TwoSubs == Subs(2)
ThreeSubs == Subs(3)

\* A bound: three events, but not a request, a failing call and a crash in one run.
ThreeEvents ==
    /\ ops' + faults' + crashes' <= 3
    /\ faults' = 0 \/ crashes' = 0 \/ ops' = 0

(***************************************************************************)
(* A bound: while the grader evaluates, a handler calls WakeGrader right   *)
(* after its commit.  The token is read only by a grader that waits.  What *)
(* this leaves out is a wake-up for the very submission under evaluation   *)
(* that comes when the grader waits again; for any other submission the    *)
(* commit may as well come after the evaluation.                           *)
(***************************************************************************)
WakesDuringEvaluation ==
    fpc \in Evaluating /\ waking > 0 => waking' < waking

Symmetry == Permutations(Test)
=============================================================================
