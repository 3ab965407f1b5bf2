------------------------------ MODULE Verdicts ------------------------------
(***************************************************************************)
(* What a submission is worth: the classic evaluation, which grades all    *)
(* tests at once and then adds up the subtasks, and the ICPC evaluation,   *)
(* which goes test by test and stops at the first that fails               *)
(* (eval/grader/grader.go), while an editor changes the problem or has the *)
(* submission reevaluated.  Points count the smallest decimal.             *)
(***************************************************************************)
EXTENDS Integers, Sequences, FiniteSets, FiniteSetsExt, Functions

CONSTANTS
    TestCount,          \* the tests of the problem, by visible id
    Layouts,            \* its subtasks: sequences of [tests, worth]
    TestWorth,          \* what a test is worth when there are none
    Percentages,        \* what a checker may give
    Units,              \* the score precisions: the points of one last digit
    DefaultPoints,
    MaxReworks          \* bound: edits of the problem and reevaluations, each

ASSUME VerdictsAssumption ==
    /\ {TestCount, TestWorth, DefaultPoints, MaxReworks} \subseteq Nat
    /\ Units \subseteq Nat \ {0} /\ {0, 100} \subseteq Percentages /\ Percentages \subseteq 0..100
    /\ Layouts \subseteq Seq([tests : SUBSET (1..TestCount), worth : Nat])

VARIABLES
    rubric,     \* the problem: precision, whether it is ICPC, subtasks
    judged,     \* the row of the submission
    marks,      \* its submission_tests rows
    pieces,     \* final_percentage of its submission_subtasks rows
    judge,      \* the evaluation: what it holds in memory
    amiss,      \* history: what came in the way of the last evaluation
    reworks     \* edits and reevaluations so far

verdictVars == <<rubric, judged, marks, pieces, judge, amiss, reworks>>

\* The precision of no decimals has the largest unit, a point.
Full == 100 * Max(Units)
Numbered == 1..TestCount
NoVerdict == 0
Accepted == -1
CompileError == -2
InternalError == -3
Null == -1

\* Mutant of RoundedShare: cut off instead of rounded.
CutShare(worth, pct, unit) == ((worth * pct) \div (100 * unit)) * unit

\* decimal.Round and ROUND: half away from zero.
RoundedShare(worth, pct, unit) == ((2 * worth * pct + 100 * unit) \div (200 * unit)) * unit

\* The generated column computed_score.
ComputedScore(p) ==
    LET exact == rubric.parts[p].worth * (IF pieces[p] = Null THEN 0 ELSE pieces[p])
        digit == 100 * judged.unit
    IN  judged.unit * (exact \div digit + (IF 2 * (exact % digit) >= digit THEN 1 ELSE 0))

\* initSubs: type and precision are copied, the rows of tests and subtasks are new.
Initialise(r) ==
    /\ judged' = [status |-> "waiting", icpc |-> r.icpc, unit |-> r.unit,
                  score |-> 0, verdict |-> NoVerdict]
    /\ marks' = [t \in Numbered |-> [pct |-> 0, state |-> "new"]]
    /\ pieces' = [p \in DOMAIN r.parts |-> Null]

AtRest == [at |-> "idle", icpc |-> FALSE, unit |-> 0, stale |-> FALSE, todo |-> {},
         failed |-> 0, seen |-> <<>>, sum |-> 0]

-----------------------------------------------------------------------------
(* The editors of the problem *)

Rework == reworks' = [reworks EXCEPT !.regrades = @ + 1] /\ reworks.regrades < MaxReworks

\* The ids the evaluation holds become those of deleted rows.
Regrade ==
    /\ Rework
    /\ Initialise(rubric)
    /\ judge' = [judge EXCEPT !.stale = judge.at \in {"tests", "read", "add"}]
    /\ amiss' = IF judge.at \in {"idle", "queued"} THEN {} ELSE amiss \cup {"reset"}
    /\ UNCHANGED rubric

EditRubric ==
    /\ reworks.edits < MaxReworks
    /\ reworks' = [reworks EXCEPT !.edits = @ + 1]
    /\ \E unit \in Units, icpc \in BOOLEAN :
          rubric' = [rubric EXCEPT !.unit = unit, !.icpc = icpc] /\ rubric' # rubric
    /\ UNCHANGED <<judged, marks, pieces, judge, amiss>>

-----------------------------------------------------------------------------
(* executeSubmission *)

\* The queue keeps the submission as it was when fetched; the problem is read now.
TakeFromQueue ==
    /\ judge.at = "idle" /\ judged.status = "waiting"
    /\ judge' = [AtRest EXCEPT !.at = "queued", !.icpc = judged.icpc]
    /\ UNCHANGED <<rubric, judged, marks, pieces, amiss, reworks>>

BeginJudging ==
    /\ judge.at = "queued"
    /\ judged' = [judged EXCEPT !.status = "working"]
    /\ judge' = [judge EXCEPT !.at = "compile", !.unit = rubric.unit]
    /\ amiss' = (IF judge.icpc # judged.icpc THEN {"type"} ELSE {})
                \cup (IF rubric.unit # judged.unit THEN {"precision"} ELSE {})
    /\ UNCHANGED <<rubric, marks, pieces, reworks>>

\* The source, the checker, or the read of the rows fails.
FailEarly ==
    /\ judge.at = "compile"
    /\ \E v \in {CompileError, InternalError} :
          /\ judged' = [judged EXCEPT !.status = "finished", !.score = DefaultPoints, !.verdict = v]
          /\ judge' = [judge EXCEPT !.at = IF v = CompileError THEN "zero" ELSE "finish"]
    /\ UNCHANGED <<rubric, marks, pieces, amiss, reworks>>

ZeroPieces ==
    /\ judge.at = "zero"
    /\ pieces' = [p \in DOMAIN pieces |-> 0]
    /\ judge' = [judge EXCEPT !.at = "finish"]
    /\ UNCHANGED <<rubric, judged, marks, amiss, reworks>>

FetchMarks ==
    /\ judge.at = "compile"
    /\ judge' = [judge EXCEPT !.at = "tests", !.todo = Numbered]
    /\ UNCHANGED <<rubric, judged, marks, pieces, amiss, reworks>>

\* Classic tests end in any order, ICPC tests are run in theirs.
Turn(t) ==
    /\ judge.at = "tests" /\ t \in judge.todo
    /\ judge.icpc => t = Min(judge.todo)

Mark(t, pct, state) ==
    marks' = IF judge.stale THEN marks ELSE [marks EXCEPT ![t] = [pct |-> pct, state |-> state]]

GradeTest(t) ==
    /\ Turn(t) /\ judge.failed = 0
    /\ \E pct \in Percentages :
          /\ Mark(t, pct, "graded")
          /\ judge' = [judge EXCEPT !.todo = @ \ {t},
                          !.failed = IF judge.icpc /\ pct < 100 THEN t ELSE 0]
    /\ UNCHANGED <<rubric, judged, pieces, amiss, reworks>>

SkipTest(t) ==
    /\ Turn(t) /\ judge.failed # 0
    /\ Mark(t, 0, "skipped")
    /\ judge' = [judge EXCEPT !.todo = @ \ {t}]
    /\ UNCHANGED <<rubric, judged, pieces, amiss, reworks>>

\* An error of a test is logged; in both evaluations the next one follows.
TestErrs(t) ==
    /\ Turn(t)
    /\ judge' = [judge EXCEPT !.todo = @ \ {t}]
    /\ amiss' = IF judge.icpc THEN amiss \cup {"error"} ELSE amiss
    /\ UNCHANGED <<rubric, judged, marks, pieces, reworks>>

AllRun == judge.at = "tests" /\ judge.todo = {}

FinishIcpc ==
    /\ AllRun /\ judge.icpc
    /\ judged' = [judged EXCEPT !.status = "finished",
                     !.score = IF judge.failed = 0 THEN Full ELSE DefaultPoints,
                     !.verdict = IF judge.failed = 0 THEN Accepted ELSE judge.failed]
    /\ judge' = [judge EXCEPT !.at = "finish"]
    /\ UNCHANGED <<rubric, marks, pieces, amiss, reworks>>

-----------------------------------------------------------------------------
(* scoreTests: the rows of the tests, then those of the subtasks *)

ReadMarks ==
    /\ AllRun /\ ~judge.icpc
    /\ judge' = [judge EXCEPT !.at = "read", !.stale = FALSE,
                    !.seen = [t \in Numbered |-> marks[t].pct]]
    /\ UNCHANGED <<rubric, judged, marks, pieces, amiss, reworks>>

\* An empty subtask is worth nothing; a row that was not read is left out of the minimum.
PieceOf(p) ==
    LET tests == rubric.parts[p].tests
    IN  IF tests = {} THEN 0
        ELSE IF judge.stale THEN 100 ELSE Min({judge.seen[t] : t \in tests})

ReadPieces ==
    /\ judge.at = "read"
    /\ judge' = [judge EXCEPT !.at = "add", !.stale = FALSE,
          !.seen = [p \in DOMAIN rubric.parts |-> PieceOf(p)],
          !.todo = DOMAIN rubric.parts,
          !.sum = DefaultPoints + (IF rubric.parts # <<>> THEN 0 ELSE
              SumFunction([t \in Numbered |->
                              RoundedShare(TestWorth, judge.seen[t], judge.unit)]))]
    /\ UNCHANGED <<rubric, judged, marks, pieces, amiss, reworks>>

\* The percentage is written; when that fails the score still counts it.
AddPiece(p) ==
    /\ judge.at = "add" /\ p \in judge.todo /\ p = Min(judge.todo)
    /\ judge' = [judge EXCEPT !.todo = @ \ {p},
                    !.sum = @ + RoundedShare(rubric.parts[p].worth, judge.seen[p], judge.unit)]
    /\ \/ pieces' = (IF judge.stale THEN pieces ELSE [pieces EXCEPT ![p] = judge.seen[p]])
          /\ UNCHANGED amiss
       \/ amiss' = amiss \cup {"error"} /\ UNCHANGED pieces
    /\ UNCHANGED <<rubric, judged, marks, reworks>>

WriteSum ==
    /\ judge.at = "add" /\ judge.todo = {}
    /\ judged' = [judged EXCEPT !.status = "finished", !.score = judge.sum]
    /\ judge' = [judge EXCEPT !.at = "finish"]
    /\ UNCHANGED <<rubric, marks, pieces, amiss, reworks>>

\* Any database call may fail.
BreakOff ==
    /\ judge.at \in {"compile", "zero", "tests", "read", "add"}
    /\ judge.at \in {"tests", "add"} => judge.todo = {}
    /\ judge' = [judge EXCEPT !.at = "finish"]
    /\ amiss' = amiss \cup {"error"}
    /\ UNCHANGED <<rubric, judged, marks, pieces, reworks>>

\* The deferred functions.
FinishJudging ==
    /\ judge.at = "finish"
    /\ marks' = [t \in Numbered |->
                    IF marks[t].state = "new" THEN [marks[t] EXCEPT !.state = "done"] ELSE marks[t]]
    /\ judged' = [judged EXCEPT !.status = "finished"]
    /\ judge' = AtRest
    /\ UNCHANGED <<rubric, pieces, amiss, reworks>>

-----------------------------------------------------------------------------
VerdictsInit ==
    /\ \E unit \in Units, icpc \in BOOLEAN, parts \in Layouts :
          LET r == [unit |-> unit, icpc |-> icpc, parts |-> parts]
          IN  /\ rubric = r
              /\ judged = [status |-> "waiting", icpc |-> icpc, unit |-> unit,
                           score |-> 0, verdict |-> NoVerdict]
              /\ marks = [t \in Numbered |-> [pct |-> 0, state |-> "new"]]
              /\ pieces = [p \in DOMAIN parts |-> Null]
    /\ judge = AtRest /\ amiss = {} /\ reworks = [regrades |-> 0, edits |-> 0]

VerdictsNext ==
    \/ Regrade \/ EditRubric
    \/ TakeFromQueue \/ BeginJudging \/ FailEarly \/ ZeroPieces \/ FetchMarks
    \/ \E t \in Numbered : GradeTest(t) \/ SkipTest(t) \/ TestErrs(t)
    \/ FinishIcpc \/ ReadMarks \/ ReadPieces
    \/ \E p \in judge.todo : AddPiece(p)
    \/ WriteSum \/ BreakOff \/ FinishJudging

VerdictsSpec == VerdictsInit /\ [][VerdictsNext]_verdictVars

-----------------------------------------------------------------------------
Graded(t, pct) == marks[t] = [pct |-> pct, state |-> "graded"]

StoppedEarly ==
    /\ judged.verdict \in {CompileError, InternalError} /\ judged.score = DefaultPoints
    /\ \A t \in Numbered : marks[t].state = "done"
    /\ \A p \in DOMAIN pieces : pieces[p] \in {0, Null}

AcceptedByAll ==
    /\ judged.verdict = Accepted /\ judged.score = Full
    /\ \A t \in Numbered : Graded(t, 100)

FailedAtFirst ==
    \E k \in Numbered :
        /\ judged.verdict = k /\ judged.score = DefaultPoints
        /\ \A t \in 1..(k - 1) : Graded(t, 100)
        /\ marks[k].state = "graded" /\ marks[k].pct < 100
        /\ \A t \in (k + 1)..TestCount : marks[t].state = "skipped"

\* A test that erred is worth nothing.
AddedUp ==
    /\ judged.verdict = NoVerdict
    /\ \A p \in DOMAIN pieces :
          LET tests == rubric.parts[p].tests
          IN  pieces[p] = IF tests = {} THEN 0 ELSE Min({marks[t].pct : t \in tests})
    /\ judged.score = DefaultPoints +
          IF rubric.parts = <<>>
          THEN SumFunction([t \in Numbered |->
                               RoundedShare(TestWorth, marks[t].pct, judged.unit)])
          ELSE SumFunction([p \in DOMAIN pieces |-> ComputedScore(p)])

(***************************************************************************)
(* The result of a submission follows from the rows a reader sees beside   *)
(* it: an ICPC submission is accepted exactly when every test passed, and  *)
(* otherwise names the first that failed, with the later ones skipped; a   *)
(* classic one has the points that the database computes for its subtasks, *)
(* each by its worst test, rounded at the same place.  The exceptions are  *)
(* evaluations that a reevaluation or an edit of type or precision came in *)
(* between, and errors, after which an ICPC submission may be accepted     *)
(* with tests that were never graded.                                      *)
(***************************************************************************)
ResultFollows ==
    judged.status = "finished" /\ judge.at = "idle" /\ amiss = {} =>
        StoppedEarly \/ IF judged.icpc THEN AcceptedByAll \/ FailedAtFirst ELSE AddedUp
=============================================================================
