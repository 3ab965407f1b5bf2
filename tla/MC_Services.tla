---------------------------- MODULE MC_Services ----------------------------
(* Small instances of the services that share no state, checked side by    *)
(* side: the first state chooses one, and only that one moves.             *)
EXTENDS Contests, StaffAccess, Tokens, Sessions, Renders, CheckerCache, Leaderboard,
        ProblemLists, TestData, TestScores, Verdicts, TLC

VARIABLE service

servicesVars == <<service, contestVars, staffVars, tokenVars, sessionVars, renderVars,
                  checkerVars, boardVars, listVars, testVars, scoreVars, verdictVars>>

Contest(from, to, own, joinable, during, visible, official, problem) ==
    [start |-> from, end |-> to, per_user_time |-> own, public_join |-> joinable,
     register_during |-> during, visible |-> visible, official |-> official,
     problem_visible |-> problem]

OwnWindows == Contest(2, 3, 2, TRUE, FALSE, TRUE, FALSE, FALSE)
SharedWindow == Contest(1, 2, 0, TRUE, TRUE, TRUE, TRUE, FALSE)
ContestRows == {OwnWindows, SharedWindow}

\* Archives of up to three tests, and archives with up to two scores and MaxUnscored tests.
MaxUnscored == 40
ArchiveScores(p) ==
    UNION {[1..n -> {Unscored(p), 0, 5 * p, 33 * p + 1}] : n \in 1..3}
    \cup {[i \in 1..n |-> IF i <= k THEN s ELSE Unscored(p)] :
             n \in 4..MaxUnscored, k \in 0..2, s \in {60 * p, 100 * p - (p \div 2)}}

\* A subtask with one test, with both, with none; or no subtasks at all.
LayoutRows ==
    {<<>>, <<[tests |-> {1}, worth |-> 250], [tests |-> {1, 2}, worth |-> 750]>>,
     <<[tests |-> {}, worth |-> 1000]>>}
Rubrics == [unit : Units, icpc : BOOLEAN, parts : Layouts]

ServicesInit ==
    /\ service \in {"contest", "staff", "tokens", "sessions", "renders", "checker",
                    "leaderboard", "lists", "tests", "scores", "verdicts"}
    /\ ContestInit /\ contest = OwnWindows
    /\ CheckerInit /\ checker = CHOOSE a \in Sources : TRUE
    /\ StaffInit /\ TokenInit /\ SessionInit /\ RenderInit /\ BoardInit /\ ListInit
    /\ TestDataInit
    /\ VerdictsInit /\ (service # "verdicts" => rubric = CHOOSE r \in Rubrics : TRUE)
    /\ ScoresInit /\ (service # "scores" => point = 1 /\ given = <<Unscored(1)>>)

ServicesNext ==
    \/ /\ service = "contest" /\ ContestNext
       /\ UNCHANGED <<service, staffVars, tokenVars, sessionVars, renderVars, checkerVars,
                      boardVars, listVars, testVars, scoreVars, verdictVars>>
    \/ /\ service = "staff" /\ StaffNext
       /\ UNCHANGED <<service, contestVars, tokenVars, sessionVars, renderVars, checkerVars,
                      boardVars, listVars, testVars, scoreVars, verdictVars>>
    \/ /\ service = "tokens" /\ TokenNext
       /\ UNCHANGED <<service, contestVars, staffVars, sessionVars, renderVars, checkerVars,
                      boardVars, listVars, testVars, scoreVars, verdictVars>>
    \/ /\ service = "sessions" /\ SessionNext
       /\ UNCHANGED <<service, contestVars, staffVars, tokenVars, renderVars, checkerVars,
                      boardVars, listVars, testVars, scoreVars, verdictVars>>
    \/ /\ service = "renders" /\ RenderNext
       /\ UNCHANGED <<service, contestVars, staffVars, tokenVars, sessionVars, checkerVars,
                      boardVars, listVars, testVars, scoreVars, verdictVars>>
    \/ /\ service = "checker" /\ CheckerNext
       /\ UNCHANGED <<service, contestVars, staffVars, tokenVars, sessionVars, renderVars,
                      boardVars, listVars, testVars, scoreVars, verdictVars>>
    \/ /\ service = "leaderboard" /\ BoardNext
       /\ UNCHANGED <<service, contestVars, staffVars, tokenVars, sessionVars, renderVars,
                      checkerVars, listVars, testVars, scoreVars, verdictVars>>
    \/ /\ service = "lists" /\ ListNext
       /\ UNCHANGED <<service, contestVars, staffVars, tokenVars, sessionVars, renderVars,
                      checkerVars, boardVars, testVars, scoreVars, verdictVars>>
    \/ /\ service = "tests" /\ TestDataNext
       /\ UNCHANGED <<service, contestVars, staffVars, tokenVars, sessionVars, renderVars,
                      checkerVars, boardVars, listVars, scoreVars, verdictVars>>
    \/ /\ service = "scores" /\ ScoresNext
       /\ UNCHANGED <<service, contestVars, staffVars, tokenVars, sessionVars, renderVars,
                      checkerVars, boardVars, listVars, testVars, verdictVars>>
    \/ /\ service = "verdicts" /\ VerdictsNext
       /\ UNCHANGED <<service, contestVars, staffVars, tokenVars, sessionVars, renderVars,
                      checkerVars, boardVars, listVars, testVars, scoreVars>>

ServicesSpec == ServicesInit /\ [][ServicesNext]_servicesVars

\* Bound: registrations, windows written and submissions of the contest together.
MaxWritten == 3
SmallContest ==
    Cardinality(registered) + FoldFunction(+, FoldFunction(+, 0, started), entries) <= MaxWritten

\* Bounds: three submissions that are scored whole and out of 100, two if one is scored by
\* its subtasks, which alone then count, or out of another total. A leaderboard behind which
\* a submission was reset is not followed further: nothing is promised of it, and it is
\* delivered in the end.
Load(sub) == 2 + (IF sub.problem \in SumSubtasks THEN 1 ELSE 0)
               + (IF sub.scale # 100 THEN 2 ELSE 0)
SmallBoard ==
    /\ FoldSeq(LAMBDA sub, load : Load(sub) + load, 0, subs) <= 6
    /\ \A i \in Made : subs[i].problem \in SumSubtasks => subs[i].score = 0
    /\ board # NoBoard => board.moved # "back"

ServicesSymmetry == Permutations(ContestRequests)
=============================================================================
