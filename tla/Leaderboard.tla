---------------------------- MODULE Leaderboard ----------------------------
(***************************************************************************)
(* The ICPC leaderboard of a contest. One query ranks the contestants      *)
(* (contest_icpc_view); then one query for each of them fetches what the   *)
(* cells of its row show (icpcToLeaderboardEntry). Both start from         *)
(* contest_max_scores. Submissions are made, judged and reset meanwhile.   *)
(***************************************************************************)
EXTENDS Integers, Sequences, FiniteSets, Functions, FiniteSetsExt

CONSTANTS Contestants, ContestProblems,
          SumSubtasks,          \* problems scored by sum_subtasks; the others by their best submission
          Subtasks,             \* of each of them
          MaxSubmissions,       \* bound: submissions that may be made
          Scores, PartScores,   \* the scores of submissions and of subtasks that occur
          Scales,               \* leaderboard_score_scale in percent, as it may be set
          SubmissionPenalty,    \* icpc_submission_penalty
          Freeze,               \* leaderboard_freeze_time; 0: NULL
          LastMinute            \* bound

ASSUME LeaderboardAssumption ==
    /\ {0, 100} \subseteq Scores /\ Scores \subseteq 0..100
    /\ 0 \in PartScores /\ PartScores \subseteq Nat /\ 100 \in Scales /\ Scales \subseteq Nat
    /\ IsFiniteSet(ContestProblems) /\ SumSubtasks \subseteq ContestProblems /\ IsFiniteSet(Subtasks)
    /\ {MaxSubmissions, Freeze, LastMinute} \subseteq Nat /\ SubmissionPenalty \in Int

VARIABLES
    minute,             \* since the start of the contest
    subs,               \* the contest's submissions in the order of their creation
    board               \* the leaderboard being built

boardVars == <<minute, subs, board>>

NoBoard == [step |-> "none"]
None == -1

-----------------------------------------------------------------------------
(* contest_max_scores: the best score of a problem up to the freeze and    *)
(* since when, in hundredths of a point, scaled for the leaderboard.       *)

Made == DOMAIN subs
Counts(i, u, p, until) ==
    /\ subs[i].user = u /\ subs[i].problem = p
    /\ subs[i].judged /\ subs[i].at <= until

NoScore == [score |-> -100, mintime |-> None]

\* FIRST_VALUE ... ORDER BY score DESC, created_at ASC: the score before it is scaled.
FirstOf(S, value) == Min({i \in S : value[i] = Max({value[j] : j \in S})})

\* max_submission_strat: of the finished submissions.
BestSubmission(u, p, until) ==
    LET counted == {i \in Made : Counts(i, u, p, until)}
        first == FirstOf(counted, [i \in counted |-> subs[i].score])
    IN IF counted = {} THEN NoScore
       ELSE [score |-> subs[first].score * subs[first].scale, mintime |-> subs[first].at]

\* subtask_max_scores, sum_subtasks_strat: of each subtask, in submissions of any status.
SumOfSubtasks(u, p, until) ==
    LET rows == {i \in Made : subs[i].user = u /\ subs[i].problem = p /\ subs[i].at <= until}
        first == [s \in Subtasks |-> FirstOf(rows, [i \in rows |-> subs[i].parts[s]])]
    IN IF rows = {} \/ Subtasks = {} THEN NoScore
       ELSE [score |-> SumFunction([s \in Subtasks |->
                           subs[first[s]].parts[s] * subs[first[s]].scale]),
             mintime |-> Max({subs[first[s]].at : s \in Subtasks})]

MaxScore(u, p, until) ==
    IF p \in SumSubtasks THEN SumOfSubtasks(u, p, until) ELSE BestSubmission(u, p, until)

FullScore == 10000       \* "score = 100"
Solved(u, until) == {p \in ContestProblems : MaxScore(u, p, until).score = FullScore}

\* contest_icpc_view: num_solved, penalty, last_time.
\* Mutant of IcpcRow: attempts at any time up to the freeze count.
IcpcRowAllAttempts(u, until) ==
    LET solved == Solved(u, until)
        time(p) == MaxScore(u, p, until).mintime
        attempts(p) == Cardinality({i \in Made : Counts(i, u, p, until) /\ ~subs[i].compile_error})
    IN [num_solved |-> Cardinality(solved),
        penalty |-> SumFunction([p \in solved |-> time(p) + SubmissionPenalty * attempts(p)]),
        last_time |-> IF solved = {} THEN None ELSE Max({time(p) : p \in solved})]

IcpcRow(u, until) ==
    LET solved == Solved(u, until)
        time(p) == MaxScore(u, p, until).mintime
        attempts(p) == Cardinality({i \in Made :
            Counts(i, u, p, minute) /\ ~subs[i].compile_error /\ subs[i].at < time(p)})
    IN [num_solved |-> Cardinality(solved),
        penalty |-> SumFunction([p \in solved |-> time(p) + SubmissionPenalty * attempts(p)]),
        last_time |-> IF solved = {} THEN None ELSE Max({time(p) : p \in solved})]

\* icpcToLeaderboardEntry: what the cells of a row show.
\* Mutant of IcpcCells: compile errors count.
IcpcCellsAnyVerdict(u, until) ==
    [p \in ContestProblems |->
        LET max == MaxScore(u, p, until) IN
        [score |-> max.score, time |-> max.mintime,
         attempts |-> Cardinality({i \in Made :
            /\ Counts(i, u, p, until)
            /\ max.score < FullScore \/ subs[i].at < max.mintime})]]

IcpcCells(u, until) ==
    [p \in ContestProblems |->
        LET max == MaxScore(u, p, until) IN
        [score |-> max.score, time |-> max.mintime,
         attempts |-> Cardinality({i \in Made :
            /\ Counts(i, u, p, until) /\ ~subs[i].compile_error
            /\ max.score < FullScore \/ subs[i].at < max.mintime})]]

-----------------------------------------------------------------------------
\* UserContestFreezeTime: not before the freeze, and editors see it only if they ask to.
\* The queries read COALESCE(freeze_time, NOW()).
FreezeFor(editor, showFrozen) ==
    IF Freeze = 0 \/ minute < Freeze \/ (editor /\ ~showFrozen) THEN 0 ELSE Freeze

Until == IF board.freeze = 0 THEN minute ELSE board.freeze

\* ContestICPCLeaderboard, the first query.
ReadRows ==
    /\ board = NoBoard
    /\ \E editor, showFrozen \in BOOLEAN :
         LET freeze == FreezeFor(editor, showFrozen)
             until == IF freeze = 0 THEN minute ELSE freeze IN
         board' = [step |-> "building", freeze |-> freeze,
                   rows |-> [u \in Contestants |-> IcpcRow(u, until)],
                   cells |-> <<>>, moved |-> "no"]
    /\ UNCHANGED <<minute, subs>>

\* One of the following queries.
ReadCells ==
    /\ board # NoBoard
    /\ \E u \in Contestants \ DOMAIN board.cells :
         board' = [board EXCEPT !.cells =
                       [v \in DOMAIN board.cells \cup {u} |->
                            IF v = u THEN IcpcCells(u, Until) ELSE board.cells[v]]]
    /\ UNCHANGED <<minute, subs>>

Deliver ==
    /\ board # NoBoard /\ DOMAIN board.cells = Contestants
    /\ board' = NoBoard
    /\ UNCHANGED <<minute, subs>>

\* What has changed since the rows were read: nothing, results were added, or taken back.
Moved(how) == IF board = NoBoard THEN NoBoard
              ELSE [board EXCEPT !.moved = IF @ = "back" THEN @ ELSE how]

\* Its rows of subtasks (initSubs) are there at once, and count.
MakeSubmission ==
    /\ Len(subs) < MaxSubmissions
    /\ \E u \in Contestants, p \in ContestProblems, scale \in Scales :
         /\ subs' = Append(subs, [user |-> u, problem |-> p, at |-> minute, scale |-> scale,
                                  parts |-> [s \in Subtasks |-> 0], judged |-> FALSE,
                                  score |-> 0, compile_error |-> FALSE])
         /\ board' = IF p \in SumSubtasks THEN Moved("forward") ELSE board
    /\ UNCHANGED minute

\* The grader scores the subtasks one by one, before the submission is finished.
ScoreSubtask ==
    /\ \E i \in Made, s \in Subtasks, x \in PartScores :
         /\ subs[i].problem \in SumSubtasks /\ ~subs[i].judged
         /\ subs' = [subs EXCEPT ![i].parts[s] = x]
    /\ board' = Moved("forward")
    /\ UNCHANGED minute

\* Evaluations end in any order. A compile error has the default points: no full score.
Judge ==
    /\ \E i \in Made, score \in Scores, ce \in BOOLEAN :
         /\ ~subs[i].judged /\ (ce => score # 100)
         /\ subs' = [subs EXCEPT ![i].judged = TRUE, ![i].score = score,
                                 ![i].compile_error = ce]
    /\ board' = Moved("forward")
    /\ UNCHANGED minute

\* A reset keeps created_at and takes the scale the problem now has (clearSubs, initSubs).
ResetSubmission ==
    /\ \E i \in Made, scale \in Scales :
         subs' = [subs EXCEPT ![i].judged = FALSE, ![i].score = 0, ![i].compile_error = FALSE,
                              ![i].scale = scale, ![i].parts = [s \in Subtasks |-> 0]]
    /\ board' = Moved("back")
    /\ UNCHANGED minute

NextMinute == minute < LastMinute /\ minute' = minute + 1 /\ UNCHANGED <<subs, board>>

BoardInit == minute = 1 /\ subs = <<>> /\ board = NoBoard
BoardNext == \/ ReadRows \/ ReadCells \/ Deliver \/ NextMinute
             \/ MakeSubmission \/ ScoreSubtask \/ Judge \/ ResetSubmission
BoardSpec == BoardInit /\ [][BoardNext]_boardVars

-----------------------------------------------------------------------------
(* The rules of the competition, told as a jury would: go through the      *)
(* judged submissions of a problem in the order in which they were made.   *)
(* Compile errors do not count, nothing counts after the first solution,   *)
(* and the score of a solved problem is its minute and a penalty for each  *)
(* attempt before.                                                         *)

Jury(u, p, until) ==
    LET counted == {i \in Made : Counts(i, u, p, until)}
        earlier(i, j) == \/ subs[i].at < subs[j].at
                         \/ /\ subs[i].at = subs[j].at
                            /\ \/ subs[i].score > subs[j].score
                               \/ subs[i].score = subs[j].score /\ i < j
        verdict[S \in SUBSET counted] ==
            IF S = {} THEN [solved |-> FALSE, points |-> 0]
            ELSE LET last == CHOOSE i \in S : \A j \in S \ {i} : earlier(j, i)
                     before == verdict[S \ {last}]
                 IN IF before.solved \/ subs[last].compile_error THEN before
                    ELSE IF subs[last].score = 100
                    THEN [solved |-> TRUE, points |-> before.points + subs[last].at]
                    ELSE [solved |-> FALSE, points |-> before.points + SubmissionPenalty]
    IN verdict[counted]

\* The contestant's submissions are scored as ICPC contests are: whole, and out of 100.
Plain(u) == \A i \in Made : subs[i].user = u =>
                subs[i].problem \notin SumSubtasks /\ subs[i].scale = 100

\* The query ranks by the rules, whatever the order in which submissions were judged,
\* and whichever of them are reset; also for a frozen board.
IcpcByTheRules ==
    \A u \in Contestants, until \in {minute, Freeze} \ {0} :
        LET solved == {p \in ContestProblems : Jury(u, p, until).solved} IN
        Plain(u) =>
            /\ IcpcRow(u, until).num_solved = Cardinality(solved)
            /\ IcpcRow(u, until).penalty =
                  SumFunction([p \in solved |-> Jury(u, p, until).points])

\* "Keep kind of in sync with left join in icpcToLeaderboardEntry" (999.views.sql): the
\* cells of a row explain its rank. If no score moved since the rows were read, the solved
\* cells add up to the row, however the problems are scored; if only results were added,
\* no solution shown in the row's rank is missing from the cells.
CellsExplainRow ==
    board # NoBoard =>
        \A u \in DOMAIN board.cells :
            LET cells == board.cells[u]
                solved == {p \in ContestProblems : cells[p].score = FullScore} IN
            /\ Plain(u) /\ board.moved # "back" =>
                 Cardinality(solved) >= board.rows[u].num_solved
            /\ board.moved = "no" =>
                 /\ board.rows[u].num_solved = Cardinality(solved)
                 /\ board.rows[u].penalty = SumFunction(
                        [p \in solved |-> cells[p].time + SubmissionPenalty * cells[p].attempts])
=============================================================================
