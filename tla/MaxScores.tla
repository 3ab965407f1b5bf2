------------------------------ MODULE MaxScores ------------------------------
(***************************************************************************)
(* The table max_scores: the score of a user on a problem, recalculated by *)
(* triggers when a submission is inserted, scored, reset or deleted        *)
(* (db/psql_schema/001.base.sql), here for one user and one problem.       *)
(*                                                                         *)
(* The database runs at its default isolation level, READ COMMITTED.  A    *)
(* transaction changes its submission; the trigger then calculates         *)
(* max_score() on a snapshot, that is on what is committed and what the    *)
(* transaction itself wrote; and the upsert waits for the lock on the row  *)
(* of max_scores before it writes what was calculated.  The lock is held   *)
(* until the commit.                                                       *)
(***************************************************************************)
EXTENDS Integers, FiniteSets, FiniteSetsExt, Functions

CONSTANTS
    Sub,        \* submissions; an id may stand for several, one after another
    Stk,        \* the subtasks of the problem
    Points,     \* what a submission or a subtask can be worth
    Tx,         \* database connections
    None,       \* no submission, no connection
    NoRow,      \* the score of a submission that is not in the table
    Strategies  \* the scoring strategies the problem may have

ASSUME PointsAssumption == Points \subseteq Nat /\ 0 \in Points
ASSUME FiniteAssumption == IsFiniteSet(Sub) /\ IsFiniteSet(Stk)
ASSUME DistinctAssumption == None \notin Sub \cup Tx /\ NoRow \notin Points
ASSUME StrategyAssumption == Strategies \subseteq {"max", "sum"}

VARIABLES
    \* committed
    score,      \* score[s]: submissions.score
    parts,      \* parts[s]: computed_score of its submission_subtasks rows
    strategy,   \* problems.scoring_strategy
    cache,      \* max_scores.score, -1 when there is no row
    \* in flight
    at,         \* at[t]: how far the transaction of connection t is
    kind,       \* kind[t]: what it does
    sub,        \* sub[t]: to which submission
    own,        \* own[t]: the score it gives it
    val,        \* val[t]: what its trigger has calculated
    holder,     \* who has the lock on the row of max_scores
    \* history
    late,       \* late[t]: what happened since the calculation of t
    behind      \* what happened since the calculation the cache comes from

tables == <<score, parts, strategy, cache>>
change == <<kind, sub, own>>
vars == <<tables, at, change, val, holder, late, behind>>

InFlight == {t \in Tx : at[t] # "idle"}
Calculated == {t \in Tx : at[t] \in {"calculated", "upserted"}}
Locked(s) == \E t \in InFlight : sub[t] = s
Rows == {s \in Sub : score[s] # NoRow}

\* max_score(): the best submission, or the sum of the best subtasks.
BestScore(sc, pa, st) ==
    LET rows == {s \in Sub : sc[s] # NoRow}
        stks == UNION {DOMAIN pa[s] : s \in Sub}
        best(k) == Max({pa[s][k] : s \in {x \in Sub : k \in DOMAIN pa[x]}})
    IN  IF st = "max"
        THEN IF rows = {} THEN -1 ELSE Max({sc[s] : s \in rows})
        ELSE IF stks = {} THEN -1 ELSE SumFunction([k \in stks |-> best(k)])

\* What a statement of t sees.  The rows of its subtasks go with a submission
\* before its own trigger runs; a reset deletes them after the trigger.
ScoresSeen(t) == [score EXCEPT ![sub[t]] = own[t]]
PartsSeen(t) == IF kind[t] = "delete" THEN [parts EXCEPT ![sub[t]] = <<>>] ELSE parts

Init ==
    /\ score = [s \in Sub |-> NoRow]
    /\ parts = [s \in Sub |-> <<>>]
    /\ strategy \in Strategies
    /\ cache = -1
    /\ at = [t \in Tx |-> "idle"]
    /\ kind = [t \in Tx |-> "none"]
    /\ sub = [t \in Tx |-> None]
    /\ own = [t \in Tx |-> NoRow]
    /\ val = [t \in Tx |-> -1]
    /\ holder = None
    /\ late = [t \in Tx |-> {}] /\ behind = {}

-----------------------------------------------------------------------------
(* Transactions that fire a trigger *)

\* Those that have calculated already miss what happens now.
Missed(reasons) ==
    late' = [t \in Tx |-> IF t \in Calculated' THEN late[t] \cup reasons ELSE {}]

Begin(t, s, k, sc) ==
    /\ at[t] = "idle" /\ ~Locked(s)
    /\ at' = [at EXCEPT ![t] = "changed"]
    /\ kind' = [kind EXCEPT ![t] = k]
    /\ sub' = [sub EXCEPT ![t] = s]
    /\ own' = [own EXCEPT ![t] = sc]
    /\ Missed({"overlap"})
    /\ UNCHANGED <<tables, val, holder, behind>>

\* CreateSubmission.
Insert(t, s) == s \notin Rows /\ Begin(t, s, "insert", 0)

\* UpdateSubmission with a score.  There is one grader.
Score(t, s, p) ==
    /\ s \in Rows
    /\ \A u \in InFlight : kind[u] # "score"
    /\ Begin(t, s, "score", p)

\* ResetSubmissions: clearSubs first.
Reset(t, s) == s \in Rows /\ Begin(t, s, "reset", 0)

DeleteSubmission(t, s) == s \in Rows /\ Begin(t, s, "delete", NoRow)

\* Mutant of Calculate: it sees only what is committed.
CalculateBefore(t) ==
    /\ at[t] = "changed"
    /\ at' = [at EXCEPT ![t] = "calculated"]
    /\ val' = [val EXCEPT ![t] = BestScore(score, parts, strategy)]
    /\ late' = [late EXCEPT ![t] = IF InFlight = {t} THEN {} ELSE {"overlap"}]
    /\ UNCHANGED <<tables, change, holder, behind>>

\* The trigger calls reset_max_score, whose one statement takes a snapshot.
Calculate(t) ==
    /\ at[t] = "changed"
    /\ at' = [at EXCEPT ![t] = "calculated"]
    /\ val' = [val EXCEPT ![t] = BestScore(ScoresSeen(t), PartsSeen(t), strategy)]
    /\ late' = [late EXCEPT ![t] = IF InFlight = {t} THEN {} ELSE {"overlap"}]
    /\ UNCHANGED <<tables, change, holder, behind>>

\* ON CONFLICT: the row is locked, and updated with the value calculated.
Upsert(t) ==
    /\ at[t] = "calculated" /\ holder = None
    /\ holder' = t
    /\ at' = [at EXCEPT ![t] = "upserted"]
    /\ UNCHANGED <<tables, change, val, late, behind>>

End(t) ==
    /\ at' = [at EXCEPT ![t] = "idle"]
    /\ kind' = [kind EXCEPT ![t] = "none"]
    /\ sub' = [sub EXCEPT ![t] = None]
    /\ own' = [own EXCEPT ![t] = NoRow]
    /\ val' = [val EXCEPT ![t] = -1]
    /\ holder' = IF holder = t THEN None ELSE holder

\* A reset has deleted the rows of the subtasks and inserted new ones.
Commit(t) ==
    /\ at[t] = "upserted"
    /\ score' = ScoresSeen(t)
    /\ parts' = IF kind[t] = "reset" THEN [parts EXCEPT ![sub[t]] = [k \in Stk |-> 0]]
                                     ELSE PartsSeen(t)
    /\ cache' = val[t]
    /\ behind' = late[t] \cup IF kind[t] = "reset" THEN {"rows"} ELSE {}
    /\ End(t)
    /\ Missed(IF kind[t] = "reset" THEN {"rows"} ELSE {})
    /\ UNCHANGED strategy

\* Rolled back: an error, or the context of the request is done.
Abort(t) ==
    /\ t \in InFlight
    /\ End(t)
    /\ Missed({})
    /\ UNCHANGED <<tables, behind>>

-----------------------------------------------------------------------------
(* Statements that fire no trigger *)

Silent(reason) ==
    /\ behind' = behind \cup {reason}
    /\ UNCHANGED <<score, cache, at, change, val, holder>>
    /\ Missed({reason})

\* InitSubmission.
InitRows(s) ==
    /\ s \in Rows /\ ~Locked(s)
    /\ DOMAIN parts[s] = {}
    /\ parts' = [parts EXCEPT ![s] = [k \in Stk |-> 0]]
    /\ Silent("rows") /\ UNCHANGED strategy

\* Mutant of UpdatePercentage: it inserts the row it does not find.
UpdatePercentageInserting(s, k, p) ==
    /\ s \in Rows
    /\ \A t \in InFlight : sub[t] = s => kind[t] # "delete"
    /\ parts' = [parts EXCEPT ![s] =
                    [j \in DOMAIN parts[s] \cup {k} |-> IF j = k THEN p ELSE parts[s][j]]]
    /\ Silent("rows") /\ UNCHANGED strategy

\* UpdateSubmissionSubtaskPercentage, before the score is written.
UpdatePercentage(s, k, p) ==
    /\ k \in DOMAIN parts[s]
    /\ \A t \in InFlight : sub[t] = s => kind[t] # "delete"
    /\ parts' = [parts EXCEPT ![s][k] = p]
    /\ Silent("rows") /\ UNCHANGED strategy

\* The scoring strategy of the problem is edited.
UpdateProblem ==
    /\ strategy' \in Strategies \ {strategy}
    /\ Silent("strategy") /\ UNCHANGED parts

-----------------------------------------------------------------------------
Next ==
    \/ \E t \in Tx :
          \/ \E s \in Sub : \/ Insert(t, s) \/ Reset(t, s) \/ DeleteSubmission(t, s)
                            \/ \E p \in Points : Score(t, s, p)
          \/ Calculate(t) \/ Upsert(t) \/ Commit(t) \/ Abort(t)
    \/ \E s \in Sub : \/ InitRows(s)
                      \/ \E k \in Stk, p \in Points : UpdatePercentage(s, k, p)
    \/ UpdateProblem

Spec == Init /\ [][Next]_vars

-----------------------------------------------------------------------------
(* Properties *)

Reason == {"overlap", "rows", "strategy"}

TypeOK ==
    /\ score \in [Sub -> Points \cup {NoRow}]
    /\ parts \in [Sub -> {<<>>} \cup [Stk -> Points]]
    /\ strategy \in Strategies /\ cache \in Int
    /\ at \in [Tx -> {"idle", "changed", "calculated", "upserted"}]
    /\ kind \in [Tx -> {"none", "insert", "score", "reset", "delete"}]
    /\ sub \in [Tx -> Sub \cup {None}] /\ own \in [Tx -> Points \cup {NoRow}]
    /\ val \in [Tx -> Int] /\ late \in [Tx -> SUBSET Reason]
    /\ holder \in Tx \cup {None} /\ behind \subseteq Reason

\* The reasons that matter to the strategy the problem has.
Matters == IF strategy = "max" THEN {"overlap", "strategy"} ELSE Reason

(***************************************************************************)
(* Problem scores are cached and recalculated "on submission changes       *)
(* instead of storing in a view" (docs/CHANGELOG.md:67), so what is read   *)
(* from the cache is what the view would have shown.                       *)
(***************************************************************************)
CacheRight == cache = BestScore(score, parts, strategy)

(***************************************************************************)
(* What holds of it: the cache is only wrong since the transaction that    *)
(* wrote it overlapped with another one, or since the strategy changed or, *)
(* for a sum of subtasks, the rows of subtasks changed, after it was       *)
(* calculated.  The next recalculation without any of this repairs it,     *)
(* whatever was wrong before, and a rollback leaves nothing behind.        *)
(***************************************************************************)
CacheExplained == behind \cap Matters = {} => CacheRight
=============================================================================
