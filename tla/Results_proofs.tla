--------------------------- MODULE Results_proofs ---------------------------
(***************************************************************************)
(* ResultFollows (Verdicts), CellsExplainRow and IcpcByTheRules            *)
(* (Leaderboard) and ScoresAddUp (TestScores) for any tests, subtasks,     *)
(* points, precisions, contestants, submissions and archives.              *)
(***************************************************************************)
EXTENDS Verdicts, Leaderboard, TestScores, Sums_proofs, SequenceTheorems

-----------------------------------------------------------------------------
(* Verdicts. ResultFollows speaks of the end of an evaluation; the         *)
(* invariant says what holds at each stage of one that nothing came in the *)
(* way of: that an ICPC evaluation has passed all tests before the first   *)
(* that failed, and that a classic one has added the shares of the         *)
(* subtasks it is done with.                                               *)

Stages == {"idle", "queued", "compile", "zero", "tests", "read", "add", "finish"}

VerdictTypeOK ==
    /\ rubric \in [unit : Units, icpc : BOOLEAN, parts : Layouts]
    /\ judged = [status |-> judged.status, icpc |-> judged.icpc, unit |-> judged.unit,
                 score |-> judged.score, verdict |-> judged.verdict]
    /\ judged.unit \in Units
    /\ marks \in [Numbered -> [pct : Percentages, state : {"new", "graded", "skipped", "done"}]]
    /\ pieces = [p \in DOMAIN rubric.parts |-> pieces[p]]
    /\ judge = [at |-> judge.at, icpc |-> judge.icpc, unit |-> judge.unit,
                stale |-> judge.stale, todo |-> judge.todo, failed |-> judge.failed,
                seen |-> judge.seen, sum |-> judge.sum]
    /\ judge.at \in Stages

Fresh ==
    /\ marks = [t \in Numbered |-> [pct |-> 0, state |-> "new"]]
    /\ pieces = [p \in DOMAIN rubric.parts |-> Null]
    /\ judged.verdict = NoVerdict

StoppedIn(state) ==
    /\ judged.verdict \in {CompileError, InternalError} /\ judged.score = DefaultPoints
    /\ \A t \in Numbered : marks[t].state = state
    /\ \A p \in DOMAIN pieces : pieces[p] \in {0, Null}

\* The tests are run in their order, and all before the first that failed passed.
IcpcSoFar ==
    /\ \A t \in judge.todo : \A s \in Numbered \ judge.todo : s < t
    /\ judge.failed = 0 => \A t \in Numbered \ judge.todo : Graded(t, 100)
    /\ judge.failed # 0 =>
         /\ judge.failed \in Numbered \ judge.todo
         /\ \A t \in 1..(judge.failed - 1) : Graded(t, 100)
         /\ marks[judge.failed].state = "graded" /\ marks[judge.failed].pct < 100
         /\ \A t \in ((judge.failed + 1)..TestCount) \ judge.todo : marks[t].state = "skipped"

Worst(p) ==
    LET tests == rubric.parts[p].tests
    IN  IF tests = {} THEN 0 ELSE Min({marks[t].pct : t \in tests})

PieceShares == [p \in DOMAIN rubric.parts |->
              RoundedShare(rubric.parts[p].worth, Worst(p), judged.unit)]
TestPoints == SumFunction([t \in Numbered |->
                              RoundedShare(TestWorth, marks[t].pct, judged.unit)])
PointsWithout(todo) ==
    DefaultPoints + IF rubric.parts = <<>> THEN TestPoints
                    ELSE SumFunctionOnSet(PieceShares, DOMAIN rubric.parts \ todo)

AddedSoFar ==
    /\ judge.todo \subseteq DOMAIN rubric.parts
    /\ \A p \in DOMAIN rubric.parts : judge.seen[p] = Worst(p)
    /\ \A p \in DOMAIN rubric.parts \ judge.todo : pieces[p] = Worst(p)
    /\ judge.sum = PointsWithout(judge.todo)

Outcome == IF judged.icpc THEN AcceptedByAll \/ FailedAtFirst ELSE AddedUp

\* What holds at each stage of an evaluation that nothing came in the way of.
Undisturbed ==
    /\ judge.at \notin {"idle", "queued"} =>
         judge.icpc = judged.icpc /\ judge.unit = judged.unit
    /\ judge.at = "compile" => Fresh
    /\ judge.at = "zero" => StoppedIn("new")
    /\ judge.at = "tests" =>
         /\ judged.verdict = NoVerdict /\ judge.todo \subseteq Numbered
         /\ IF judged.icpc THEN IcpcSoFar ELSE judge.failed = 0
    /\ judge.at \in {"read", "add"} => ~judged.icpc /\ judged.verdict = NoVerdict
    /\ judge.at = "read" => judge.seen = [t \in Numbered |-> marks[t].pct]
    /\ judge.at = "add" => AddedSoFar
    /\ judge.at = "finish" => StoppedIn("new") \/ Outcome
    /\ judge.at = "idle" /\ judged.status = "finished" => StoppedIn("done") \/ Outcome

VerdictInv ==
    /\ VerdictTypeOK
    /\ judge.stale => amiss # {}
    /\ judge.at \in {"queued", "compile"} => judge.failed = 0 /\ ~judge.stale
    /\ judge.at = "queued" \/ (judge.at = "idle" /\ judged.status = "waiting") => Fresh
    /\ amiss = {} => Undisturbed

-----------------------------------------------------------------------------
LEMMA QuotientFacts ==
    ASSUME NEW a \in Int, NEW b \in Nat \ {0}
    PROVE  /\ a \div b \in Int /\ a % b \in Int
           /\ a = b * (a \div b) + (a % b) /\ 0 <= a % b /\ a % b < b
OBVIOUS

LEMMA QuotientIs ==
    ASSUME NEW a \in Int, NEW b \in Nat \ {0}, NEW q \in Int, b * q <= a, a < b * q + b
    PROVE  a \div b = q
<1> DEFINE r == a \div b
           m == a % b
<1>1. r \in Int /\ m \in Int /\ a = b * r + m /\ 0 <= m /\ m < b
    OBVIOUS
<1> HIDE DEF r, m
<1>2. ASSUME NEW x \in Int, NEW y \in Int, x < y PROVE b * x + b <= b * y
    <2>1. y - x - 1 \in Nat
        BY <1>2
    <2>2. b * (y - x - 1) >= 0
        BY <2>1
    <2>3. b * (y - x - 1) = b * y - b * x - b
        OBVIOUS
    <2>4. b * x \in Int /\ b * y \in Int
        OBVIOUS
    <2> QED
        BY <2>2, <2>3, <2>4
<1>3. b * r \in Int /\ b * q \in Int
    BY <1>1
<1>4. ~(r < q)
    BY <1>1, <1>2, <1>3
<1>5. ~(q < r)
    BY <1>1, <1>2, <1>3
<1> QED
    BY <1>1, <1>4, <1>5 DEF r

LEMMA RoundedQuotient ==
    ASSUME NEW e \in Nat, NEW d \in Nat \ {0}
    PROVE  /\ (2 * e + d) \div (2 * d) = e \div d + (IF 2 * (e % d) >= d THEN 1 ELSE 0)
           /\ e \div d \in Int
<1> DEFINE q == e \div d
           r == e % d
           up == IF 2 * r >= d THEN 1 ELSE 0
<1>2. q \in Int /\ r \in Int /\ e = d * q + r /\ 0 <= r /\ r < d
    BY QuotientFacts
<1> HIDE DEF q, r
<1>3. (2 * d) * (q + up) = 2 * (d * q) + (IF 2 * r >= d THEN 2 * d ELSE 0)
    BY <1>2
<1>4. d * q \in Int
    BY <1>2
<1>5. (2 * d) * (q + up) <= 2 * e + d /\ 2 * e + d < (2 * d) * (q + up) + 2 * d
    BY <1>2, <1>3, <1>4
<1>6. up \in Int /\ q + up \in Int /\ 2 * d \in Nat \ {0} /\ 2 * e + d \in Int
    BY <1>2
<1> HIDE DEF up
<1>7. (2 * e + d) \div (2 * d) = q + up
    BY <1>5, <1>6, QuotientIs
<1> QED
    BY <1>2, <1>7 DEF q, r, up

\* What the generated column computes.
ComputedShare(worth, pct, unit) ==
    LET e == worth * pct
        d == 100 * unit
    IN  unit * (e \div d + (IF 2 * (e % d) >= d THEN 1 ELSE 0))

LEMMA SameRounding ==
    ASSUME NEW worth \in Nat, NEW pct \in Nat, NEW unit \in Nat \ {0}
    PROVE  /\ RoundedShare(worth, pct, unit) \in Int
           /\ RoundedShare(worth, pct, unit) = ComputedShare(worth, pct, unit)
<1> DEFINE e == worth * pct
           d == 100 * unit
           n == e \div d + (IF 2 * (e % d) >= d THEN 1 ELSE 0)
<1>1. e \in Nat /\ d \in Nat \ {0}
    OBVIOUS
<1>2. 2 * worth * pct + 100 * unit = 2 * e + d /\ 200 * unit = 2 * d
    OBVIOUS
<1>3. RoundedShare(worth, pct, unit) = ((2 * e + d) \div (2 * d)) * unit
    BY <1>2 DEF RoundedShare
<1> HIDE DEF e, d
<1>4. (2 * e + d) \div (2 * d) = n /\ n \in Int
    <2>1. /\ (2 * e + d) \div (2 * d) = e \div d + (IF 2 * (e % d) >= d THEN 1 ELSE 0)
          /\ e \div d \in Int
        <3> HIDE DEF n
        <3> QED
            BY <1>1, RoundedQuotient
    <2>2. e \div d + 1 \in Int /\ e \div d + 0 \in Int
        BY <2>1
    <2> QED
        BY <2>1, <2>2
<1> HIDE DEF n
<1>5. n * unit = unit * n /\ n * unit \in Int
    BY <1>4
<1> QED
    BY <1>3, <1>4, <1>5 DEF e, d, n, ComputedShare
-----------------------------------------------------------------------------
LEMMA TestFacts ==
    /\ TestCount \in Nat /\ Numbered \subseteq Nat \ {0}
    /\ Percentages \subseteq 0..100 /\ 0 \in Percentages /\ 100 \in Percentages
BY VerdictsAssumption DEF Numbered

LEMMA VerdictInitInv == VerdictsInit => VerdictInv
<1> SUFFICES ASSUME VerdictsInit PROVE VerdictInv
    OBVIOUS
<1>1. judge = AtRest /\ judge.at = "idle" /\ ~judge.stale
    BY DEF VerdictsInit, AtRest
<1>2. judged.status = "waiting" /\ Fresh
    BY DEF VerdictsInit, Fresh, NoVerdict
<1>3. VerdictTypeOK
    BY <1>1, TestFacts DEF VerdictsInit, VerdictTypeOK, AtRest, Stages
<1> QED
    BY <1>1, <1>2, <1>3 DEF VerdictInv, Undisturbed

LEMMA VerdictTypeNext == VerdictTypeOK /\ [VerdictsNext]_verdictVars => VerdictTypeOK'
<1> SUFFICES ASSUME VerdictTypeOK, [VerdictsNext]_verdictVars PROVE VerdictTypeOK'
    OBVIOUS
<1> USE DEF VerdictTypeOK
<1>1. CASE Regrade
    BY <1>1, TestFacts DEF Regrade, Rework, Initialise
<1>2. CASE EditRubric
    BY <1>2 DEF EditRubric
<1>3. CASE TakeFromQueue
    BY <1>3 DEF TakeFromQueue, AtRest, Stages
<1>4. CASE BeginJudging
    BY <1>4 DEF BeginJudging, Stages
<1>5. CASE FailEarly
    BY <1>5 DEF FailEarly, Stages
<1>6. CASE ZeroPieces
    BY <1>6 DEF ZeroPieces, Stages
<1>7. CASE FetchMarks
    BY <1>7 DEF FetchMarks, Stages
<1>8. ASSUME NEW t \in Numbered, NEW pct \in Percentages,
             NEW state \in {"graded", "skipped"}, Mark(t, pct, state)
      PROVE  marks' \in [Numbered -> [pct : Percentages, state : {"new", "graded", "skipped", "done"}]]
    BY <1>8 DEF Mark
<1>9. ASSUME NEW t \in Numbered, GradeTest(t) \/ SkipTest(t) \/ TestErrs(t)
      PROVE  VerdictTypeOK'
    <2>1. marks' \in [Numbered -> [pct : Percentages, state : {"new", "graded", "skipped", "done"}]]
        BY <1>8, <1>9, TestFacts DEF GradeTest, SkipTest, TestErrs
    <2> QED
        BY <1>9, <2>1 DEF GradeTest, SkipTest, TestErrs, Turn
<1>10. CASE FinishIcpc
    BY <1>10 DEF FinishIcpc, AllRun, Stages
<1>11. CASE ReadMarks
    BY <1>11 DEF ReadMarks, Stages
<1>12. CASE ReadPieces
    BY <1>12 DEF ReadPieces, Stages
<1>13. ASSUME NEW p \in judge.todo, AddPiece(p) PROVE VerdictTypeOK'
    <2>1. pieces' = [q \in DOMAIN rubric.parts |-> pieces'[q]]
        BY <1>13 DEF AddPiece
    <2> QED
        BY <1>13, <2>1 DEF AddPiece
<1>14. CASE WriteSum
    BY <1>14 DEF WriteSum, Stages
<1>15. CASE BreakOff
    BY <1>15 DEF BreakOff, Stages
<1>16. CASE FinishJudging
    BY <1>16 DEF FinishJudging, AtRest, Stages
<1>17. CASE UNCHANGED verdictVars
    BY <1>17 DEF verdictVars
<1> QED
    BY <1>1, <1>2, <1>3, <1>4, <1>5, <1>6, <1>7, <1>9, <1>10, <1>11, <1>12, <1>13, <1>14,
       <1>15, <1>16, <1>17 DEF VerdictsNext

\* The next test of an ICPC evaluation.
LEMMA TurnIsNext ==
    ASSUME VerdictTypeOK, IcpcSoFar, judge.todo \subseteq Numbered, judge.icpc,
           NEW t \in Numbered, Turn(t)
    PROVE  /\ t \in judge.todo /\ \A u \in judge.todo \ {t} : t < u
           /\ \A s \in Numbered \ judge.todo : s < t
<1>1. t \in judge.todo /\ t = Min(judge.todo)
    BY DEF Turn
<1>2. judge.todo \in SUBSET Nat
    BY TestFacts
<1>3. \A u \in judge.todo : t <= u
    BY <1>1, <1>2, SmallestOf
<1>4. \A u \in judge.todo \ {t} : t < u
    BY <1>1, <1>2, <1>3
<1> QED
    BY <1>1, <1>4 DEF IcpcSoFar

LEMMA IcpcGrade ==
    ASSUME VerdictTypeOK, IcpcSoFar, judge.todo \subseteq Numbered, judge.icpc, ~judge.stale,
           NEW t \in Numbered, GradeTest(t)
    PROVE  IcpcSoFar'
<1>1. PICK pct \in Percentages :
        /\ Mark(t, pct, "graded")
        /\ judge' = [judge EXCEPT !.todo = @ \ {t},
                        !.failed = IF judge.icpc /\ pct < 100 THEN t ELSE 0]
    BY DEF GradeTest
<1>2. Turn(t) /\ judge.failed = 0
    BY DEF GradeTest
<1>3. /\ judge'.todo = judge.todo \ {t}
      /\ judge'.failed = IF pct < 100 THEN t ELSE 0
    BY <1>1 DEF VerdictTypeOK
<1>4. /\ t \in judge.todo /\ \A u \in judge.todo \ {t} : t < u
      /\ \A s \in Numbered \ judge.todo : s < t
    BY <1>2, TurnIsNext
<1>5. /\ marks'[t] = [pct |-> pct, state |-> "graded"]
      /\ \A s \in Numbered \ {t} : marks'[s] = marks[s]
    BY <1>1 DEF Mark, VerdictTypeOK
<1>6. \A s \in Numbered \ judge.todo : marks'[s] = [pct |-> 100, state |-> "graded"]
    BY <1>2, <1>4, <1>5 DEF IcpcSoFar, Graded
<1>7. \A u \in judge'.todo : \A s \in Numbered \ judge'.todo : s < u
    BY <1>3, <1>4 DEF IcpcSoFar
<1>8. t \in Nat \ {0} /\ pct \in 0..100
    BY TestFacts
<1>9. CASE pct < 100
    <2>1. judge'.failed = t /\ t # 0 /\ t \in Numbered \ judge'.todo
        BY <1>3, <1>8, <1>9
    <2>2. ASSUME NEW s \in 1..(t - 1) PROVE marks'[s] = [pct |-> 100, state |-> "graded"]
        <3>1. s \in Numbered /\ s < t
            BY <1>8, TestFacts DEF Numbered
        <3>2. s \notin judge.todo
            BY <1>4, <1>8, <3>1, TestFacts
        <3> QED
            BY <1>6, <3>1, <3>2
    <2>3. ((t + 1)..TestCount) \ judge'.todo = {}
        <3>1. SUFFICES ASSUME NEW u \in (t + 1)..TestCount, u \notin judge'.todo PROVE FALSE
            OBVIOUS
        <3>2. u \in Numbered /\ t < u /\ u # t
            BY <1>8, TestFacts DEF Numbered
        <3>3. u \in Numbered \ judge.todo
            BY <1>3, <3>1, <3>2
        <3>4. u < t
            BY <1>4, <3>3
        <3> QED
            BY <1>8, <3>2, <3>4, TestFacts
    <2> QED
        BY <1>5, <1>7, <1>9, <2>1, <2>2, <2>3 DEF IcpcSoFar, Graded
<1>10. CASE ~(pct < 100)
    <2>1. pct = 100 /\ judge'.failed = 0
        BY <1>3, <1>8, <1>10
    <2>2. \A s \in Numbered \ judge'.todo : marks'[s] = [pct |-> 100, state |-> "graded"]
        BY <1>3, <1>5, <1>6, <2>1
    <2> QED
        BY <1>7, <2>1, <2>2 DEF IcpcSoFar, Graded
<1> QED
    BY <1>9, <1>10

LEMMA IcpcSkip ==
    ASSUME VerdictTypeOK, IcpcSoFar, judge.todo \subseteq Numbered, judge.icpc, ~judge.stale,
           NEW t \in Numbered, SkipTest(t)
    PROVE  IcpcSoFar'
<1>1. Turn(t) /\ judge.failed # 0 /\ Mark(t, 0, "skipped")
      /\ judge' = [judge EXCEPT !.todo = @ \ {t}]
    BY DEF SkipTest
<1>2. judge'.todo = judge.todo \ {t} /\ judge'.failed = judge.failed
    BY <1>1 DEF VerdictTypeOK
<1>3. /\ t \in judge.todo /\ \A u \in judge.todo \ {t} : t < u
      /\ \A s \in Numbered \ judge.todo : s < t
    BY <1>1, TurnIsNext
<1>4. /\ marks'[t] = [pct |-> 0, state |-> "skipped"]
      /\ \A s \in Numbered \ {t} : marks'[s] = marks[s]
    BY <1>1 DEF Mark, VerdictTypeOK
<1>5. \A u \in judge'.todo : \A s \in Numbered \ judge'.todo : s < u
    BY <1>2, <1>3 DEF IcpcSoFar
<1>6. /\ judge.failed \in Numbered \ judge.todo /\ judge.failed < t
      /\ judge.failed \in Nat /\ t \in Nat
    BY <1>1, <1>3, TestFacts DEF IcpcSoFar
<1>7. \A s \in 1..(judge.failed - 1) : s \in Numbered \ {t}
    BY <1>6, TestFacts DEF Numbered
<1>8. \A s \in ((judge.failed + 1)..TestCount) \ judge'.todo : marks'[s].state = "skipped"
    <2> TAKE s \in ((judge.failed + 1)..TestCount) \ judge'.todo
    <2>1. s \in Numbered
        BY <1>6, TestFacts DEF Numbered
    <2>2. CASE s = t
        BY <1>4, <2>2
    <2>3. CASE s # t
        BY <1>1, <1>2, <1>4, <2>1, <2>3 DEF IcpcSoFar
    <2> QED
        BY <2>2, <2>3
<1>9. \A s \in 1..(judge.failed - 1) : Graded(s, 100)'
    BY <1>1, <1>4, <1>7 DEF IcpcSoFar, Graded
<1>10. marks'[judge.failed] = marks[judge.failed]
    BY <1>3, <1>4, <1>6
<1> QED
    BY <1>1, <1>2, <1>3, <1>5, <1>6, <1>8, <1>9, <1>10 DEF IcpcSoFar
-----------------------------------------------------------------------------
LEMMA PartFacts ==
    ASSUME VerdictTypeOK
    PROVE  /\ IsFiniteSet(DOMAIN rubric.parts) /\ judged.unit \in Nat \ {0}
           /\ \A p \in DOMAIN rubric.parts :
                /\ rubric.parts[p].tests \subseteq Numbered /\ rubric.parts[p].worth \in Nat
                /\ Worst(p) \in Nat /\ PieceShares[p] \in Int
                /\ DOMAIN PieceShares = DOMAIN rubric.parts
<1>1. rubric.parts \in Seq([tests : SUBSET Numbered, worth : Nat]) /\ judged.unit \in Nat \ {0}
    BY VerdictsAssumption DEF VerdictTypeOK, Numbered
<1>2. IsFiniteSet(DOMAIN rubric.parts)
    <2>1. DOMAIN rubric.parts = 1..Len(rubric.parts) /\ Len(rubric.parts) \in Int /\ 1 \in Int
        BY <1>1
    <2> QED
        BY <2>1, FS_Interval
<1>3. ASSUME NEW p \in DOMAIN rubric.parts
      PROVE  rubric.parts[p].tests \subseteq Numbered /\ rubric.parts[p].worth \in Nat
    <2>1. rubric.parts[p] \in [tests : SUBSET Numbered, worth : Nat]
        <3> DEFINE P == [tests : SUBSET Numbered, worth : Nat]
        <3>1. rubric.parts \in Seq(P)
            BY <1>1
        <3> HIDE DEF P
        <3>2. DOMAIN rubric.parts = 1..Len(rubric.parts)
            BY <3>1
        <3>3. rubric.parts[p] \in P
            BY <3>1, <3>2, ElementOfSeq
        <3> QED
            BY <3>3 DEF P
    <2> QED
        BY <2>1
<1>4. ASSUME NEW p \in DOMAIN rubric.parts PROVE Worst(p) \in Nat
    <2> DEFINE tests == rubric.parts[p].tests
               lowest == {marks[t].pct : t \in tests}
    <2>1. CASE tests = {}
        BY <2>1 DEF Worst
    <2>2. CASE tests # {}
        <3>1. lowest \subseteq Nat /\ lowest # {}
            BY <1>3, <2>2, TestFacts DEF VerdictTypeOK
        <3>2. Worst(p) = Min(lowest)
            BY <2>2 DEF Worst
        <3> HIDE DEF lowest
        <3> QED
            BY <3>1, <3>2, SmallestOf
    <2> QED
        BY <2>1, <2>2
<1>5. ASSUME NEW p \in DOMAIN rubric.parts PROVE PieceShares[p] \in Int
    BY <1>1, <1>3, <1>4, SameRounding DEF PieceShares
<1> QED
    BY <1>1, <1>2, <1>3, <1>4, <1>5 DEF PieceShares

\* Where the pieces are the worst of their tests, the database computes their shares.
LEMMA ComputedIsShare ==
    ASSUME VerdictTypeOK, NEW p \in DOMAIN rubric.parts, pieces[p] = Worst(p)
    PROVE  ComputedScore(p) = PieceShares[p]
<1> DEFINE worth == rubric.parts[p].worth
<1>1. worth \in Nat /\ Worst(p) \in Nat /\ judged.unit \in Nat \ {0}
    BY PartFacts
<1>2. Worst(p) # Null
    BY <1>1 DEF Null
<1>3. ComputedScore(p) = ComputedShare(worth, Worst(p), judged.unit)
    BY <1>2 DEF ComputedScore, ComputedShare
<1>4. PieceShares[p] = RoundedShare(worth, Worst(p), judged.unit)
    BY DEF PieceShares
<1> HIDE DEF worth
<1>5. RoundedShare(worth, Worst(p), judged.unit) = ComputedShare(worth, Worst(p), judged.unit)
    BY <1>1, SameRounding
<1> QED
    BY <1>3, <1>4, <1>5

\* What the stages are about does not depend on the rubric but for its subtasks.
LEMMA SameStage ==
    ASSUME VerdictTypeOK, Undisturbed, UNCHANGED <<judged, marks, pieces, judge>>,
           rubric'.parts = rubric.parts
    PROVE  Undisturbed'
<1>1. \A p : Worst(p)' = Worst(p)
    BY DEF Worst
<1>2. PieceShares' = PieceShares
    BY <1>1 DEF PieceShares
<1>3. TestPoints' = TestPoints
    BY DEF TestPoints
<1>4. PointsWithout(judge.todo)' = PointsWithout(judge.todo)
    BY <1>2, <1>3 DEF PointsWithout
<1>5. AddedSoFar' <=> AddedSoFar
    BY <1>1, <1>4 DEF AddedSoFar
<1>6. \A p : ComputedScore(p)' = ComputedScore(p)
    BY DEF ComputedScore
<1>7. [p \in DOMAIN pieces |-> ComputedScore(p)]' = [p \in DOMAIN pieces |-> ComputedScore(p)]
    BY <1>6
<1>8. AddedUp' <=> AddedUp
    <2>1. SumFunction([p \in DOMAIN pieces |-> ComputedScore(p)])'
            = SumFunction([p \in DOMAIN pieces |-> ComputedScore(p)])
        BY <1>7
    <2> QED
        BY <2>1 DEF AddedUp
<1>9. (Fresh' <=> Fresh) /\ (IcpcSoFar' <=> IcpcSoFar)
      /\ (AcceptedByAll' <=> AcceptedByAll) /\ (FailedAtFirst' <=> FailedAtFirst)
      /\ (StoppedIn("new")' <=> StoppedIn("new")) /\ (StoppedIn("done")' <=> StoppedIn("done"))
    BY DEF Fresh, IcpcSoFar, AcceptedByAll, FailedAtFirst, StoppedIn, Graded
<1> QED
    BY <1>5, <1>8, <1>9 DEF Undisturbed, Outcome

\* The start of scoreTests: no subtask is added yet.
LEMMA AddStarts ==
    ASSUME VerdictTypeOK, Undisturbed, ~judge.stale, judge.at = "read", ReadPieces
    PROVE  AddedSoFar'
<1>1. /\ judge'.seen = [p \in DOMAIN rubric.parts |-> PieceOf(p)]
      /\ judge'.todo = DOMAIN rubric.parts
      /\ judge'.sum = DefaultPoints + (IF rubric.parts # <<>> THEN 0 ELSE
              SumFunction([t \in Numbered |->
                              RoundedShare(TestWorth, judge.seen[t], judge.unit)]))
      /\ UNCHANGED <<rubric, judged, marks, pieces>>
    BY DEF ReadPieces, VerdictTypeOK
<1>2. judge.seen = [t \in Numbered |-> marks[t].pct] /\ judge.unit = judged.unit
    BY DEF Undisturbed
<1>3. ASSUME NEW p \in DOMAIN rubric.parts PROVE PieceOf(p) = Worst(p)
    <2>1. rubric.parts[p].tests \subseteq Numbered
        BY PartFacts
    <2>2. {judge.seen[t] : t \in rubric.parts[p].tests}
            = {marks[t].pct : t \in rubric.parts[p].tests}
        BY <1>2, <2>1
    <2> QED
        BY <2>2 DEF PieceOf, Worst
<1>4. \A p : Worst(p)' = Worst(p)
    BY <1>1 DEF Worst
<1>5. [t \in Numbered |-> RoundedShare(TestWorth, judge.seen[t], judge.unit)]
        = [t \in Numbered |-> RoundedShare(TestWorth, marks[t].pct, judged.unit)]
    BY <1>2
<1>6. judge'.sum = DefaultPoints + (IF rubric.parts # <<>> THEN 0 ELSE TestPoints)
    BY <1>1, <1>5 DEF TestPoints
<1>7. SumFunctionOnSet(PieceShares, DOMAIN rubric.parts \ DOMAIN rubric.parts) = 0
    <2>1. DOMAIN rubric.parts \ DOMAIN rubric.parts = {}
        OBVIOUS
    <2> QED
        BY <2>1, SumOfNothing
<1>8. judge'.sum = PointsWithout(DOMAIN rubric.parts)
    BY <1>6, <1>7 DEF PointsWithout
<1>9. PieceShares' = PieceShares /\ TestPoints' = TestPoints
    <2>1. PieceShares' = PieceShares
        BY <1>1, <1>4 DEF PieceShares
    <2>2. TestPoints' = TestPoints
        BY <1>1 DEF TestPoints
    <2> QED
        BY <2>1, <2>2
<1>10. judge'.sum = PointsWithout(judge.todo)'
    BY <1>1, <1>8, <1>9 DEF PointsWithout
<1> QED
    BY <1>1, <1>3, <1>4, <1>10 DEF AddedSoFar

\* One more subtask.
LEMMA AddOne ==
    ASSUME VerdictTypeOK, Undisturbed, ~judge.stale, judge.at = "add",
           NEW p \in judge.todo, AddPiece(p), amiss' = {}
    PROVE  AddedSoFar'
<1>1. AddedSoFar /\ judge.unit = judged.unit
    BY DEF Undisturbed
<1>2. /\ judge'.todo = judge.todo \ {p} /\ judge'.seen = judge.seen
      /\ judge'.sum = judge.sum
                        + RoundedShare(rubric.parts[p].worth, judge.seen[p], judge.unit)
      /\ UNCHANGED <<rubric, judged, marks>>
    BY DEF AddPiece, VerdictTypeOK
<1>3. pieces' = [pieces EXCEPT ![p] = judge.seen[p]]
    BY DEF AddPiece
<1>4. /\ \A q : Worst(q)' = Worst(q)
      /\ PieceShares' = PieceShares /\ TestPoints' = TestPoints
    <2>1. \A q : Worst(q)' = Worst(q)
        BY <1>2 DEF Worst
    <2>2. PieceShares' = PieceShares
        BY <1>2, <2>1 DEF PieceShares
    <2>3. TestPoints' = TestPoints
        BY <1>2 DEF TestPoints
    <2> QED
        BY <2>1, <2>2, <2>3
<1>5. p \in DOMAIN rubric.parts /\ rubric.parts # <<>> /\ judge.seen[p] = Worst(p)
    <2>1. DOMAIN <<>> = {}
        OBVIOUS
    <2> QED
        BY <1>1, <2>1 DEF AddedSoFar
<1>6. judge'.sum = judge.sum + PieceShares[p]
    BY <1>1, <1>2, <1>5 DEF PieceShares
<1> DEFINE D == DOMAIN rubric.parts
           A == D \ judge.todo
           B == D \ (judge.todo \ {p})
<1>7. SumFunctionOnSet(PieceShares, B) = PieceShares[p] + SumFunctionOnSet(PieceShares, A)
      /\ SumFunctionOnSet(PieceShares, A) \in Int /\ PieceShares[p] \in Int
    <2>1. IsFiniteSet(D) /\ \A q \in D : PieceShares[q] \in Int
        BY PartFacts
    <2>2. A \in SUBSET D /\ B \in SUBSET D /\ p \in B /\ B \ {p} = A
        BY <1>5
    <2> HIDE DEF D, A, B
    <2>3. IsFiniteSet(A) /\ IsFiniteSet(B)
        BY <2>1, <2>2, FS_Subset
    <2>4. SumFunctionOnSet(PieceShares, B)
            = PieceShares[p] + SumFunctionOnSet(PieceShares, B \ {p})
        BY <2>1, <2>2, <2>3, SumTakes
    <2>5. SumFunctionOnSet(PieceShares, A) \in Int
        BY <2>1, <2>2, <2>3, SumIsInt
    <2> QED
        BY <2>1, <2>2, <2>4, <2>5
<1>8. judge.sum = DefaultPoints + SumFunctionOnSet(PieceShares, A)
    BY <1>1, <1>5 DEF AddedSoFar, PointsWithout
<1>9. DefaultPoints \in Int
    BY VerdictsAssumption
<1>10. judge'.sum = DefaultPoints + SumFunctionOnSet(PieceShares, B)
    <2> HIDE DEF A, B
    <2>1. ASSUME NEW x \in Int, NEW y \in Int, NEW z \in Int PROVE x + y + z = x + (z + y)
        OBVIOUS
    <2> QED
        BY <1>6, <1>7, <1>8, <1>9, <2>1
<1>11. judge'.sum = PointsWithout(judge.todo)'
    BY <1>2, <1>4, <1>5, <1>10 DEF PointsWithout
<1>12. /\ judge'.todo \subseteq DOMAIN rubric'.parts
       /\ \A q \in DOMAIN rubric'.parts : judge'.seen[q] = Worst(q)'
       /\ \A q \in DOMAIN rubric'.parts \ judge'.todo : pieces'[q] = Worst(q)'
    <2>1. \A q \in DOMAIN rubric.parts : pieces'[q] = IF q = p THEN judge.seen[p] ELSE pieces[q]
        BY <1>3 DEF VerdictTypeOK
    <2> QED
        BY <1>1, <1>2, <1>4, <1>5, <2>1 DEF AddedSoFar
<1> QED
    BY <1>11, <1>12 DEF AddedSoFar

\* The score is written.
LEMMA AddEnds ==
    ASSUME VerdictTypeOK, VerdictTypeOK', Undisturbed, judge.at = "add", WriteSum
    PROVE  AddedUp'
<1>1. AddedSoFar /\ judged.verdict = NoVerdict /\ judge.todo = {}
    BY DEF Undisturbed, WriteSum
<1>2. /\ judged'.score = judge.sum /\ judged'.verdict = judged.verdict
      /\ judged'.unit = judged.unit /\ UNCHANGED <<rubric, marks, pieces>>
    BY DEF WriteSum, VerdictTypeOK
<1>3. DOMAIN pieces = DOMAIN rubric.parts
    BY DEF VerdictTypeOK
<1>4. \A p \in DOMAIN pieces : pieces[p] = Worst(p)
    BY <1>1, <1>3 DEF AddedSoFar
<1>5. [p \in DOMAIN pieces |-> ComputedScore(p)] = PieceShares
    <2>1. \A p \in DOMAIN pieces : ComputedScore(p) = PieceShares[p]
        BY <1>3, <1>4, ComputedIsShare
    <2>2. PieceShares = [p \in DOMAIN pieces |-> PieceShares[p]]
        BY <1>3 DEF PieceShares
    <2> QED
        BY <2>1, <2>2
<1>6. SumFunction(PieceShares) = SumFunctionOnSet(PieceShares, DOMAIN rubric.parts)
    BY DEF SumFunction, PieceShares
<1>7. DOMAIN rubric.parts \ {} = DOMAIN rubric.parts
    OBVIOUS
<1>8. judge.sum = DefaultPoints + IF rubric.parts = <<>> THEN TestPoints
                    ELSE SumFunction([p \in DOMAIN pieces |-> ComputedScore(p)])
    BY <1>1, <1>5, <1>6, <1>7 DEF AddedSoFar, PointsWithout
<1>9. TestPoints' = TestPoints
    BY <1>2 DEF TestPoints
<1>10. [p \in DOMAIN pieces |-> ComputedScore(p)]' = [p \in DOMAIN pieces |-> ComputedScore(p)]
    <2>1. \A p : ComputedScore(p)' = ComputedScore(p)
        BY <1>2 DEF ComputedScore
    <2> QED
        BY <1>2, <2>1
<1>11. judged'.score = DefaultPoints + IF rubric'.parts = <<>> THEN TestPoints'
                         ELSE SumFunction([p \in DOMAIN pieces |-> ComputedScore(p)]')
    BY <1>2, <1>8, <1>9, <1>10
<1>12. \A p \in DOMAIN pieces' : pieces'[p] = Worst(p)'
    BY <1>2, <1>4 DEF Worst
<1> QED
    BY <1>1, <1>2, <1>11, <1>12 DEF AddedUp, TestPoints, Worst

\* The deferred functions mark the tests that were not run, of which there are none
\* unless the evaluation was stopped early.
LEMMA DeferredKeep ==
    ASSUME VerdictTypeOK, FinishJudging
    PROVE  /\ StoppedIn("new") => StoppedIn("done")'
           /\ Outcome => Outcome'
<1>1. /\ \A t \in Numbered : marks'[t] =
            IF marks[t].state = "new" THEN [marks[t] EXCEPT !.state = "done"] ELSE marks[t]
      /\ marks' = [t \in Numbered |-> marks'[t]]
      /\ judged' = [judged EXCEPT !.status = "finished"] /\ UNCHANGED <<rubric, pieces>>
    BY DEF FinishJudging
<1>2. /\ judged'.icpc = judged.icpc /\ judged'.unit = judged.unit
      /\ judged'.score = judged.score /\ judged'.verdict = judged.verdict
    BY <1>1 DEF VerdictTypeOK
<1>3. \A t \in Numbered : marks'[t].pct = marks[t].pct
                          /\ (marks[t].state = "new" => marks'[t].state = "done")
                          /\ (marks[t].state # "new" => marks'[t] = marks[t])
    BY <1>1 DEF VerdictTypeOK
<1>4. StoppedIn("new") => StoppedIn("done")'
    BY <1>1, <1>2, <1>3 DEF StoppedIn
<1>5. AcceptedByAll => AcceptedByAll'
    BY <1>2, <1>3 DEF AcceptedByAll, Graded
<1>6. FailedAtFirst => FailedAtFirst'
    <2> SUFFICES ASSUME NEW k \in Numbered,
                        judged.verdict = k, judged.score = DefaultPoints,
                        \A t \in 1..(k - 1) : Graded(t, 100),
                        marks[k].state = "graded", marks[k].pct < 100,
                        \A t \in (k + 1)..TestCount : marks[t].state = "skipped"
                 PROVE  FailedAtFirst'
        BY DEF FailedAtFirst
    <2>1. 1..(k - 1) \subseteq Numbered /\ (k + 1)..TestCount \subseteq Numbered
        BY TestFacts DEF Numbered
    <2>2. \A t \in 1..(k - 1) : Graded(t, 100)'
        BY <1>3, <2>1 DEF Graded
    <2>3. marks'[k].state = "graded" /\ marks'[k].pct < 100
        BY <1>3
    <2>4. \A t \in (k + 1)..TestCount : marks'[t].state = "skipped"
        BY <1>3, <2>1
    <2> QED
        BY <1>2, <2>2, <2>3, <2>4 DEF FailedAtFirst
<1>7. AddedUp => AddedUp'
    <2>1. \A p \in DOMAIN rubric.parts : rubric.parts[p].tests \subseteq Numbered
        BY PartFacts
    <2>2. DOMAIN pieces = DOMAIN rubric.parts
        BY DEF VerdictTypeOK
    <2>3. ASSUME NEW p \in DOMAIN pieces
          PROVE  {marks'[t].pct : t \in rubric.parts[p].tests}
                    = {marks[t].pct : t \in rubric.parts[p].tests}
        BY <1>3, <2>1, <2>2
    <2>4. [t \in Numbered |-> RoundedShare(TestWorth, marks[t].pct, judged.unit)]'
            = [t \in Numbered |-> RoundedShare(TestWorth, marks[t].pct, judged.unit)]
        BY <1>2, <1>3
    <2>5. [p \in DOMAIN pieces |-> ComputedScore(p)]' = [p \in DOMAIN pieces |-> ComputedScore(p)]
        <3>1. \A p : ComputedScore(p)' = ComputedScore(p)
            BY <1>1, <1>2 DEF ComputedScore
        <3> QED
            BY <1>1, <3>1
    <2>6. SumFunction([t \in Numbered |-> RoundedShare(TestWorth, marks[t].pct, judged.unit)])'
            = SumFunction([t \in Numbered |-> RoundedShare(TestWorth, marks[t].pct, judged.unit)])
        BY <2>4
    <2>7. SumFunction([p \in DOMAIN pieces |-> ComputedScore(p)])'
            = SumFunction([p \in DOMAIN pieces |-> ComputedScore(p)])
        BY <2>5
    <2> QED
        BY <1>1, <1>2, <2>3, <2>6, <2>7 DEF AddedUp
<1> QED
    BY <1>2, <1>4, <1>5, <1>6, <1>7 DEF Outcome

LEMMA VerdictNextInv == VerdictInv /\ [VerdictsNext]_verdictVars => VerdictInv'
<1> SUFFICES ASSUME VerdictInv, [VerdictsNext]_verdictVars PROVE VerdictInv'
    OBVIOUS
<1>1. VerdictTypeOK /\ VerdictTypeOK'
    BY VerdictTypeNext DEF VerdictInv
<1>2. CASE Regrade
    <2>1. Fresh' /\ judged'.status = "waiting"
        BY <1>2 DEF Regrade, Initialise, Fresh, NoVerdict
    <2>2. /\ judge'.at = judge.at /\ judge'.failed = judge.failed
          /\ judge'.stale = (judge.at \in {"tests", "read", "add"})
        BY <1>1, <1>2 DEF Regrade, VerdictTypeOK
    <2>3. amiss' = {} => judge.at \in {"idle", "queued"}
        BY <1>2 DEF Regrade
    <2>4. Undisturbed' \/ amiss' # {}
        BY <2>1, <2>2, <2>3 DEF Undisturbed
    <2> QED
        BY <1>1, <2>1, <2>2, <2>3, <2>4 DEF VerdictInv
<1>3. CASE EditRubric
    <2>1. UNCHANGED <<judged, marks, pieces, judge, amiss>> /\ rubric'.parts = rubric.parts
        BY <1>1, <1>3 DEF EditRubric, VerdictTypeOK
    <2>2. amiss = {} => Undisturbed'
        BY <1>1, <2>1, SameStage DEF VerdictInv
    <2> QED
        BY <1>1, <2>1, <2>2 DEF VerdictInv, Fresh
<1>4. CASE TakeFromQueue
    <2>1. judge'.at = "queued" /\ judge'.failed = 0 /\ ~judge'.stale
        BY <1>4 DEF TakeFromQueue, AtRest
    <2>2. Fresh'
        BY <1>4 DEF TakeFromQueue, VerdictInv, Fresh
    <2> QED
        BY <1>1, <2>1, <2>2 DEF VerdictInv, Undisturbed
<1>5. CASE BeginJudging
    <2>1. /\ judge'.at = "compile" /\ judge'.failed = judge.failed /\ judge'.stale = judge.stale
          /\ judge'.icpc = judge.icpc /\ judge'.unit = rubric.unit
          /\ judged'.icpc = judged.icpc /\ judged'.unit = judged.unit
          /\ judged'.verdict = judged.verdict /\ UNCHANGED <<rubric, marks, pieces>>
        BY <1>1, <1>5 DEF BeginJudging, VerdictTypeOK
    <2>2. amiss' = {} => judge.icpc = judged.icpc /\ rubric.unit = judged.unit
        BY <1>5 DEF BeginJudging
    <2>3. Fresh' /\ judge.failed = 0 /\ ~judge.stale
        BY <1>5, <2>1 DEF BeginJudging, VerdictInv, Fresh
    <2>4. amiss' = {} => Undisturbed'
        BY <2>1, <2>2, <2>3 DEF Undisturbed
    <2> QED
        BY <1>1, <2>1, <2>3, <2>4 DEF VerdictInv
<1>6. CASE FailEarly
    <2>1. PICK v \in {CompileError, InternalError} :
            /\ judged' = [judged EXCEPT !.status = "finished", !.score = DefaultPoints, !.verdict = v]
            /\ judge' = [judge EXCEPT !.at = IF v = CompileError THEN "zero" ELSE "finish"]
        BY <1>6 DEF FailEarly
    <2>2. /\ judge.at = "compile" /\ judge'.at \in {"zero", "finish"}
          /\ judge'.stale = judge.stale
          /\ judge'.icpc = judge.icpc /\ judge'.unit = judge.unit
          /\ judged'.icpc = judged.icpc /\ judged'.unit = judged.unit
          /\ judged'.verdict = v /\ judged'.score = DefaultPoints
          /\ UNCHANGED <<rubric, marks, pieces, amiss>>
        BY <1>1, <1>6, <2>1 DEF FailEarly, VerdictTypeOK
    <2>3. amiss = {} => StoppedIn("new")'
        BY <2>2 DEF VerdictInv, Undisturbed, Fresh, StoppedIn
    <2>4. amiss' = {} => Undisturbed'
        BY <2>2, <2>3 DEF VerdictInv, Undisturbed
    <2> QED
        BY <1>1, <2>2, <2>4 DEF VerdictInv
<1>7. CASE ZeroPieces
    <2>1. /\ judge.at = "zero" /\ judge'.at = "finish" /\ judge'.stale = judge.stale
          /\ judge'.icpc = judge.icpc /\ judge'.unit = judge.unit
          /\ pieces' = [p \in DOMAIN pieces |-> 0] /\ UNCHANGED <<rubric, judged, marks, amiss>>
        BY <1>1, <1>7 DEF ZeroPieces, VerdictTypeOK
    <2>2. amiss = {} => StoppedIn("new")'
        BY <2>1 DEF VerdictInv, Undisturbed, StoppedIn
    <2>3. amiss' = {} => Undisturbed'
        BY <2>1, <2>2 DEF VerdictInv, Undisturbed
    <2> QED
        BY <1>1, <2>1, <2>3 DEF VerdictInv
<1>8. CASE FetchMarks
    <2>1. /\ judge.at = "compile" /\ judge'.at = "tests" /\ judge'.stale = judge.stale
          /\ judge'.icpc = judge.icpc /\ judge'.unit = judge.unit
          /\ judge'.failed = judge.failed /\ judge'.todo = Numbered
          /\ UNCHANGED <<rubric, judged, marks, pieces, amiss>>
        BY <1>1, <1>8 DEF FetchMarks, VerdictTypeOK
    <2>2. judge.failed = 0
        BY <2>1 DEF VerdictInv
    <2>3. IcpcSoFar'
        BY <2>1, <2>2 DEF IcpcSoFar, Numbered
    <2>4. amiss' = {} => Undisturbed'
        BY <2>1, <2>2, <2>3 DEF VerdictInv, Undisturbed, Fresh, Numbered
    <2> QED
        BY <1>1, <2>1, <2>4 DEF VerdictInv
<1>9. ASSUME NEW t \in Numbered, GradeTest(t) \/ SkipTest(t) \/ TestErrs(t)
      PROVE  VerdictInv'
    <2>1. /\ judge.at = "tests" /\ judge'.at = "tests" /\ judge'.stale = judge.stale
          /\ judge'.icpc = judge.icpc /\ judge'.unit = judge.unit
          /\ judge'.todo = judge.todo \ {t} /\ UNCHANGED <<rubric, judged, pieces>>
        BY <1>1, <1>9 DEF GradeTest, SkipTest, TestErrs, Turn, VerdictTypeOK
    <2>2. amiss' = {} => amiss = {}
        BY <1>9 DEF GradeTest, SkipTest, TestErrs
    <2>3. ASSUME amiss' = {}
          PROVE  IF judged.icpc THEN IcpcSoFar' ELSE judge'.failed = 0
        <3>1. /\ judge.icpc = judged.icpc /\ ~judge.stale /\ judge.todo \subseteq Numbered
              /\ IF judged.icpc THEN IcpcSoFar ELSE judge.failed = 0
            BY <2>1, <2>2, <2>3 DEF VerdictInv, Undisturbed
        <3>2. CASE judged.icpc
            <4>1. ~TestErrs(t)
                BY <2>3, <3>1, <3>2 DEF TestErrs
            <4> QED
                BY <1>1, <1>9, <3>1, <3>2, <4>1, IcpcGrade, IcpcSkip
        <3>3. CASE ~judged.icpc
            <4>1. ~SkipTest(t)
                BY <3>1, <3>3 DEF SkipTest
            <4> QED
                BY <1>1, <1>9, <3>1, <3>3, <4>1 DEF GradeTest, TestErrs, VerdictTypeOK
        <3> QED
            BY <3>2, <3>3
    <2>4. amiss' = {} => Undisturbed'
        BY <2>1, <2>2, <2>3 DEF VerdictInv, Undisturbed, Numbered
    <2>5. judge'.stale => amiss' # {}
        BY <2>1, <2>2 DEF VerdictInv
    <2> QED
        BY <1>1, <2>1, <2>4, <2>5 DEF VerdictInv
<1>10. CASE FinishIcpc
    <2>1. /\ judge.at = "tests" /\ judge.todo = {} /\ judge.icpc /\ judge'.at = "finish"
          /\ judge'.stale = judge.stale /\ judge'.icpc = judge.icpc /\ judge'.unit = judge.unit
          /\ judged'.icpc = judged.icpc /\ judged'.unit = judged.unit
          /\ judged'.score = IF judge.failed = 0 THEN Full ELSE DefaultPoints
          /\ judged'.verdict = IF judge.failed = 0 THEN Accepted ELSE judge.failed
          /\ UNCHANGED <<rubric, marks, pieces, amiss>>
        BY <1>1, <1>10 DEF FinishIcpc, AllRun, VerdictTypeOK
    <2>2. ASSUME amiss = {} PROVE judged.icpc /\ (AcceptedByAll \/ FailedAtFirst)'
        <3>1. judged.icpc /\ IcpcSoFar
            BY <2>1, <2>2 DEF VerdictInv, Undisturbed
        <3>2. CASE judge.failed = 0
            BY <2>1, <3>1, <3>2 DEF IcpcSoFar, AcceptedByAll, Graded, Full, Numbered
        <3>3. CASE judge.failed # 0
            <4>1. judge.failed \in Numbered
                BY <3>1, <3>3 DEF IcpcSoFar
            <4>2. /\ judged'.verdict = judge.failed /\ judged'.score = DefaultPoints
                  /\ \A t \in 1..(judge.failed - 1) : Graded(t, 100)'
                  /\ marks'[judge.failed].state = "graded" /\ marks'[judge.failed].pct < 100
                  /\ \A t \in (judge.failed + 1)..TestCount : marks'[t].state = "skipped"
                BY <2>1, <3>1, <3>3 DEF IcpcSoFar, Graded
            <4> QED
                BY <3>1, <4>1, <4>2 DEF FailedAtFirst, Numbered
        <3> QED
            BY <3>1, <3>2, <3>3
    <2>3. amiss' = {} => Undisturbed'
        BY <2>1, <2>2 DEF VerdictInv, Undisturbed, Outcome
    <2> QED
        BY <1>1, <2>1, <2>3 DEF VerdictInv
<1>11. CASE ReadMarks
    <2>1. /\ judge.at = "tests" /\ ~judge.icpc /\ judge'.at = "read" /\ ~judge'.stale
          /\ judge'.icpc = judge.icpc /\ judge'.unit = judge.unit
          /\ judge'.seen = [t \in Numbered |-> marks[t].pct]
          /\ UNCHANGED <<rubric, judged, marks, pieces, amiss>>
        BY <1>1, <1>11 DEF ReadMarks, AllRun, VerdictTypeOK
    <2>2. judge'.seen = [t \in Numbered |-> marks[t].pct]'
        BY <2>1
    <2>3. amiss' = {} => Undisturbed'
        BY <2>1, <2>2 DEF VerdictInv, Undisturbed
    <2> QED
        BY <1>1, <2>1, <2>3 DEF VerdictInv
<1>12. CASE ReadPieces
    <2>1. /\ judge.at = "read" /\ judge'.at = "add" /\ ~judge'.stale
          /\ judge'.icpc = judge.icpc /\ judge'.unit = judge.unit
          /\ UNCHANGED <<rubric, judged, marks, pieces, amiss>>
        BY <1>1, <1>12 DEF ReadPieces, VerdictTypeOK
    <2>2. amiss = {} => AddedSoFar'
        BY <1>1, <1>12, <2>1, AddStarts DEF VerdictInv
    <2>3. amiss' = {} => Undisturbed'
        BY <2>1, <2>2 DEF VerdictInv, Undisturbed
    <2> QED
        BY <1>1, <2>1, <2>3 DEF VerdictInv
<1>13. ASSUME NEW p \in judge.todo, AddPiece(p) PROVE VerdictInv'
    <2>1. /\ judge.at = "add" /\ judge'.at = "add" /\ judge'.stale = judge.stale
          /\ judge'.icpc = judge.icpc /\ judge'.unit = judge.unit
          /\ UNCHANGED <<rubric, judged, marks>>
        BY <1>1, <1>13 DEF AddPiece, VerdictTypeOK
    <2>2. amiss' = {} => amiss = {}
        BY <1>13 DEF AddPiece
    <2>3. amiss' = {} => AddedSoFar'
        BY <1>1, <1>13, <2>1, <2>2, AddOne DEF VerdictInv
    <2>4. amiss' = {} => Undisturbed'
        BY <2>1, <2>2, <2>3 DEF VerdictInv, Undisturbed
    <2> QED
        BY <1>1, <2>1, <2>2, <2>4 DEF VerdictInv
<1>14. CASE WriteSum
    <2>1. /\ judge.at = "add" /\ judge'.at = "finish" /\ judge'.stale = judge.stale
          /\ judge'.icpc = judge.icpc /\ judge'.unit = judge.unit
          /\ judged'.icpc = judged.icpc /\ judged'.unit = judged.unit
          /\ UNCHANGED amiss
        BY <1>1, <1>14 DEF WriteSum, VerdictTypeOK
    <2>2. amiss = {} => AddedUp'
        BY <1>1, <1>14, <2>1, AddEnds DEF VerdictInv
    <2>3. amiss' = {} => Undisturbed'
        BY <2>1, <2>2 DEF VerdictInv, Undisturbed, Outcome
    <2> QED
        BY <1>1, <2>1, <2>3 DEF VerdictInv
<1>15. CASE BreakOff
    <2>1. amiss' # {} /\ judge'.at = "finish"
        BY <1>1, <1>15 DEF BreakOff, VerdictTypeOK
    <2> QED
        BY <1>1, <2>1 DEF VerdictInv
<1>16. CASE FinishJudging
    <2>1. /\ judge.at = "finish" /\ judge'.at = "idle" /\ ~judge'.stale
          /\ judged'.status = "finished" /\ UNCHANGED amiss
        BY <1>1, <1>16 DEF FinishJudging, AtRest, VerdictTypeOK
    <2>2. amiss = {} => (StoppedIn("done") \/ Outcome)'
        BY <1>1, <1>16, <2>1, DeferredKeep DEF VerdictInv, Undisturbed
    <2>3. amiss' = {} => Undisturbed'
        BY <2>1, <2>2 DEF Undisturbed
    <2> QED
        BY <1>1, <2>1, <2>3 DEF VerdictInv
<1>17. CASE UNCHANGED verdictVars
    <2>1. UNCHANGED <<rubric, judged, marks, pieces, judge, amiss>>
        BY <1>17 DEF verdictVars
    <2>2. amiss = {} => Undisturbed'
        BY <1>1, <2>1, SameStage DEF VerdictInv
    <2> QED
        BY <1>1, <2>1, <2>2 DEF VerdictInv, Fresh
<1> QED
    BY <1>2, <1>3, <1>4, <1>5, <1>6, <1>7, <1>8, <1>9, <1>10, <1>11, <1>12, <1>13, <1>14,
       <1>15, <1>16, <1>17 DEF VerdictsNext

LEMMA VerdictFollows == VerdictInv => ResultFollows
BY DEF VerdictInv, Undisturbed, StoppedIn, StoppedEarly, Outcome, ResultFollows

\* The result of a submission follows from its rows, whatever the problem's tests,
\* subtasks, precision and type are.
THEOREM ResultsFollow == VerdictsSpec => []ResultFollows
BY VerdictInitInv, VerdictNextInv, VerdictFollows, PTL DEF VerdictsSpec

-----------------------------------------------------------------------------
(* Leaderboard. CellsExplainRow speaks of the board as it was read; the    *)
(* invariant compares it with what the queries would give now: the same,   *)
(* if no score moved since, and, of a contestant scored whole and out of   *)
(* 100, no less that is solved, if nothing was taken back.                 *)

Submitted == [user : Contestants, problem : ContestProblems, at : Nat, scale : Nat,
              parts : [Subtasks -> Nat], judged : BOOLEAN, score : 0..100,
              compile_error : BOOLEAN]

BoardMoves ==
    board # NoBoard =>
         /\ board = [step |-> "building", freeze |-> board.freeze, rows |-> board.rows,
                     cells |-> board.cells, moved |-> board.moved]
         /\ board.freeze \in Nat /\ board.freeze <= minute
         /\ DOMAIN board.cells \subseteq Contestants
         /\ board.moved \in {"no", "forward", "back"}

BoardTypeOK ==
    /\ minute \in Nat
    /\ subs \in Seq(Submitted) /\ \A i \in Made : subs[i].at <= minute
    /\ \A i, j \in Made : i <= j => subs[i].at <= subs[j].at
    /\ BoardMoves

\* No score moved: the rows and cells are what the queries would give now.
RowsStand ==
    board # NoBoard /\ board.moved = "no" =>
        /\ \A u \in Contestants : board.rows[u] = IcpcRow(u, Until)
        /\ \A u \in DOMAIN board.cells : board.cells[u] = IcpcCells(u, Until)

\* Nothing was taken back: what a row counts as solved is solved now, and in its cells.
Kept(u, S) ==
    /\ S \subseteq Solved(u, Until)
    /\ board.rows[u].num_solved = Cardinality(S)
    /\ u \in DOMAIN board.cells => \A p \in S : board.cells[u][p].score = FullScore

SolvedStays ==
    board # NoBoard /\ board.moved # "back" =>
        \A u \in Contestants : Plain(u) => \E S : Kept(u, S)

BoardInv == BoardTypeOK /\ RowsStand /\ SolvedStays

Counted(u, p, until) == {i \in Made : Counts(i, u, p, until)}
Rows(u, p, until) ==
    {i \in Made : subs[i].user = u /\ subs[i].problem = p /\ subs[i].at <= until}

LEMMA SubmittedFields ==
    ASSUME BoardTypeOK, NEW i \in Made
    PROVE  /\ subs[i].at \in Nat /\ subs[i].at <= minute /\ subs[i].score \in 0..100
           /\ subs[i].judged \in BOOLEAN /\ subs[i].user \in Contestants
           /\ subs[i].problem \in ContestProblems /\ subs[i].scale \in Nat
           /\ subs[i].parts \in [Subtasks -> Nat]
<1>1. subs[i] \in Submitted
    BY DEF BoardTypeOK, Made
<1> QED
    BY <1>1 DEF BoardTypeOK, Submitted

LEMMA MadeIsFinite == BoardTypeOK => IsFiniteSet(Made) /\ Made \in SUBSET Nat
<1> SUFFICES ASSUME BoardTypeOK PROVE IsFiniteSet(Made) /\ Made \in SUBSET Nat
    OBVIOUS
<1>1. Made = 1..Len(subs) /\ Len(subs) \in Nat
    BY DEF Made, BoardTypeOK
<1>2. 1 \in Int /\ Len(subs) \in Int
    BY <1>1
<1> QED
    BY <1>1, <1>2, FS_Interval

\* The first submission with the best value.
LEMMA FirstIs ==
    ASSUME NEW S \in SUBSET Nat, IsFiniteSet(S), S # {}, NEW value,
           \A i \in S : value[i] \in Nat
    PROVE  /\ FirstOf(S, value) \in S
           /\ \A i \in S : value[FirstOf(S, value)] >= value[i]
           /\ \A i \in S : value[i] = value[FirstOf(S, value)] => FirstOf(S, value) <= i
<1> DEFINE values == {value[j] : j \in S}
           best == Max(values)
           firsts == {i \in S : value[i] = best}
<1>1. best \in values /\ \A y \in values : best >= y
    <2>1. values \subseteq Nat /\ values # {}
        OBVIOUS
    <2>2. IsFiniteSet(values)
        BY ImageIsFinite
    <2> HIDE DEF values
    <2>3. values \in SUBSET Int
        BY <2>1
    <2> QED
        BY <2>1, <2>2, <2>3, LargestOf
<1> HIDE DEF best
<1>2. Min(firsts) \in firsts /\ \A y \in firsts : Min(firsts) <= y
    <2>1. firsts \in SUBSET Nat /\ firsts # {}
        BY <1>1
    <2> HIDE DEF firsts
    <2> QED
        BY <2>1, SmallestOf
<1>3. FirstOf(S, value) = Min(firsts)
    BY DEF FirstOf, best
<1> QED
    BY <1>1, <1>2, <1>3

\* What max_score and mintime of a problem are that counts the best submission.
LEMMA BestIs ==
    ASSUME BoardTypeOK, NEW u, NEW p, p \notin SumSubtasks, NEW until,
           Counted(u, p, until) # {}
    PROVE  \E k \in Counted(u, p, until) :
              /\ MaxScore(u, p, until) = [score |-> subs[k].score * subs[k].scale,
                                          mintime |-> subs[k].at]
              /\ \A i \in Counted(u, p, until) :
                    /\ subs[k].score >= subs[i].score
                    /\ subs[i].score = subs[k].score => subs[k].at <= subs[i].at
<1> DEFINE counted == Counted(u, p, until)
           value == [i \in counted |-> subs[i].score]
           k == FirstOf(counted, value)
<1>1. MaxScore(u, p, until) = [score |-> subs[k].score * subs[k].scale, mintime |-> subs[k].at]
    BY DEF MaxScore, BestSubmission, Counted
<1>2. counted \in SUBSET Made /\ counted # {}
    BY DEF Counted
<1>3. counted \in SUBSET Nat /\ IsFiniteSet(counted)
    <2> HIDE DEF counted
    <2> QED
        BY <1>2, MadeIsFinite, FS_Subset
<1>4. \A i \in counted : value[i] = subs[i].score /\ value[i] \in Nat
    BY SubmittedFields DEF Counted
<1> HIDE DEF counted, value
<1>5. /\ k \in counted /\ \A i \in counted : value[k] >= value[i]
      /\ \A i \in counted : value[i] = value[k] => k <= i
    BY <1>2, <1>3, <1>4, FirstIs
<1> HIDE DEF k
<1>6. \A i \in counted : subs[i].score = subs[k].score => subs[k].at <= subs[i].at
    BY <1>2, <1>4, <1>5 DEF BoardTypeOK
<1> QED
    BY <1>1, <1>4, <1>5, <1>6 DEF counted

LEMMA RowsOf ==
    ASSUME BoardTypeOK, NEW u, NEW p, NEW until
    PROVE  /\ Rows(u, p, until) \in SUBSET Made /\ Rows(u, p, until) \in SUBSET Nat
           /\ IsFiniteSet(Rows(u, p, until))
<1>1. Rows(u, p, until) \in SUBSET Made
    BY DEF Rows
<1> QED
    BY <1>1, MadeIsFinite, FS_Subset

\* The first submission with the best score of a subtask, and what they sum up to.
FirstWith(u, p, until, s) ==
    FirstOf(Rows(u, p, until), [i \in Rows(u, p, until) |-> subs[i].parts[s]])

LEMMA SumIs ==
    ASSUME BoardTypeOK, NEW u, NEW p, p \in SumSubtasks, NEW until,
           Rows(u, p, until) # {}, Subtasks # {}
    PROVE  /\ \A s \in Subtasks : FirstWith(u, p, until, s) \in Rows(u, p, until)
           /\ MaxScore(u, p, until) =
                [score |-> SumFunction([s \in Subtasks |->
                              subs[FirstWith(u, p, until, s)].parts[s]
                                * subs[FirstWith(u, p, until, s)].scale]),
                 mintime |-> Max({subs[FirstWith(u, p, until, s)].at : s \in Subtasks})]
<1> DEFINE rows == Rows(u, p, until)
           first == [s \in Subtasks |-> FirstWith(u, p, until, s)]
<1>1. ASSUME NEW s \in Subtasks PROVE FirstWith(u, p, until, s) \in rows
    <2> DEFINE value == [i \in rows |-> subs[i].parts[s]]
    <2>1. rows \in SUBSET Nat /\ IsFiniteSet(rows) /\ rows # {} /\ rows \in SUBSET Made
        BY RowsOf
    <2> HIDE DEF rows
    <2>2. \A i \in rows : value[i] \in Nat
        BY <2>1, SubmittedFields
    <2> HIDE DEF value
    <2>3. FirstOf(rows, value) \in rows
        BY <2>1, <2>2, FirstIs
    <2> QED
        BY <2>3 DEF FirstWith, rows, value
<1>2. MaxScore(u, p, until) =
        [score |-> SumFunction([s \in Subtasks |->
                      subs[first[s]].parts[s] * subs[first[s]].scale]),
         mintime |-> Max({subs[first[s]].at : s \in Subtasks})]
    BY DEF MaxScore, SumOfSubtasks, Rows, FirstWith
<1>3. /\ [s \in Subtasks |-> subs[first[s]].parts[s] * subs[first[s]].scale]
          = [s \in Subtasks |-> subs[FirstWith(u, p, until, s)].parts[s]
                                  * subs[FirstWith(u, p, until, s)].scale]
      /\ {subs[first[s]].at : s \in Subtasks}
          = {subs[FirstWith(u, p, until, s)].at : s \in Subtasks}
    OBVIOUS
<1> QED
    BY <1>1, <1>2, <1>3

\* A solution was there by the freeze.
LEMMA SolutionInTime ==
    ASSUME BoardTypeOK, NEW u, NEW p, NEW until, MaxScore(u, p, until).score = FullScore
    PROVE  MaxScore(u, p, until).mintime \in Nat /\ MaxScore(u, p, until).mintime <= until
<1>1. MaxScore(u, p, until) # NoScore
    BY DEF NoScore, FullScore
<1>2. CASE p \notin SumSubtasks
    <2>1. Counted(u, p, until) # {}
        BY <1>1, <1>2 DEF MaxScore, BestSubmission, Counted
    <2>2. PICK k \in Counted(u, p, until) : MaxScore(u, p, until).mintime = subs[k].at
        BY <1>2, <2>1, BestIs
    <2> QED
        BY <2>2, SubmittedFields DEF Counted, Counts
<1>3. CASE p \in SumSubtasks
    <2> DEFINE at == [s \in Subtasks |-> subs[FirstWith(u, p, until, s)].at]
               times == {at[s] : s \in Subtasks}
    <2>1. Rows(u, p, until) # {} /\ Subtasks # {}
        BY <1>1, <1>3 DEF MaxScore, SumOfSubtasks, Rows
    <2>2. /\ \A s \in Subtasks : FirstWith(u, p, until, s) \in Rows(u, p, until)
          /\ MaxScore(u, p, until) =
                [score |-> SumFunction([s \in Subtasks |->
                              subs[FirstWith(u, p, until, s)].parts[s]
                                * subs[FirstWith(u, p, until, s)].scale]),
                 mintime |-> Max({subs[FirstWith(u, p, until, s)].at : s \in Subtasks})]
        BY <1>3, <2>1, SumIs
    <2>3. \A s \in Subtasks : at[s] \in Nat /\ at[s] <= until
        BY <2>2, SubmittedFields DEF Rows
    <2>4. MaxScore(u, p, until).mintime = Max(times)
        <3>1. times = {subs[FirstWith(u, p, until, s)].at : s \in Subtasks}
            OBVIOUS
        <3> HIDE DEF times
        <3> QED
            BY <2>2, <3>1
    <2>5. times \in SUBSET Int /\ times # {}
        BY <2>1, <2>3
    <2>6. IsFiniteSet(times)
        <3> HIDE DEF at
        <3> QED
            BY LeaderboardAssumption, ImageIsFinite
    <2>7. Max(times) \in times
        <3> HIDE DEF times
        <3> QED
            BY <2>5, <2>6, LargestOf
    <2> QED
        BY <2>3, <2>4, <2>7
<1> QED
    BY <1>2, <1>3

\* Scored whole and out of 100, a problem is solved by one submission.
LEMMA SolvedMeans ==
    ASSUME BoardTypeOK, NEW u, Plain(u), NEW until
    PROVE  Solved(u, until) = {p \in ContestProblems :
                \E i \in Counted(u, p, until) : subs[i].score = 100}
<1>1. ASSUME NEW p, Counted(u, p, until) = {}
      PROVE  MaxScore(u, p, until).score # FullScore
    <2>1. CASE p \in SumSubtasks
        <3>1. Rows(u, p, until) = {}
            BY <2>1 DEF Plain, Rows
        <3>2. MaxScore(u, p, until) = NoScore
            BY <2>1, <3>1 DEF MaxScore, SumOfSubtasks, Rows
        <3> QED
            BY <3>2 DEF NoScore, FullScore
    <2>2. CASE p \notin SumSubtasks
        BY <1>1, <2>2 DEF MaxScore, BestSubmission, Counted, NoScore, FullScore
    <2> QED
        BY <2>1, <2>2
<1>2. ASSUME NEW p, NEW i \in Counted(u, p, until)
      PROVE  /\ p \notin SumSubtasks /\ i \in Made /\ subs[i].scale = 100
             /\ subs[i].score \in 0..100
    BY SubmittedFields DEF Counted, Counts, Plain
<1>3. ASSUME NEW p, NEW i \in Counted(u, p, until), subs[i].score = 100
      PROVE  MaxScore(u, p, until).score = FullScore
    <2>1. p \notin SumSubtasks
        BY <1>2
    <2>2. PICK k \in Counted(u, p, until) :
            /\ MaxScore(u, p, until).score = subs[k].score * subs[k].scale
            /\ subs[k].score >= subs[i].score
        BY <2>1, BestIs
    <2> QED
        BY <1>2, <1>3, <2>2 DEF FullScore
<1>4. ASSUME NEW p, MaxScore(u, p, until).score = FullScore
      PROVE  \E i \in Counted(u, p, until) : subs[i].score = 100
    <2>1. PICK i \in Counted(u, p, until) : TRUE
        BY <1>1, <1>4
    <2>2. PICK k \in Counted(u, p, until) :
                MaxScore(u, p, until).score = subs[k].score * subs[k].scale
        BY <1>2, <2>1, BestIs
    <2> QED
        BY <1>2, <1>4, <2>2 DEF FullScore
<1> QED
    BY <1>3, <1>4 DEF Solved

SolvedCells(cells) == {p \in ContestProblems : cells[p].score = FullScore}
PenaltyOf(cells) == SumFunction(
    [p \in SolvedCells(cells) |-> cells[p].time + SubmissionPenalty * cells[p].attempts])

\* The row and the cells that are read together agree.
LEMMA CellsOfRow ==
    ASSUME BoardTypeOK, NEW u \in Contestants, NEW until \in Nat, until <= minute,
           NEW cells, cells = IcpcCells(u, until)
    PROVE  /\ IcpcRow(u, until).num_solved = Cardinality(SolvedCells(cells))
           /\ IcpcRow(u, until).penalty = PenaltyOf(cells)
<1> DEFINE solved == SolvedCells(cells)
<1> DEFINE time(p) == MaxScore(u, p, until).mintime
           rowSet(p) == {i \in Made :
                Counts(i, u, p, minute) /\ ~subs[i].compile_error /\ subs[i].at < time(p)}
           cellSet(p) == {i \in Made :
                /\ Counts(i, u, p, until) /\ ~subs[i].compile_error
                /\ MaxScore(u, p, until).score < FullScore \/ subs[i].at < time(p)}
<1>1. \A p \in ContestProblems :
        /\ cells[p].score = MaxScore(u, p, until).score /\ cells[p].time = time(p)
        /\ cells[p].attempts = Cardinality(cellSet(p))
    BY DEF IcpcCells
<1>2. /\ solved = Solved(u, until) /\ solved \subseteq ContestProblems
      /\ \A p \in solved : MaxScore(u, p, until).score = FullScore
    BY <1>1 DEF Solved, SolvedCells
<1> HIDE DEF solved
<1>3. /\ IcpcRow(u, until).num_solved = Cardinality(solved)
      /\ IcpcRow(u, until).penalty = SumFunction(
            [p \in solved |-> time(p) + SubmissionPenalty * Cardinality(rowSet(p))])
    BY <1>2 DEF IcpcRow
<1>4. ASSUME NEW p \in solved PROVE rowSet(p) = cellSet(p)
    <2>1. MaxScore(u, p, until).score = FullScore
        BY <1>2
    <2>2. time(p) \in Nat /\ time(p) <= until
        BY <2>1, SolutionInTime
    <2>3. ASSUME NEW i \in Made PROVE i \in rowSet(p) <=> i \in cellSet(p)
        <3>1. subs[i].at \in Nat /\ subs[i].at <= minute /\ minute \in Nat
            BY SubmittedFields DEF BoardTypeOK
        <3>2. subs[i].at < time(p) => subs[i].at <= until
            BY <2>2, <3>1
        <3>3. Counts(i, u, p, minute) /\ subs[i].at < time(p)
                <=> Counts(i, u, p, until) /\ subs[i].at < time(p)
            BY <3>1, <3>2 DEF Counts
        <3>4. ~(MaxScore(u, p, until).score < FullScore)
            BY <2>1 DEF FullScore
        <3> HIDE DEF time
        <3> QED
            BY <3>3, <3>4
    <2> QED
        BY <2>3
<1> HIDE DEF time, rowSet, cellSet
<1>5. [p \in solved |-> time(p) + SubmissionPenalty * Cardinality(rowSet(p))]
        = [p \in solved |-> cells[p].time + SubmissionPenalty * cells[p].attempts]
    <2>1. \A p \in solved : time(p) + SubmissionPenalty * Cardinality(rowSet(p))
                            = cells[p].time + SubmissionPenalty * cells[p].attempts
        BY <1>1, <1>2, <1>4
    <2> QED
        BY <2>1
<1> QED
    BY <1>2, <1>3, <1>5 DEF solved, PenaltyOf

\* As long as no score moves, the queries read the same, for a board that is frozen and
\* for one that goes up to now.
SameJudged ==
    /\ \A i \in Made : i \in Made' /\ subs'[i] = subs[i]
    /\ \A i \in Made' : subs'[i].judged \/ subs'[i].problem \in SumSubtasks => i \in Made
    /\ Until' = Until \/ (Until = minute /\ Until' = minute')
    /\ minute <= minute'

LEMMA SameBest ==
    ASSUME BoardTypeOK, SameJudged, NEW u, NEW p, p \notin SumSubtasks,
           Counted(u, p, Until)' = Counted(u, p, Until)
    PROVE  MaxScore(u, p, Until)' = MaxScore(u, p, Until)
<1> DEFINE counted == Counted(u, p, Until)
           value == [i \in counted |-> subs[i].score]
           first == FirstOf(counted, value)
<1>1. \A i \in counted : subs'[i] = subs[i]
    BY DEF Counted, SameJudged
<1>2. counted' = counted /\ value' = value /\ first' = first
    BY <1>1
<1>3. MaxScore(u, p, Until) =
        IF counted = {} THEN NoScore
        ELSE [score |-> subs[first].score * subs[first].scale, mintime |-> subs[first].at]
    BY DEF MaxScore, BestSubmission, Counted
<1>4. MaxScore(u, p, Until)' =
        IF counted' = {} THEN NoScore
        ELSE [score |-> subs'[first'].score * subs'[first'].scale, mintime |-> subs'[first'].at]
    BY DEF MaxScore, BestSubmission, Counted, NoScore, None
<1>5. ASSUME counted # {} PROVE first \in counted
    <2>1. counted \in SUBSET Made
        BY DEF Counted
    <2>2. \A i \in counted : value[i] \in Nat
        BY SubmittedFields DEF Counted
    <2>3. counted \in SUBSET Nat /\ IsFiniteSet(counted)
        <3> HIDE DEF counted
        <3> QED
            BY <2>1, MadeIsFinite, FS_Subset
    <2> HIDE DEF counted, value
    <2> QED
        BY <1>5, <2>2, <2>3, FirstIs
<1> HIDE DEF counted, first
<1> QED
    BY <1>1, <1>2, <1>3, <1>4, <1>5

LEMMA SameSums ==
    ASSUME BoardTypeOK, SameJudged, NEW u, NEW p, p \in SumSubtasks,
           Rows(u, p, Until)' = Rows(u, p, Until)
    PROVE  MaxScore(u, p, Until)' = MaxScore(u, p, Until)
<1> DEFINE rows == Rows(u, p, Until)
           value(s) == [i \in rows |-> subs[i].parts[s]]
           first(s) == FirstOf(rows, value(s))
<1>1. \A i \in rows : subs'[i] = subs[i]
    BY DEF Rows, SameJudged
<1>2. \A s : value(s)' = value(s) /\ first(s)' = first(s)
    BY <1>1
<1>3. MaxScore(u, p, Until) =
        IF rows = {} \/ Subtasks = {} THEN NoScore
        ELSE [score |-> SumFunction([s \in Subtasks |->
                            subs[first(s)].parts[s] * subs[first(s)].scale]),
              mintime |-> Max({subs[first(s)].at : s \in Subtasks})]
    BY DEF MaxScore, SumOfSubtasks, Rows
<1>4. MaxScore(u, p, Until)' =
        IF rows' = {} \/ Subtasks = {} THEN NoScore
        ELSE [score |-> SumFunction([s \in Subtasks |->
                            subs'[first(s)'].parts[s] * subs'[first(s)'].scale]),
              mintime |-> Max({subs'[first(s)'].at : s \in Subtasks})]
    BY DEF MaxScore, SumOfSubtasks, Rows, NoScore, None
<1>5. ASSUME rows # {}, NEW s \in Subtasks PROVE first(s) \in rows
    <2>1. rows \in SUBSET Made /\ rows \in SUBSET Nat /\ IsFiniteSet(rows)
        BY RowsOf
    <2> HIDE DEF rows
    <2>2. \A i \in rows : value(s)[i] \in Nat
        BY <2>1, SubmittedFields
    <2> HIDE DEF value
    <2> QED
        BY <1>5, <2>1, <2>2, FirstIs
<1> HIDE DEF rows, first
<1>6. ASSUME rows # {}
      PROVE  /\ [s \in Subtasks |-> subs'[first(s)'].parts[s] * subs'[first(s)'].scale]
                    = [s \in Subtasks |-> subs[first(s)].parts[s] * subs[first(s)].scale]
             /\ {subs'[first(s)'].at : s \in Subtasks} = {subs[first(s)].at : s \in Subtasks}
    BY <1>1, <1>2, <1>5, <1>6
<1>7. rows' = rows
    BY DEF rows
<1>8. CASE rows = {} \/ Subtasks = {}
    BY <1>3, <1>4, <1>7, <1>8
<1>9. CASE ~(rows = {} \/ Subtasks = {})
    <2>1. MaxScore(u, p, Until) =
            [score |-> SumFunction([s \in Subtasks |->
                            subs[first(s)].parts[s] * subs[first(s)].scale]),
             mintime |-> Max({subs[first(s)].at : s \in Subtasks})]
        BY <1>3, <1>9
    <2>2. MaxScore(u, p, Until)' =
            [score |-> SumFunction([s \in Subtasks |->
                            subs'[first(s)'].parts[s] * subs'[first(s)'].scale]),
             mintime |-> Max({subs'[first(s)'].at : s \in Subtasks})]
        BY <1>4, <1>7, <1>9
    <2> QED
        BY <1>6, <1>9, <2>1, <2>2
<1> QED
    BY <1>8, <1>9

LEMMA SameRead ==
    ASSUME BoardTypeOK, minute' \in Nat, SameJudged, NEW u
    PROVE  IcpcRow(u, Until)' = IcpcRow(u, Until) /\ IcpcCells(u, Until)' = IcpcCells(u, Until)
<1> USE DEF SameJudged
<1>1. ASSUME NEW i \in Made, NEW p
      PROVE  /\ Counts(i, u, p, Until)' <=> Counts(i, u, p, Until)
             /\ Counts(i, u, p, minute)' <=> Counts(i, u, p, minute)
    <2>1. subs[i].at \in Nat /\ subs[i].at <= minute /\ minute \in Nat
        BY SubmittedFields DEF BoardTypeOK
    <2>2. subs[i].at <= minute' /\ subs'[i] = subs[i]
        BY <2>1
    <2>3. subs[i].at <= Until' <=> subs[i].at <= Until
        BY <2>1, <2>2
    <2> QED
        BY <2>1, <2>2, <2>3 DEF Counts
<1>2. ASSUME NEW i \in Made', i \notin Made, NEW p
      PROVE  ~Counts(i, u, p, Until)' /\ ~Counts(i, u, p, minute)'
    BY <1>2 DEF Counts
<1>3. ASSUME NEW p
      PROVE  /\ Counted(u, p, Until)' = Counted(u, p, Until)
             /\ p \in SumSubtasks => Rows(u, p, Until)' = Rows(u, p, Until)
    <2>1. Counted(u, p, Until)' = Counted(u, p, Until)
        BY <1>1, <1>2 DEF Counted
    <2>2. ASSUME NEW i \in Made PROVE i \in Rows(u, p, Until)' <=> i \in Rows(u, p, Until)
        <3>1. subs[i].at \in Nat /\ subs[i].at <= minute /\ minute \in Nat
            BY SubmittedFields DEF BoardTypeOK
        <3>2. subs'[i] = subs[i] /\ subs[i].at <= minute' /\ i \in Made'
            BY <3>1
        <3>3. subs[i].at <= Until' <=> subs[i].at <= Until
            BY <3>1, <3>2
        <3> QED
            BY <3>2, <3>3 DEF Rows
    <2>3. ASSUME p \in SumSubtasks, NEW i \in Rows(u, p, Until)' PROVE i \in Made
        BY <2>3 DEF Rows
    <2>4. Rows(u, p, Until) \subseteq Made
        BY DEF Rows
    <2> QED
        BY <2>1, <2>2, <2>3, <2>4
<1>4. \A p : MaxScore(u, p, Until)' = MaxScore(u, p, Until)
    BY <1>3, SameBest, SameSums DEF SameJudged
<1> DEFINE time(p) == MaxScore(u, p, Until).mintime
           rowSet(p) == {i \in Made :
                Counts(i, u, p, minute) /\ ~subs[i].compile_error /\ subs[i].at < time(p)}
           cellSet(p) == {i \in Made :
                /\ Counts(i, u, p, Until) /\ ~subs[i].compile_error
                /\ MaxScore(u, p, Until).score < FullScore \/ subs[i].at < time(p)}
           solved == Solved(u, Until)
<1>5. \A p : time(p)' = time(p)
    BY <1>4
<1>6. \A p : rowSet(p)' = rowSet(p)
    <2> HIDE DEF time
    <2> QED
        BY <1>1, <1>2, <1>5
<1>7. \A p : cellSet(p)' = cellSet(p)
    <2> HIDE DEF time
    <2> QED
        BY <1>1, <1>2, <1>4, <1>5
<1>8. solved' = solved
    BY <1>4 DEF Solved
<1>9. /\ IcpcRow(u, Until) =
            [num_solved |-> Cardinality(solved),
             penalty |-> SumFunction([p \in solved |->
                            time(p) + SubmissionPenalty * Cardinality(rowSet(p))]),
             last_time |-> IF solved = {} THEN None ELSE Max({time(p) : p \in solved})]
      /\ IcpcRow(u, Until)' =
            [num_solved |-> Cardinality(solved'),
             penalty |-> SumFunction([p \in solved' |->
                            time(p)' + SubmissionPenalty * Cardinality(rowSet(p)')]),
             last_time |-> IF solved' = {} THEN None ELSE Max({time(p)' : p \in solved'})]
    BY DEF IcpcRow
<1>10. /\ IcpcCells(u, Until) =
            [p \in ContestProblems |->
                [score |-> MaxScore(u, p, Until).score, time |-> time(p),
                 attempts |-> Cardinality(cellSet(p))]]
       /\ IcpcCells(u, Until)' =
            [p \in ContestProblems |->
                [score |-> MaxScore(u, p, Until)'.score, time |-> time(p)',
                 attempts |-> Cardinality(cellSet(p)')]]
    BY DEF IcpcCells
<1> HIDE DEF time, rowSet, cellSet, solved
<1>11. [p \in solved |-> time(p)' + SubmissionPenalty * Cardinality(rowSet(p)')]
        = [p \in solved |-> time(p) + SubmissionPenalty * Cardinality(rowSet(p))]
    BY <1>5, <1>6
<1>12. {time(p)' : p \in solved} = {time(p) : p \in solved}
    BY <1>5
<1>13. IcpcRow(u, Until)' = IcpcRow(u, Until)
    BY <1>8, <1>9, <1>11, <1>12
<1>14. IcpcCells(u, Until)' = IcpcCells(u, Until)
    BY <1>4, <1>5, <1>7, <1>10
<1> QED
    BY <1>13, <1>14

SolvedByOne(u) ==
    Solved(u, Until) = {p \in ContestProblems :
        \E i \in Counted(u, p, Until) : subs[i].score = 100}

LEMMA SolvedNow == BoardTypeOK => \A u \in Contestants : Plain(u) => SolvedByOne(u)
BY SolvedMeans DEF SolvedByOne

LEMMA SolvedNext == (BoardTypeOK => \A u \in Contestants : Plain(u) => SolvedByOne(u))'
BY SolvedNow, PTL

\* Unless a submission is reset, what is solved stays solved.
LEMMA SolvedGrows ==
    ASSUME BoardTypeOK, BoardTypeOK',
           \A i \in Made : subs[i].judged => i \in Made' /\ subs'[i] = subs[i],
           Until' = Until \/ (Until = minute /\ Until' = minute'), minute <= minute',
           NEW u \in Contestants, Plain(u), Plain(u)'
    PROVE  Solved(u, Until) \subseteq Solved(u, Until)'
<1>1. /\ Solved(u, Until) = {p \in ContestProblems :
                \E i \in Counted(u, p, Until) : subs[i].score = 100}
      /\ Solved(u, Until)' = {p \in ContestProblems :
                \E i \in Counted(u, p, Until)' : subs'[i].score = 100}
    BY SolvedNow, SolvedNext DEF SolvedByOne
<1>2. ASSUME NEW p, NEW i \in Counted(u, p, Until), subs[i].score = 100
      PROVE  i \in Counted(u, p, Until)' /\ subs'[i].score = 100
    <2>1. i \in Made /\ subs[i].judged /\ subs'[i] = subs[i] /\ i \in Made'
        BY DEF Counted, Counts
    <2>2. subs[i].at \in Nat /\ subs[i].at <= minute /\ minute \in Nat /\ minute' \in Nat
        BY <2>1, SubmittedFields DEF BoardTypeOK
    <2>3. subs[i].at <= Until
        BY DEF Counted, Counts
    <2>4. subs[i].at <= Until'
        BY <2>2, <2>3
    <2> QED
        BY <1>2, <2>1, <2>4 DEF Counted, Counts
<1> QED
    BY <1>1, <1>2

\* Who is scored whole and out of 100 has been so all along.
LEMMA PlainBefore ==
    ASSUME NEW u, Plain(u)',
           \A i \in Made : /\ i \in Made' /\ subs'[i].user = subs[i].user
                           /\ subs'[i].problem = subs[i].problem /\ subs'[i].scale = subs[i].scale
    PROVE  Plain(u)
BY DEF Plain

LEMMA BoardInitInv == BoardInit => BoardInv
<1> SUFFICES ASSUME BoardInit PROVE BoardInv
    OBVIOUS
<1>1. Made = {}
    BY DEF BoardInit, Made
<1>2. subs \in Seq(Submitted)
    BY DEF BoardInit
<1> QED
    BY <1>1, <1>2 DEF BoardInit, BoardInv, BoardTypeOK, BoardMoves, RowsStand, SolvedStays

LEMMA MovedBoard ==
    ASSUME BoardMoves, UNCHANGED minute,
           board' = board \/ \E how \in {"forward", "back"} : board' = Moved(how)
    PROVE  BoardMoves'
<1>1. CASE board = NoBoard \/ board' = board
    BY <1>1 DEF Moved, BoardMoves
<1>2. CASE board # NoBoard /\ board' # board
    <2>1. PICK m \in {"no", "forward", "back"} :
            board' = [step |-> "building", freeze |-> board.freeze, rows |-> board.rows,
                      cells |-> board.cells, moved |-> m]
        BY <1>2 DEF Moved, BoardMoves
    <2> QED
        BY <1>2, <2>1 DEF BoardMoves
<1> QED
    BY <1>1, <1>2

LEMMA BoardTypeNext == BoardTypeOK /\ [BoardNext]_boardVars => BoardTypeOK'
<1> SUFFICES ASSUME BoardTypeOK, [BoardNext]_boardVars PROVE BoardTypeOK'
    OBVIOUS
<1> USE DEF BoardTypeOK
<1>1. CASE ReadRows
    <2>1. PICK editor \in BOOLEAN, showFrozen \in BOOLEAN : \E rows :
            board' = [step |-> "building", freeze |-> FreezeFor(editor, showFrozen),
                      rows |-> rows, cells |-> <<>>, moved |-> "no"]
        BY <1>1 DEF ReadRows
    <2>2. /\ FreezeFor(editor, showFrozen) \in Nat
          /\ FreezeFor(editor, showFrozen) <= minute
        BY LeaderboardAssumption DEF FreezeFor
    <2>3. DOMAIN <<>> = {}
        OBVIOUS
    <2> QED
        BY <1>1, <2>1, <2>2, <2>3 DEF ReadRows, Made, BoardMoves
<1>2. CASE ReadCells
    <2>1. PICK u \in Contestants : board' = [board EXCEPT !.cells =
                       [v \in DOMAIN board.cells \cup {u} |->
                            IF v = u THEN IcpcCells(u, Until) ELSE board.cells[v]]]
        BY <1>2 DEF ReadCells
    <2> QED
        BY <1>2, <2>1 DEF ReadCells, Made, BoardMoves
<1>3. CASE Deliver
    BY <1>3 DEF Deliver, Made, BoardMoves
<1>4. CASE MakeSubmission
    <2>1. PICK e : /\ e \in Submitted /\ e.at = minute /\ subs' = Append(subs, e)
                   /\ board' = Moved("forward") \/ board' = board
        <3>1. PICK u \in Contestants, p \in ContestProblems, scale \in Scales :
                /\ subs' = Append(subs, [user |-> u, problem |-> p, at |-> minute,
                                   scale |-> scale, parts |-> [s \in Subtasks |-> 0],
                                   judged |-> FALSE, score |-> 0, compile_error |-> FALSE])
                /\ board' = IF p \in SumSubtasks THEN Moved("forward") ELSE board
            BY <1>4 DEF MakeSubmission
        <3>2. scale \in Nat /\ [s \in Subtasks |-> 0] \in [Subtasks -> Nat]
            BY LeaderboardAssumption
        <3> DEFINE e == [user |-> u, problem |-> p, at |-> minute, scale |-> scale,
                         parts |-> [s \in Subtasks |-> 0], judged |-> FALSE, score |-> 0,
                         compile_error |-> FALSE]
        <3>3. e \in Submitted /\ e.at = minute
            BY <3>2 DEF Submitted
        <3>4. subs' = Append(subs, e)
            BY <3>1
        <3> HIDE DEF e
        <3> QED
            BY <3>1, <3>3, <3>4
    <2>2. subs' \in Seq(Submitted)
        BY <2>1
    <2>3. /\ Made = 1..Len(subs) /\ Made' = 1..(Len(subs) + 1) /\ Len(subs) \in Nat
          /\ \A i \in Made : subs'[i] = subs[i]
          /\ subs'[Len(subs) + 1] = e
        BY <2>1 DEF Made
    <2>4. /\ \A i \in Made' : subs'[i].at <= minute'
          /\ \A i, j \in Made' : i <= j => subs'[i].at <= subs'[j].at
        <3>1. minute' = minute /\ minute \in Nat /\ \A i \in Made : subs[i].at <= minute
            BY <1>4 DEF MakeSubmission
        <3>2. \A i, j \in Made : i <= j => subs[i].at <= subs[j].at
            OBVIOUS
        <3>3. \A i \in Made' : i \in Made \/ i = Len(subs) + 1
            BY <2>3
        <3>4. \A i \in Made : i <= Len(subs)
            BY <2>3
        <3> HIDE DEF BoardTypeOK, Made
        <3>5. ASSUME NEW i \in Made' PROVE subs'[i].at <= minute'
            BY <2>1, <2>3, <3>1, <3>3
        <3>6. ASSUME NEW i \in Made', NEW j \in Made', i <= j
              PROVE  subs'[i].at <= subs'[j].at
            <4>1. CASE j \in Made
                <5>1. i \in Made
                    BY <2>3, <3>3, <3>4, <3>6, <4>1
                <5> QED
                    BY <2>3, <3>2, <3>6, <4>1, <5>1
            <4>2. CASE j = Len(subs) + 1
                BY <2>1, <2>3, <3>1, <3>5, <4>2
            <4> QED
                BY <3>3, <4>1, <4>2
        <3> QED
            BY <3>5, <3>6
    <2>5. BoardMoves'
        BY <1>4, <2>1, MovedBoard DEF MakeSubmission
    <2> QED
        BY <1>4, <2>2, <2>4, <2>5 DEF MakeSubmission
<1>5. ASSUME NEW how \in {"forward", "back"}, board' = Moved(how), UNCHANGED minute,
             NEW i \in Made, NEW e \in Submitted, e.at = subs[i].at,
             subs' = [subs EXCEPT ![i] = e]
      PROVE  BoardTypeOK'
    <2>1. subs' \in Seq(Submitted)
        <3>1. i \in 1..Len(subs) /\ subs \in Seq(Submitted)
            BY DEF Made
        <3> HIDE DEF Made, BoardTypeOK
        <3> QED
            BY <1>5, <3>1, ExceptSeq
    <2>2. Made' = Made /\ \A j \in Made : subs'[j].at = subs[j].at
        BY <1>5 DEF Made
    <2>3. BoardMoves'
        BY <1>5, MovedBoard
    <2> QED
        BY <1>5, <2>1, <2>2, <2>3
<1>6. CASE Judge
    <2>1. PICK i \in Made, score \in Scores, ce \in BOOLEAN :
            subs' = [subs EXCEPT ![i].judged = TRUE, ![i].score = score,
                                 ![i].compile_error = ce]
        BY <1>6 DEF Judge
    <2> DEFINE e == [[[subs[i] EXCEPT !.judged = TRUE] EXCEPT !.score = score]
                        EXCEPT !.compile_error = ce]
    <2>2. subs' = [subs EXCEPT ![i] = e]
        BY <2>1 DEF Made
    <2>3. e \in Submitted /\ e.at = subs[i].at
        <3>1. subs[i] \in Submitted /\ score \in 0..100
            BY LeaderboardAssumption DEF Made
        <3> QED
            BY <3>1 DEF Submitted
    <2> HIDE DEF e
    <2> QED
        BY <1>5, <1>6, <2>2, <2>3 DEF Judge
<1>7. CASE ResetSubmission
    <2>1. PICK i \in Made, scale \in Scales :
            subs' = [subs EXCEPT ![i].judged = FALSE, ![i].score = 0, ![i].compile_error = FALSE,
                                 ![i].scale = scale, ![i].parts = [s \in Subtasks |-> 0]]
        BY <1>7 DEF ResetSubmission
    <2> DEFINE e == [[[[[subs[i] EXCEPT !.judged = FALSE] EXCEPT !.score = 0]
                        EXCEPT !.compile_error = FALSE] EXCEPT !.scale = scale]
                        EXCEPT !.parts = [s \in Subtasks |-> 0]]
    <2>2. subs' = [subs EXCEPT ![i] = e]
        BY <2>1 DEF Made
    <2>3. e \in Submitted /\ e.at = subs[i].at
        <3>1. subs[i] \in Submitted /\ scale \in Nat /\ 0 \in 0..100
            BY LeaderboardAssumption DEF Made
        <3> QED
            BY <3>1 DEF Submitted
    <2> HIDE DEF e
    <2> QED
        BY <1>5, <1>7, <2>2, <2>3 DEF ResetSubmission
<1>8. CASE ScoreSubtask
    <2>1. PICK i \in Made, s \in Subtasks, x \in PartScores :
            subs' = [subs EXCEPT ![i].parts[s] = x]
        BY <1>8 DEF ScoreSubtask
    <2> DEFINE e == [subs[i] EXCEPT !.parts = [subs[i].parts EXCEPT ![s] = x]]
    <2>2. subs' = [subs EXCEPT ![i] = e]
        BY <2>1 DEF Made
    <2>3. e \in Submitted /\ e.at = subs[i].at
        <3>1. subs[i] \in Submitted /\ x \in Nat
            BY LeaderboardAssumption DEF Made
        <3> QED
            BY <3>1 DEF Submitted
    <2> HIDE DEF e
    <2> QED
        BY <1>5, <1>8, <2>2, <2>3 DEF ScoreSubtask
<1>9. CASE NextMinute
    <2>1. ASSUME NEW i \in Made PROVE subs[i].at \in Nat
        BY <2>1, SubmittedFields
    <2>2. /\ \A i \in Made : subs[i].at <= minute'
          /\ board # NoBoard => board.freeze <= minute'
        BY <1>9, <2>1 DEF NextMinute, BoardMoves
    <2> QED
        BY <1>9, <2>2 DEF NextMinute, Made, BoardMoves
<1>10. CASE UNCHANGED boardVars
    BY <1>10 DEF boardVars, Made, BoardMoves
<1> QED
    BY <1>1, <1>2, <1>3, <1>4, <1>6, <1>7, <1>8, <1>9, <1>10 DEF BoardNext

\* A board that stays as it is, while the queries would read the same.
LEMMA BoardStands ==
    ASSUME BoardInv, BoardTypeOK', UNCHANGED board, SameJudged
    PROVE  BoardInv'
<1>1. \A u : IcpcRow(u, Until)' = IcpcRow(u, Until) /\ IcpcCells(u, Until)' = IcpcCells(u, Until)
    BY SameRead DEF BoardInv, BoardTypeOK
<1>2. RowsStand'
    BY <1>1 DEF BoardInv, RowsStand
<1>3. ASSUME NEW u \in Contestants, Plain(u)'
      PROVE  Plain(u) /\ Solved(u, Until) \subseteq Solved(u, Until)'
    <2>1. Plain(u)
        BY <1>3, PlainBefore DEF SameJudged
    <2> QED
        BY <1>3, <2>1, SolvedGrows DEF BoardInv, SameJudged
<1>4. SolvedStays'
    BY <1>3 DEF BoardInv, SolvedStays, Kept
<1> QED
    BY <1>2, <1>4 DEF BoardInv

LEMMA BoardNextInv == BoardInv /\ [BoardNext]_boardVars => BoardInv'
<1> SUFFICES ASSUME BoardInv, [BoardNext]_boardVars PROVE BoardInv'
    OBVIOUS
<1>1. BoardTypeOK /\ BoardTypeOK'
    BY BoardTypeNext DEF BoardInv
<1>2. CASE ReadRows
    <2>1. PICK editor \in BOOLEAN, showFrozen \in BOOLEAN :
            LET freeze == FreezeFor(editor, showFrozen)
                until == IF freeze = 0 THEN minute ELSE freeze IN
            board' = [step |-> "building", freeze |-> freeze,
                   rows |-> [u \in Contestants |-> IcpcRow(u, until)],
                   cells |-> <<>>, moved |-> "no"]
        BY <1>2 DEF ReadRows
    <2>2. Until' = IF board'.freeze = 0 THEN minute ELSE board'.freeze
        BY <1>2 DEF ReadRows, Until
    <2>3. \A u \in Contestants : board'.rows[u] = IcpcRow(u, Until')
        BY <2>1, <2>2
    <2>4. ASSUME NEW u \in Contestants
          PROVE  IcpcRow(u, Until)' = IcpcRow(u, Until') /\ Solved(u, Until)' = Solved(u, Until')
        <3>1. subs' = subs /\ minute' = minute
            BY <1>2 DEF ReadRows
        <3>2. \A p : /\ BestSubmission(u, p, Until)' = BestSubmission(u, p, Until')
                     /\ SumOfSubtasks(u, p, Until)' = SumOfSubtasks(u, p, Until')
            BY <3>1 DEF BestSubmission, SumOfSubtasks, Counts, Made, NoScore, None
        <3>3. \A p : MaxScore(u, p, Until)' = MaxScore(u, p, Until')
            BY <3>2 DEF MaxScore
        <3>4. Solved(u, Until)' = Solved(u, Until')
            BY <3>3 DEF Solved
        <3>5. IcpcRow(u, Until)' = IcpcRow(u, Until')
            BY <3>1, <3>3, <3>4 DEF IcpcRow, Counts, Made, None
        <3> QED
            BY <3>4, <3>5
    <2>5. DOMAIN <<>> = {}
        OBVIOUS
    <2>6. DOMAIN board'.cells = {}
        BY <2>1, <2>5
    <2>7. RowsStand'
        BY <2>3, <2>4, <2>6 DEF RowsStand
    <2>8. SolvedStays'
        <3>1. ASSUME NEW u \in Contestants
              PROVE  board'.rows[u].num_solved = Cardinality(Solved(u, Until)')
            <4>1. IcpcRow(u, Until)'.num_solved = Cardinality(Solved(u, Until)')
                BY DEF IcpcRow
            <4> QED
                BY <2>3, <2>4, <4>1
        <3>2. ASSUME NEW u \in Contestants
              PROVE  \E S : /\ S \subseteq Solved(u, Until)'
                            /\ board'.rows[u].num_solved = Cardinality(S)
                            /\ u \in DOMAIN board'.cells =>
                                    \A p \in S : board'.cells[u][p].score = FullScore
            BY <2>6, <3>1
        <3> QED
            BY <3>2 DEF SolvedStays, Kept
    <2> QED
        BY <1>1, <2>7, <2>8 DEF BoardInv
<1>3. CASE ReadCells
    <2>1. PICK u \in Contestants :
            board' = [board EXCEPT !.cells =
                       [v \in DOMAIN board.cells \cup {u} |->
                            IF v = u THEN IcpcCells(u, Until) ELSE board.cells[v]]]
        BY <1>3 DEF ReadCells
    <2>2. board # NoBoard /\ UNCHANGED <<minute, subs>>
        BY <1>3 DEF ReadCells
    <2>3. /\ board'.freeze = board.freeze /\ board'.rows = board.rows
          /\ board'.moved = board.moved
          /\ board'.cells = [v \in DOMAIN board.cells \cup {u} |->
                                IF v = u THEN IcpcCells(u, Until) ELSE board.cells[v]]
        <3>1. board = [step |-> "building", freeze |-> board.freeze, rows |-> board.rows,
                       cells |-> board.cells, moved |-> board.moved]
            BY <1>1, <2>2 DEF BoardTypeOK, BoardMoves
        <3> QED
            BY <2>1, <3>1
    <2>4. Until' = Until
        BY <2>2, <2>3 DEF Until
    <2>5. SameJudged /\ minute' \in Nat
        BY <1>1, <2>2, <2>4 DEF SameJudged, Made, BoardTypeOK
    <2>6. \A v : /\ IcpcRow(v, Until)' = IcpcRow(v, Until)
                 /\ IcpcCells(v, Until)' = IcpcCells(v, Until)
        BY <1>1, <2>5, SameRead
    <2>7. RowsStand'
        BY <2>2, <2>3, <2>6 DEF BoardInv, RowsStand
    <2>8. ASSUME NEW v \in Contestants, board.moved # "back", Plain(v)'
          PROVE  \E S : Kept(v, S)'
        <3>1. Plain(v)
            BY <2>5, <2>8, PlainBefore DEF SameJudged
        <3>2. PICK S : Kept(v, S)
            BY <2>2, <2>8, <3>1 DEF BoardInv, SolvedStays
        <3>5. Solved(v, Until) \subseteq Solved(v, Until)'
            BY <1>1, <2>5, <2>8, <3>1, SolvedGrows DEF SameJudged
        <3>3. CASE v = u
            <4>1. \A p \in S : IcpcCells(u, Until)[p].score = FullScore
                BY <3>2, <3>3 DEF Kept, Solved, IcpcCells
            <4>2. board'.cells[u] = IcpcCells(u, Until)
                BY <2>3
            <4> QED
                BY <2>3, <3>2, <3>3, <3>5, <4>1, <4>2 DEF Kept
        <3>4. CASE v # u
            <4>1. v \in DOMAIN board'.cells => v \in DOMAIN board.cells
                                              /\ board'.cells[v] = board.cells[v]
                BY <2>3, <3>4
            <4> QED
                BY <2>3, <3>2, <3>5, <4>1 DEF Kept
        <3> QED
            BY <3>3, <3>4
    <2>9. SolvedStays'
        BY <2>3, <2>8 DEF SolvedStays
    <2> QED
        BY <1>1, <2>7, <2>9 DEF BoardInv
<1>4. CASE Deliver
    BY <1>1, <1>4 DEF Deliver, BoardInv, RowsStand, SolvedStays
<1>5. ASSUME NEW how \in {"forward", "back"}, board' = Moved(how), board # NoBoard
      PROVE  /\ board' # NoBoard => board'.moved \in {"forward", "back"}
             /\ board.moved = "back" => board'.moved = "back"
             /\ how = "back" => board'.moved = "back"
             /\ board'.freeze = board.freeze /\ board'.rows = board.rows
             /\ board'.cells = board.cells
    BY <1>1, <1>5 DEF Moved, BoardTypeOK, BoardMoves
<1>6. ASSUME board = NoBoard, board' = Moved("forward") \/ board' = Moved("back")
      PROVE  BoardInv'
    BY <1>1, <1>6 DEF Moved, BoardInv, RowsStand, SolvedStays
<1>7. ASSUME board # NoBoard, board' = Moved("forward"), minute' = minute,
             \A i \in Made : subs[i].judged => i \in Made' /\ subs'[i] = subs[i],
             \A i \in Made : /\ i \in Made' /\ subs'[i].user = subs[i].user
                             /\ subs'[i].problem = subs[i].problem
                             /\ subs'[i].scale = subs[i].scale
      PROVE  BoardInv'
    <2>1. /\ board' # NoBoard => board'.moved \in {"forward", "back"}
          /\ board.moved = "back" => board'.moved = "back"
          /\ board'.freeze = board.freeze /\ board'.rows = board.rows
          /\ board'.cells = board.cells
        BY <1>5, <1>7
    <2>2. RowsStand'
        BY <2>1 DEF RowsStand
    <2>3. Until' = Until /\ minute <= minute'
        BY <1>1, <1>7, <2>1 DEF Until, BoardTypeOK
    <2>4. ASSUME NEW v \in Contestants, Plain(v)'
          PROVE  Plain(v) /\ Solved(v, Until) \subseteq Solved(v, Until)'
        <3>1. Plain(v)
            BY <1>7, <2>4, PlainBefore
        <3> QED
            BY <1>1, <1>7, <2>3, <2>4, <3>1, SolvedGrows
    <2>5. SolvedStays'
        BY <1>7, <2>1, <2>4 DEF BoardInv, SolvedStays, Kept
    <2> QED
        BY <1>1, <2>2, <2>5 DEF BoardInv
<1>8. CASE MakeSubmission
    <2>1. PICK e : /\ subs' = Append(subs, e) /\ e.judged = FALSE /\ minute' = minute
                   /\ \/ board' = Moved("forward")
                      \/ board' = board /\ e.problem \notin SumSubtasks
        <3>1. PICK u \in Contestants, p \in ContestProblems, scale \in Scales :
                /\ subs' = Append(subs, [user |-> u, problem |-> p, at |-> minute,
                                   scale |-> scale, parts |-> [s \in Subtasks |-> 0],
                                   judged |-> FALSE, score |-> 0, compile_error |-> FALSE])
                /\ board' = IF p \in SumSubtasks THEN Moved("forward") ELSE board
                /\ minute' = minute
            BY <1>8 DEF MakeSubmission
        <3> DEFINE e == [user |-> u, problem |-> p, at |-> minute, scale |-> scale,
                         parts |-> [s \in Subtasks |-> 0], judged |-> FALSE, score |-> 0,
                         compile_error |-> FALSE]
        <3>2. subs' = Append(subs, e) /\ e.judged = FALSE /\ e.problem = p
            BY <3>1
        <3> HIDE DEF e
        <3> QED
            BY <3>1, <3>2
    <2>2. /\ \A i \in Made : i \in Made' /\ subs'[i] = subs[i]
          /\ \A i \in Made' : i \in Made \/ subs'[i] = e
        BY <1>1, <2>1 DEF BoardTypeOK, Made
    <2>3. CASE board' = Moved("forward")
        BY <1>6, <1>7, <2>1, <2>2, <2>3
    <2>4. CASE board' = board /\ e.problem \notin SumSubtasks
        <3>1. Until' = Until /\ minute <= minute'
            BY <1>1, <2>1, <2>4 DEF Until, BoardTypeOK
        <3>2. SameJudged
            BY <2>1, <2>2, <2>4, <3>1 DEF SameJudged
        <3> QED
            BY <1>1, <2>4, <3>2, BoardStands
    <2> QED
        BY <2>1, <2>3, <2>4
<1>9. CASE Judge
    <2>1. PICK j \in Made, score \in Scores, ce \in BOOLEAN :
            /\ ~subs[j].judged
            /\ subs' = [subs EXCEPT ![j].judged = TRUE, ![j].score = score,
                                    ![j].compile_error = ce]
        BY <1>9 DEF Judge
    <2>2. /\ \A i \in Made : subs[i].judged => i \in Made' /\ subs'[i] = subs[i]
          /\ \A i \in Made : /\ i \in Made' /\ subs'[i].user = subs[i].user
                             /\ subs'[i].problem = subs[i].problem
                             /\ subs'[i].scale = subs[i].scale
        <3>1. subs[j] \in Submitted
            BY <1>1 DEF BoardTypeOK, Made
        <3> QED
            BY <2>1, <3>1 DEF Made, Submitted
    <2> QED
        BY <1>6, <1>7, <1>9, <2>2 DEF Judge
<1>10. CASE ScoreSubtask
    <2>1. PICK j \in Made, s \in Subtasks, x \in PartScores :
            ~subs[j].judged /\ subs' = [subs EXCEPT ![j].parts[s] = x]
        BY <1>10 DEF ScoreSubtask
    <2>2. /\ \A i \in Made : subs[i].judged => i \in Made' /\ subs'[i] = subs[i]
          /\ \A i \in Made : /\ i \in Made' /\ subs'[i].user = subs[i].user
                             /\ subs'[i].problem = subs[i].problem
                             /\ subs'[i].scale = subs[i].scale
        <3>1. subs[j] \in Submitted
            BY <1>1 DEF BoardTypeOK, Made
        <3> QED
            BY <2>1, <3>1 DEF Made, Submitted
    <2> QED
        BY <1>6, <1>7, <1>10, <2>2 DEF ScoreSubtask
<1>11. CASE ResetSubmission
    <2>1. board' = Moved("back")
        BY <1>11 DEF ResetSubmission
    <2>2. board # NoBoard => board'.moved = "back"
        BY <1>5, <2>1
    <2> QED
        BY <1>1, <1>6, <2>1, <2>2 DEF BoardInv, RowsStand, SolvedStays
<1>12. CASE NextMinute
    <2>1. UNCHANGED <<subs, board>> /\ minute' = minute + 1
        BY <1>12 DEF NextMinute
    <2>2. SameJudged
        BY <1>1, <2>1 DEF SameJudged, Until, Made, BoardTypeOK
    <2> QED
        BY <1>1, <2>1, <2>2, BoardStands
<1>13. CASE UNCHANGED boardVars
    <2>1. UNCHANGED <<subs, board, minute>>
        BY <1>13 DEF boardVars
    <2>2. SameJudged
        BY <1>1, <2>1 DEF SameJudged, Until, Made, BoardTypeOK
    <2> QED
        BY <1>1, <2>1, <2>2, BoardStands
<1> QED
    BY <1>2, <1>3, <1>4, <1>8, <1>9, <1>10, <1>11, <1>12, <1>13 DEF BoardNext

LEMMA CellsExplain == BoardInv => CellsExplainRow
<1> SUFFICES ASSUME BoardInv, board # NoBoard, NEW u \in DOMAIN board.cells,
                    NEW cells, cells = board.cells[u]
             PROVE  /\ Plain(u) /\ board.moved # "back" =>
                         Cardinality(SolvedCells(cells)) >= board.rows[u].num_solved
                    /\ board.moved = "no" =>
                         /\ board.rows[u].num_solved = Cardinality(SolvedCells(cells))
                         /\ board.rows[u].penalty = PenaltyOf(cells)
    BY DEF CellsExplainRow, SolvedCells, PenaltyOf
<1>1. u \in Contestants /\ minute \in Nat /\ board.freeze \in Nat /\ board.freeze <= minute
    BY DEF BoardInv, BoardTypeOK, BoardMoves
<1>2. ASSUME Plain(u), board.moved # "back"
      PROVE  Cardinality(SolvedCells(cells)) >= board.rows[u].num_solved
    <2> DEFINE solved == SolvedCells(cells)
    <2>1. PICK S : Kept(u, S)
        BY <1>1, <1>2 DEF BoardInv, SolvedStays
    <2>2. S \subseteq solved
        BY <2>1 DEF Kept, Solved, SolvedCells
    <2>3. IsFiniteSet(solved)
        BY LeaderboardAssumption, FS_Subset DEF SolvedCells
    <2>4. Cardinality(S) <= Cardinality(solved) /\ Cardinality(S) \in Nat
          /\ Cardinality(solved) \in Nat
        BY <2>2, <2>3, FS_Subset, FS_CardinalityType
    <2> QED
        BY <2>1, <2>4 DEF Kept
<1>3. ASSUME board.moved = "no"
      PROVE  /\ board.rows[u].num_solved = Cardinality(SolvedCells(cells))
             /\ board.rows[u].penalty = PenaltyOf(cells)
    <2>1. board.rows[u] = IcpcRow(u, Until) /\ cells = IcpcCells(u, Until)
        BY <1>1, <1>3 DEF BoardInv, RowsStand
    <2>2. Until \in Nat /\ Until <= minute
        BY <1>1 DEF Until
    <2>3. BoardTypeOK
        BY DEF BoardInv
    <2> QED
        BY <1>1, <2>1, <2>2, <2>3, CellsOfRow
<1> QED
    BY <1>2, <1>3

\* The cells of a row explain its rank.
THEOREM CellsAlwaysExplain == BoardSpec => []CellsExplainRow
BY BoardInitInv, BoardNextInv, CellsExplain, PTL DEF BoardSpec

-----------------------------------------------------------------------------
(* The jury. Jury is a function of the sets of submissions, each set       *)
(* unfolded by taking its latest submission away: there is such a function *)
(* (VerdictsExist), as the sets are finite and the order is total, and     *)
(* what it says of every set is what the rules say of it in one step       *)
(* (RulesOf), by taking a smallest set for which it would not be so. The   *)
(* query's row is then compared with RulesOf, problem by problem.          *)

\* The jury's order, and what it says after the submissions of a set.
Earlier(i, j) == \/ subs[i].at < subs[j].at
                 \/ /\ subs[i].at = subs[j].at
                    /\ \/ subs[i].score > subs[j].score
                       \/ subs[i].score = subs[j].score /\ i < j
Latest(S) == CHOOSE i \in S : \A j \in S \ {i} : Earlier(j, i)
Ruled(verdict, S) ==
    IF S = {} THEN [solved |-> FALSE, points |-> 0]
    ELSE LET before == verdict[S \ {Latest(S)}]
         IN IF before.solved \/ subs[Latest(S)].compile_error THEN before
            ELSE IF subs[Latest(S)].score = 100
            THEN [solved |-> TRUE, points |-> before.points + subs[Latest(S)].at]
            ELSE [solved |-> FALSE, points |-> before.points + SubmissionPenalty]
RuledOn(Ss, verdict) == verdict = [S \in Ss |-> Ruled(verdict, S)]

LEMMA LatestIs ==
    ASSUME BoardTypeOK, NEW S \in SUBSET Made, S # {}
    PROVE  Latest(S) \in S /\ \A j \in S \ {Latest(S)} : Earlier(j, Latest(S))
<1>1. /\ Made \in SUBSET Nat /\ IsFiniteSet(Made)
      /\ \A i \in S : subs[i].at \in Nat /\ subs[i].score \in Nat /\ i \in Nat
    <2>1. Made = 1..Len(subs) /\ Len(subs) \in Nat
        BY DEF Made, BoardTypeOK
    <2>2. 1 \in Int /\ Len(subs) \in Int
        BY <2>1
    <2>3. IsFiniteSet(Made) /\ Made \in SUBSET Nat
        BY <2>1, <2>2, FS_Interval
    <2> QED
        BY <2>3, SubmittedFields
<1> DEFINE Times == {subs[i].at : i \in S}
           t == Max(Times)
           A == {i \in S : subs[i].at = t}
           Points == {subs[i].score : i \in A}
           s == Min(Points)
           B == {i \in A : subs[i].score = s}
           m == Max(B)
<1>2. t \in Times /\ \A y \in Times : t >= y
    <2>1. IsFiniteSet(S)
        BY <1>1, FS_Subset
    <2>2. IsFiniteSet(Times)
        <3> DEFINE at == [i \in S |-> subs[i].at]
        <3>1. Times = {at[i] : i \in S}
            OBVIOUS
        <3> HIDE DEF at, Times
        <3> QED
            BY <2>1, <3>1, ImageIsFinite
    <2>3. Times \in SUBSET Int /\ Times # {}
        <3>1. \A i \in S : subs[i].at \in Int
            BY <1>1
        <3> QED
            BY <3>1
    <2> HIDE DEF Times
    <2> QED
        BY <2>2, <2>3, LargestOf
<1> HIDE DEF t
<1>3. s \in Points /\ \A y \in Points : s <= y
    <2>1. Points \in SUBSET Nat /\ Points # {}
        BY <1>1, <1>2
    <2> HIDE DEF Points
    <2> QED
        BY <2>1, SmallestOf
<1> HIDE DEF s
<1>4. m \in B /\ \A y \in B : m >= y
    <2>1. B \in SUBSET Int /\ B # {} /\ B \in SUBSET Made
        <3>1. B \in SUBSET S
            OBVIOUS
        <3>2. PICK i \in A : subs[i].score = s
            BY <1>3
        <3>3. i \in B
            BY <3>2
        <3>4. S \in SUBSET Int
            BY <1>1
        <3> HIDE DEF B
        <3> QED
            BY <3>1, <3>3, <3>4
    <2>2. IsFiniteSet(B)
        <3> HIDE DEF B
        <3> QED
            BY <1>1, <2>1, FS_Subset
    <2> HIDE DEF B
    <2> QED
        BY <2>1, <2>2, LargestOf
<1> HIDE DEF m
<1>5. m \in S /\ \A j \in S \ {m} : Earlier(j, m)
    <2> SUFFICES ASSUME NEW j \in S, j # m PROVE m \in S /\ Earlier(j, m)
        BY <1>4
    <2>1. subs[m].at = t /\ subs[m].score = s /\ m \in S /\ m \in Nat
        BY <1>1, <1>4
    <2>2. subs[j].at \in Nat /\ subs[j].score \in Nat /\ j \in Nat /\ t \in Nat /\ s \in Nat
        BY <1>1, <2>1
    <2>3. subs[j].at <= t
        BY <1>2, <2>2
    <2>4. subs[j].at = t => s <= subs[j].score
        BY <1>3
    <2>5. subs[j].at = t /\ subs[j].score = s => j <= m
        BY <1>4, <2>1, <2>2
    <2> QED
        BY <2>1, <2>2, <2>3, <2>4, <2>5 DEF Earlier
<1> QED
    BY <1>5 DEF Latest

\* There is such a verdict: for the sets of at most n submissions, for every n.
LEMMA VerdictsExist ==
    ASSUME BoardTypeOK, NEW counted \in SUBSET Made
    PROVE  \E verdict : RuledOn(SUBSET counted, verdict)
<1> DEFINE Small(n) == {S \in SUBSET counted : Cardinality(S) <= n}
           Bad == {n \in Nat : ~ \E f : RuledOn(Small(n), f)}
<1>1. IsFiniteSet(counted)
    <2>1. Made = 1..Len(subs) /\ Len(subs) \in Nat
        BY DEF Made, BoardTypeOK
    <2>2. 1 \in Int /\ Len(subs) \in Int
        BY <2>1
    <2>3. IsFiniteSet(Made)
        BY <2>1, <2>2, FS_Interval
    <2> QED
        BY <2>3, FS_Subset
<1>2. \A S \in SUBSET counted : IsFiniteSet(S) /\ Cardinality(S) \in Nat
    BY <1>1, FS_Subset, FS_CardinalityType
<1>3. ASSUME NEW S \in SUBSET counted, S # {}
      PROVE  /\ S \ {Latest(S)} \in SUBSET counted
             /\ Cardinality(S \ {Latest(S)}) = Cardinality(S) - 1
    <2>1. Latest(S) \in S
        BY <1>3, LatestIs
    <2> QED
        BY <1>2, <2>1, FS_RemoveElement
<1>4. Bad = {}
    <2>1. SUFFICES ASSUME Bad # {} PROVE FALSE
        OBVIOUS
    <2>2. PICK n \in Bad : \A k \in Bad : n <= k
        <3>1. Bad \in SUBSET Nat
            OBVIOUS
        <3> HIDE DEF Bad
        <3> QED
            BY <2>1, <3>1, SmallestOf
    <2>3. n \in Nat
        OBVIOUS
    <2>4. CASE n = 0
        <3>1. \A S \in Small(0) : S = {}
            BY <1>2, FS_EmptySet
        <3>2. RuledOn(Small(0), [S \in Small(0) |-> [solved |-> FALSE, points |-> 0]])
            BY <3>1 DEF RuledOn, Ruled
        <3> HIDE DEF Small
        <3> QED
            BY <2>4, <3>2
    <2>5. CASE n # 0
        <3>1. PICK f : RuledOn(Small(n - 1), f)
            <4>1. n - 1 \in Nat /\ ~(n <= n - 1)
                BY <2>3, <2>5
            <4>2. n - 1 \notin Bad
                <5> HIDE DEF Bad
                <5> QED
                    BY <2>2, <4>1
            <4> HIDE DEF Small
            <4> QED
                BY <4>1, <4>2
        <3> DEFINE h == [S \in Small(n) |-> Ruled(f, S)]
        <3>2. \A S \in Small(n - 1) : S \in Small(n) /\ f[S] = h[S]
            <4>1. \A S \in Small(n - 1) : S \in Small(n)
                <5> SUFFICES ASSUME NEW S \in SUBSET counted, Cardinality(S) <= n - 1
                             PROVE  Cardinality(S) <= n
                    OBVIOUS
                <5>1. Cardinality(S) \in Nat
                    BY <1>2
                <5> QED
                    BY <2>3, <5>1
            <4>2. \A S \in Small(n - 1) : f[S] = Ruled(f, S)
                <5> HIDE DEF Small
                <5> QED
                    BY <3>1 DEF RuledOn
            <4> HIDE DEF Small
            <4> QED
                BY <4>1, <4>2
        <3>3. \A S \in Small(n) : Ruled(f, S) = Ruled(h, S)
            <4> SUFFICES ASSUME NEW S \in Small(n), S # {} PROVE Ruled(f, S) = Ruled(h, S)
                BY DEF Ruled
            <4>1. S \ {Latest(S)} \in Small(n - 1)
                <5>1. Cardinality(S) \in Nat /\ Cardinality(S) <= n /\ S \in SUBSET counted
                    BY <1>2
                <5>2. S \ {Latest(S)} \in SUBSET counted
                      /\ Cardinality(S \ {Latest(S)}) = Cardinality(S) - 1
                    BY <1>3, <5>1
                <5> QED
                    BY <2>3, <5>1, <5>2
            <4>2. f[S \ {Latest(S)}] = h[S \ {Latest(S)}]
                <5> HIDE DEF h, Small
                <5> QED
                    BY <3>2, <4>1
            <4> HIDE DEF h
            <4> QED
                BY <4>2 DEF Ruled
        <3>4. h = [S \in Small(n) |-> Ruled(h, S)]
            <4> DEFINE A(S) == Ruled(f, S)
            <4>1. h = [S \in Small(n) |-> A(S)]
                OBVIOUS
            <4> HIDE DEF h, Small
            <4> QED
                BY <3>3, <4>1
        <3> HIDE DEF h, Small
        <3> QED
            BY <3>4 DEF RuledOn
    <2> QED
        BY <2>4, <2>5
<1>5. Cardinality(counted) \in Nat /\ Small(Cardinality(counted)) = SUBSET counted
    BY <1>1, <1>2, FS_Subset
<1>6. \E f : RuledOn(Small(Cardinality(counted)), f)
    <2> DEFINE N == Cardinality(counted)
    <2>1. N \in Nat
        BY <1>5
    <2> HIDE DEF N, Small
    <2>2. \E f : RuledOn(Small(N), f)
        BY <1>4, <2>1
    <2> QED
        BY <2>2 DEF N
<1> QED
    BY <1>5, <1>6

\* What has a compile error does not solve a problem.
ErrorsUnsolved == \A i \in Made : subs[i].compile_error => subs[i].score # 100

Solutions(S) == {i \in S : subs[i].score = 100}
Attempts(S) == {i \in S : ~subs[i].compile_error}
AttemptsBefore(S, t) == {i \in S : ~subs[i].compile_error /\ subs[i].at < t}

\* The rules in one step: solved by the first solution, with a penalty for each attempt
\* made before it.
RulesOf(S, verdict) ==
    IF Solutions(S) = {}
    THEN verdict = [solved |-> FALSE, points |-> SubmissionPenalty * Cardinality(Attempts(S))]
    ELSE \E k \in Solutions(S) :
            /\ \A i \in Solutions(S) : subs[k].at <= subs[i].at
            /\ verdict = [solved |-> TRUE,
                          points |-> subs[k].at + SubmissionPenalty
                                        * Cardinality(AttemptsBefore(S, subs[k].at))]

LEMMA RulesStep ==
    ASSUME BoardTypeOK, ErrorsUnsolved, NEW S \in SUBSET Made, IsFiniteSet(S), S # {},
           NEW verdict, RulesOf(S \ {Latest(S)}, verdict[S \ {Latest(S)}])
    PROVE  RulesOf(S, Ruled(verdict, S))
<1> DEFINE last == Latest(S)
           T == S \ {last}
           before == verdict[T]
<1>1. last \in S /\ \A j \in T : Earlier(j, last)
    BY LatestIs
<1>2. /\ \A i \in S : /\ subs[i].at \in Nat /\ subs[i].score \in 0..100
                      /\ subs[i].compile_error => subs[i].score # 100
      /\ SubmissionPenalty \in Int
    BY SubmittedFields, LeaderboardAssumption DEF ErrorsUnsolved
<1>3. \A j \in T : subs[j].at <= subs[last].at
    BY <1>1, <1>2 DEF Earlier
<1>4. RulesOf(T, before)
    OBVIOUS
<1>5. Ruled(verdict, S) =
        IF before.solved \/ subs[last].compile_error THEN before
        ELSE IF subs[last].score = 100
        THEN [solved |-> TRUE, points |-> before.points + subs[last].at]
        ELSE [solved |-> FALSE, points |-> before.points + SubmissionPenalty]
    BY DEF Ruled
<1>6. IsFiniteSet(Attempts(T)) /\ Cardinality(Attempts(T)) \in Nat
    <2>1. Attempts(T) \in SUBSET S
        BY DEF Attempts
    <2> QED
        BY <2>1, FS_Subset, FS_CardinalityType
<1> HIDE DEF last, before
<1>7. CASE Solutions(T) # {}
    <2>1. PICK k \in Solutions(T) :
            /\ \A i \in Solutions(T) : subs[k].at <= subs[i].at
            /\ before = [solved |-> TRUE,
                         points |-> subs[k].at + SubmissionPenalty
                                       * Cardinality(AttemptsBefore(T, subs[k].at))]
        BY <1>4, <1>7 DEF RulesOf
    <2>2. k \in T /\ k \in Solutions(S) /\ subs[k].at <= subs[last].at
        BY <1>3, <2>1 DEF Solutions
    <2>3. \A i \in Solutions(S) : i = last \/ i \in Solutions(T)
        BY DEF Solutions
    <2>4. \A i \in Solutions(S) : subs[k].at <= subs[i].at
        BY <2>1, <2>2, <2>3
    <2>5. AttemptsBefore(S, subs[k].at) = AttemptsBefore(T, subs[k].at)
        BY <1>1, <1>2, <2>2 DEF AttemptsBefore
    <2>6. Ruled(verdict, S) = before
        BY <1>5, <2>1
    <2> QED
        BY <2>1, <2>2, <2>4, <2>5, <2>6 DEF RulesOf
<1>8. CASE Solutions(T) = {}
    <2>1. before = [solved |-> FALSE, points |-> SubmissionPenalty * Cardinality(Attempts(T))]
        BY <1>4, <1>8 DEF RulesOf
    <2> DEFINE points == SubmissionPenalty * Cardinality(Attempts(T))
    <2>2. CASE subs[last].compile_error
        <3>1. Solutions(S) = {}
            BY <1>1, <1>2, <1>8, <2>2 DEF Solutions
        <3>2. Attempts(S) = Attempts(T)
            BY <2>2 DEF Attempts
        <3>3. Ruled(verdict, S) = before
            BY <1>5, <2>2
        <3> QED
            BY <2>1, <3>1, <3>2, <3>3 DEF RulesOf
    <2>3. CASE ~subs[last].compile_error /\ subs[last].score = 100
        <3>1. Ruled(verdict, S) = [solved |-> TRUE, points |-> points + subs[last].at]
            BY <1>5, <2>1, <2>3
        <3>2. Solutions(S) = {last}
            BY <1>1, <1>8, <2>3 DEF Solutions
        <3>3. \A j \in T : subs[j].at < subs[last].at
            <4> SUFFICES ASSUME NEW j \in T PROVE subs[j].at < subs[last].at
                OBVIOUS
            <4>1. subs[j].score # 100 /\ subs[j].score \in 0..100
                BY <1>2, <1>8 DEF Solutions
            <4> QED
                BY <1>1, <2>3, <4>1 DEF Earlier
        <3>4. AttemptsBefore(S, subs[last].at) = Attempts(T)
            BY <1>1, <1>2, <3>3 DEF AttemptsBefore, Attempts
        <3>5. points + subs[last].at = subs[last].at + points
            BY <1>1, <1>2, <1>6
        <3>6. Ruled(verdict, S) = [solved |-> TRUE,
                  points |-> subs[last].at + SubmissionPenalty
                                * Cardinality(AttemptsBefore(S, subs[last].at))]
            BY <3>1, <3>4, <3>5
        <3>7. /\ Solutions(S) # {} /\ last \in Solutions(S)
              /\ \A i \in Solutions(S) : subs[last].at <= subs[i].at
            BY <1>1, <1>2, <3>2
        <3> QED
            BY <3>6, <3>7 DEF RulesOf
    <2>4. CASE ~subs[last].compile_error /\ subs[last].score # 100
        <3>1. Ruled(verdict, S) = [solved |-> FALSE, points |-> points + SubmissionPenalty]
            BY <1>5, <2>1, <2>4
        <3>2. Solutions(S) = {}
            BY <1>1, <1>8, <2>4 DEF Solutions
        <3>3. Attempts(S) = Attempts(T) \cup {last} /\ last \notin Attempts(T)
            BY <1>1, <2>4 DEF Attempts
        <3>4. Cardinality(Attempts(S)) = Cardinality(Attempts(T)) + 1
            BY <1>6, <3>3, FS_AddElement
        <3>5. points + SubmissionPenalty = SubmissionPenalty * Cardinality(Attempts(S))
            BY <1>2, <1>6, <3>4
        <3> QED
            BY <3>1, <3>2, <3>5 DEF RulesOf
    <2> QED
        BY <2>2, <2>3, <2>4
<1> QED
    BY <1>7, <1>8

LEMMA JuryRules ==
    ASSUME BoardTypeOK, ErrorsUnsolved, NEW u, NEW p, NEW until
    PROVE  RulesOf(Counted(u, p, until), Jury(u, p, until))
<1> DEFINE counted == Counted(u, p, until)
           verdict == CHOOSE f : RuledOn(SUBSET counted, f)
<1>1. counted \in SUBSET Made
    BY DEF Counted
<1>2. RuledOn(SUBSET counted, verdict)
    <2> HIDE DEF counted
    <2> QED
        BY <1>1, VerdictsExist
<1>3. Jury(u, p, until) = verdict[counted]
    BY DEF Jury, RuledOn, Ruled, Latest, Earlier, Counted
<1> HIDE DEF counted, verdict
<1>4. IsFiniteSet(counted)
    <2>1. Made = 1..Len(subs) /\ Len(subs) \in Nat
        BY DEF Made, BoardTypeOK
    <2>2. 1 \in Int /\ Len(subs) \in Int
        BY <2>1
    <2>3. IsFiniteSet(Made)
        BY <2>1, <2>2, FS_Interval
    <2> QED
        BY <1>1, <2>3, FS_Subset
<1>5. \A S \in SUBSET counted : IsFiniteSet(S) /\ Cardinality(S) \in Nat
    BY <1>4, FS_Subset, FS_CardinalityType
<1> DEFINE Bad == {S \in SUBSET counted : ~RulesOf(S, verdict[S])}
           Sizes == {Cardinality(S) : S \in Bad}
<1>6. Bad = {}
    <2>1. SUFFICES ASSUME Bad # {} PROVE FALSE
        OBVIOUS
    <2>2. PICK n \in Sizes : \A k \in Sizes : n <= k
        <3>1. Sizes \in SUBSET Nat /\ Sizes # {}
            BY <1>5, <2>1
        <3> HIDE DEF Sizes
        <3> QED
            BY <3>1, SmallestOf
    <2>3. PICK S \in Bad : n = Cardinality(S)
        OBVIOUS
    <2>4. /\ S \in SUBSET counted /\ S \in SUBSET Made /\ IsFiniteSet(S)
          /\ ~RulesOf(S, verdict[S]) /\ verdict[S] = Ruled(verdict, S)
        BY <1>1, <1>2, <1>5, <2>3 DEF RuledOn
    <2>5. S # {}
        <3>1. RulesOf({}, Ruled(verdict, {}))
            <4>1. Solutions({}) = {} /\ Attempts({}) = {} /\ Cardinality({}) = 0
                BY FS_EmptySet DEF Solutions, Attempts
            <4>2. SubmissionPenalty * 0 = 0
                BY LeaderboardAssumption
            <4> QED
                BY <4>1, <4>2 DEF RulesOf, Ruled
        <3> QED
            BY <2>4, <3>1
    <2>6. Latest(S) \in S
        BY <2>4, <2>5, LatestIs
    <2>7. S \ {Latest(S)} \in SUBSET counted /\ S \ {Latest(S)} \notin Bad
        <3>1. Cardinality(S \ {Latest(S)}) = Cardinality(S) - 1 /\ Cardinality(S) \in Nat
            BY <1>5, <2>4, <2>6, FS_RemoveElement
        <3>2. ~(Cardinality(S) <= Cardinality(S \ {Latest(S)}))
            BY <3>1
        <3> QED
            BY <2>2, <2>3, <2>4, <3>2
    <2>8. RulesOf(S \ {Latest(S)}, verdict[S \ {Latest(S)}])
        BY <2>7
    <2> HIDE DEF Bad
    <2> QED
        BY <2>4, <2>5, <2>8, RulesStep
<1>7. counted \in SUBSET counted
    OBVIOUS
<1> QED
    BY <1>3, <1>6, <1>7 DEF counted

\* The row ranks by the rules.
LEMMA RowRules ==
    ASSUME BoardTypeOK, ErrorsUnsolved, NEW u \in Contestants, Plain(u), NEW until \in Nat
    PROVE  LET solved == {p \in ContestProblems : Jury(u, p, until).solved} IN
           /\ IcpcRow(u, until).num_solved = Cardinality(solved)
           /\ IcpcRow(u, until).penalty =
                 SumFunction([p \in solved |-> Jury(u, p, until).points])
<1> DEFINE solved == {p \in ContestProblems : Jury(u, p, until).solved}
           time(p) == MaxScore(u, p, until).mintime
           before(p) == {i \in Made :
                Counts(i, u, p, minute) /\ ~subs[i].compile_error /\ subs[i].at < time(p)}
<1>1. ASSUME NEW p PROVE Jury(u, p, until).solved <=> Solutions(Counted(u, p, until)) # {}
    <2>1. RulesOf(Counted(u, p, until), Jury(u, p, until))
        BY JuryRules
    <2> QED
        BY <2>1 DEF RulesOf
<1>2. solved = Solved(u, until)
    BY <1>1, SolvedMeans DEF Solutions
<1>3. ASSUME NEW p \in Solved(u, until)
      PROVE  Jury(u, p, until).points
                = time(p) + SubmissionPenalty * Cardinality(before(p))
    <2> DEFINE S == Counted(u, p, until)
    <2>1. MaxScore(u, p, until).score = FullScore /\ S # {} /\ Solutions(S) # {}
        BY SolvedMeans DEF Solved, Solutions
    <2>2. PICK k \in Solutions(S) :
            /\ \A i \in Solutions(S) : subs[k].at <= subs[i].at
            /\ Jury(u, p, until) =
                    [solved |-> TRUE, points |-> subs[k].at + SubmissionPenalty
                                        * Cardinality(AttemptsBefore(S, subs[k].at))]
        BY <2>1, JuryRules DEF RulesOf
    <2>3. \A i \in S : i \in Made /\ subs[i].at \in Nat /\ subs[i].at <= until
        BY SubmittedFields DEF Counted, Counts
    <2>4. time(p) = subs[k].at
        <3>1. p \notin SumSubtasks
            BY <2>2, <2>3 DEF Solutions, Counted, Counts, Plain
        <3>2. PICK j \in S :
                /\ time(p) = subs[j].at
                /\ \A i \in S : /\ subs[j].score >= subs[i].score
                                /\ subs[i].score = subs[j].score => subs[j].at <= subs[i].at
            BY <2>1, <3>1, BestIs
        <3> HIDE DEF S
        <3>3. k \in S /\ subs[k].score = 100 /\ subs[j].score \in 0..100
            BY <2>2, <2>3, SubmittedFields DEF Solutions
        <3>4. subs[j].score = 100 /\ j \in Solutions(S)
            BY <3>2, <3>3 DEF Solutions
        <3>5. subs[j].at <= subs[k].at /\ subs[k].at <= subs[j].at
            BY <2>2, <3>2, <3>3, <3>4
        <3> QED
            BY <2>3, <3>2, <3>3, <3>5
    <2>5. k \in S /\ subs[k].at \in Nat /\ subs[k].at <= until
        BY <2>2, <2>3 DEF Solutions
    <2> HIDE DEF time
    <2>6. ASSUME NEW i \in Made
          PROVE  i \in before(p) <=> i \in AttemptsBefore(S, subs[k].at)
        <3>1. subs[i].at \in Nat /\ subs[i].at <= minute /\ minute \in Nat
            BY SubmittedFields DEF BoardTypeOK
        <3>2. subs[i].at < subs[k].at => subs[i].at <= until
            BY <2>3, <2>5, <3>1
        <3> QED
            BY <2>4, <3>1, <3>2 DEF AttemptsBefore, Counted, Counts
    <2>7. before(p) = AttemptsBefore(S, subs[k].at)
        BY <2>3, <2>6 DEF AttemptsBefore
    <2> HIDE DEF before
    <2> QED
        BY <2>2, <2>4, <2>7
<1>4. /\ IcpcRow(u, until).num_solved = Cardinality(Solved(u, until))
      /\ IcpcRow(u, until).penalty = SumFunction(
            [p \in Solved(u, until) |-> time(p) + SubmissionPenalty * Cardinality(before(p))])
    BY DEF IcpcRow
<1> HIDE DEF time, before
<1>5. [p \in Solved(u, until) |-> Jury(u, p, until).points]
        = [p \in Solved(u, until) |-> time(p) + SubmissionPenalty * Cardinality(before(p))]
    BY <1>3
<1> QED
    BY <1>2, <1>4, <1>5

LEMMA ErrorsInit == BoardInit => ErrorsUnsolved
BY DEF BoardInit, ErrorsUnsolved, Made

LEMMA ErrorsNext ==
    BoardTypeOK /\ ErrorsUnsolved /\ [BoardNext]_boardVars => ErrorsUnsolved'
<1> SUFFICES ASSUME BoardTypeOK, ErrorsUnsolved, [BoardNext]_boardVars
             PROVE  ErrorsUnsolved'
    OBVIOUS
<1>1. CASE MakeSubmission
    <2>1. PICK e : subs' = Append(subs, e) /\ e.compile_error = FALSE
        BY <1>1 DEF MakeSubmission
    <2>2. /\ \A i \in Made : i \in Made' /\ subs'[i] = subs[i]
          /\ \A i \in Made' : i \in Made \/ subs'[i] = e
        BY <2>1 DEF BoardTypeOK, Made
    <2> QED
        BY <2>1, <2>2 DEF ErrorsUnsolved
<1>2. CASE Judge
    <2>1. PICK j \in Made, score \in Scores, ce \in BOOLEAN :
            /\ ce => score # 100
            /\ subs' = [subs EXCEPT ![j].judged = TRUE, ![j].score = score,
                                    ![j].compile_error = ce]
        BY <1>2 DEF Judge
    <2>2. Made' = Made /\ \A i \in Made : i # j => subs'[i] = subs[i]
        BY <2>1 DEF Made
    <2>3. subs'[j].compile_error = ce /\ subs'[j].score = score
        <3>1. subs[j] \in Submitted
            BY DEF BoardTypeOK, Made
        <3> QED
            BY <2>1, <3>1 DEF Submitted, Made
    <2> QED
        BY <2>1, <2>2, <2>3 DEF ErrorsUnsolved
<1>3. CASE ResetSubmission
    <2>1. PICK j \in Made, scale \in Scales :
            subs' = [subs EXCEPT ![j].judged = FALSE, ![j].score = 0, ![j].compile_error = FALSE,
                                 ![j].scale = scale, ![j].parts = [s \in Subtasks |-> 0]]
        BY <1>3 DEF ResetSubmission
    <2>2. Made' = Made /\ \A i \in Made : i # j => subs'[i] = subs[i]
        BY <2>1 DEF Made
    <2>3. subs'[j].compile_error = FALSE
        <3>1. subs[j] \in Submitted
            BY DEF BoardTypeOK, Made
        <3> QED
            BY <2>1, <3>1 DEF Submitted, Made
    <2> QED
        BY <2>1, <2>2, <2>3 DEF ErrorsUnsolved
<1>4. CASE ScoreSubtask
    <2>1. PICK j \in Made, s \in Subtasks, x \in PartScores :
            subs' = [subs EXCEPT ![j].parts[s] = x]
        BY <1>4 DEF ScoreSubtask
    <2>2. Made' = Made /\ \A i \in Made : i # j => subs'[i] = subs[i]
        BY <2>1 DEF Made
    <2>3. subs'[j].compile_error = subs[j].compile_error /\ subs'[j].score = subs[j].score
        <3>1. subs[j] \in Submitted
            BY DEF BoardTypeOK, Made
        <3> QED
            BY <2>1, <3>1 DEF Submitted, Made
    <2> QED
        BY <2>2, <2>3 DEF ErrorsUnsolved
<1>5. CASE UNCHANGED subs
    BY <1>5 DEF ErrorsUnsolved, Made
<1> QED
    BY <1>1, <1>2, <1>3, <1>4, <1>5
       DEF BoardNext, ReadRows, ReadCells, Deliver, NextMinute, boardVars

LEMMA RulesFollow == BoardTypeOK /\ ErrorsUnsolved => IcpcByTheRules
<1> SUFFICES ASSUME BoardTypeOK, ErrorsUnsolved, NEW u \in Contestants,
                    NEW until \in {minute, Freeze} \ {0}, Plain(u)
             PROVE  LET solved == {p \in ContestProblems : Jury(u, p, until).solved} IN
                    /\ IcpcRow(u, until).num_solved = Cardinality(solved)
                    /\ IcpcRow(u, until).penalty =
                          SumFunction([p \in solved |-> Jury(u, p, until).points])
    BY DEF IcpcByTheRules
<1>1. until \in Nat
    BY LeaderboardAssumption DEF BoardTypeOK
<1> QED
    BY <1>1, RowRules

\* The query ranks a contestant who is scored whole and out of 100 as the jury does,
\* whatever the order in which the submissions were judged and whichever were reset, on a
\* frozen board too.
THEOREM RowsByTheRules == BoardSpec => []IcpcByTheRules
<1>1. BoardInit => BoardTypeOK /\ ErrorsUnsolved
    BY BoardInitInv, ErrorsInit DEF BoardInv
<1>2. BoardTypeOK /\ ErrorsUnsolved /\ [BoardNext]_boardVars
        => (BoardTypeOK /\ ErrorsUnsolved)'
    BY BoardTypeNext, ErrorsNext
<1> QED
    BY <1>1, <1>2, RulesFollow, PTL DEF BoardSpec

-----------------------------------------------------------------------------
(* TestScores. The loop over an archive's tests is a function of the       *)
(* number of rounds; LoopInv is its invariant, kept by each round, and     *)
(* what the tests are worth is counted test by test: what was given, and a *)
(* share for each mark.                                                    *)

\* Division rounded up: the multiple covers, by less than one divisor.
LEMMA UpToBounds ==
    ASSUME NEW a \in Nat, NEW b \in Nat \ {0}
    PROVE  /\ UpTo(a, b) \in Nat
           /\ b * UpTo(a, b) >= a /\ b * UpTo(a, b) < a + b
<1> DEFINE n == a + b - 1
           q == n \div b
<1>1. n \in Nat
    OBVIOUS
<1>2. n = b * q + (n % b) /\ n % b \in 0..(b - 1) /\ q \in Int
    <2> HIDE DEF n
    <2> QED
        BY <1>1
<1>3. q \in Nat
    <2>1. ASSUME q < 0 PROVE FALSE
        <3>1. b * q <= b * (-1)
            BY <1>2, <2>1
        <3> QED
            BY <1>1, <1>2, <3>1
    <2> QED
        BY <1>2, <2>1
<1>4. b * q \in Int
    BY <1>3
<1>5. b * q = (a + b - 1) - (n % b) /\ n % b \in 0..(b - 1)
    BY <1>2, <1>4
<1> QED
    BY <1>3, <1>4, <1>5 DEF UpTo

\* The part to take is at least one, and neither more than the surplus nor than a point.
LEMMA PartFits ==
    ASSUME NEW s \in Nat \ {0}, NEW p \in Nat \ {0}
    PROVE  Nearest(s, UpTo(s, p)) \in Nat /\ Nearest(s, UpTo(s, p)) \in 1..s
           /\ Nearest(s, UpTo(s, p)) <= p
<1> DEFINE c == UpTo(s, p)
           n == 2 * s + c
           q == n \div (2 * c)
<1>1. c \in Nat /\ p * c >= s /\ p * c < s + p
    BY UpToBounds
<1>2. c >= 1
    <2>1. ASSUME c = 0 PROVE FALSE
        <3>1. p * c = 0
            BY <2>1
        <3> QED
            BY <1>1, <3>1
    <2> HIDE DEF c
    <2> QED
        BY <1>1, <2>1
<1> HIDE DEF c
<1>3. n \in Nat /\ 2 * c \in Nat \ {0}
    BY <1>1, <1>2
<1>4. n = (2 * c) * q + (n % (2 * c)) /\ n % (2 * c) \in 0..(2 * c - 1) /\ q \in Int
    <2> DEFINE d == 2 * c
    <2>1. n \in Nat /\ d \in Nat \ {0}
        BY <1>3
    <2>2. n = d * (n \div d) + (n % d) /\ n % d \in 0..(d - 1) /\ n \div d \in Int
        <3> HIDE DEF n, d
        <3> QED
            BY <2>1
    <2> QED
        BY <2>2
<1> DEFINE r == n % (2 * c)
<1>5. 2 * s + c = (2 * c) * q + r /\ r \in 0..(2 * c - 1) /\ q \in Int
    BY <1>4
<1> HIDE DEF q, r, n
<1>6. q >= 1
    <2>1. ASSUME q <= 0 PROVE FALSE
        <3>1. (2 * c) * q <= 0
            BY <1>1, <1>5, <2>1
        <3>2. (2 * c) * q \in Int
            BY <1>1, <1>5
        <3> QED
            BY <1>1, <1>2, <1>5, <3>1, <3>2
    <2> QED
        BY <1>5, <2>1
<1>7. q <= s
    <2>1. ASSUME q >= s + 1 PROVE FALSE
        <3>1. (2 * c) * q >= (2 * c) * (s + 1)
            BY <1>1, <1>5, <2>1
        <3>2. (2 * c) * (s + 1) >= 2 * (s + 1) + (2 * c - 2)
            BY <1>1, <1>2
        <3>3. (2 * c) * q \in Int /\ (2 * c) * (s + 1) \in Int
            BY <1>1, <1>5
        <3> QED
            BY <1>1, <1>2, <1>5, <3>1, <3>2, <3>3
    <2> QED
        BY <1>5, <2>1
<1>8. q <= p
    <2>1. ASSUME q >= p + 1 PROVE FALSE
        <3>1. (2 * c) * q >= (2 * c) * (p + 1)
            BY <1>1, <1>5, <2>1
        <3>2. (2 * c) * (p + 1) = 2 * (p * c) + 2 * c
            BY <1>1
        <3>3. (2 * c) * q \in Int /\ p * c \in Int
            BY <1>1, <1>5
        <3> QED
            BY <1>1, <1>2, <1>5, <3>1, <3>2, <3>3
    <2> QED
        BY <1>5, <2>1
<1>9. Nearest(s, UpTo(s, p)) = q
    BY DEF Nearest, c, n, q
<1> QED
    BY <1>5, <1>6, <1>7, <1>8, <1>9

\* The loop's states are what its rounds make of them: there is such a function.
LEMMA FilledUnfolds ==
    ASSUME given \in Seq(Int)
    PROVE  /\ Filled[0] = [scores |-> <<>>, surplus |-> Surplus, part |-> ToSubtract]
           /\ \A n \in 1..Len(given) : Filled[n] = FillOne(Filled[n - 1], given[n])
<1> DEFINE N == Len(given)
           First == [scores |-> <<>>, surplus |-> Surplus, part |-> ToSubtract]
           Step(f, n) == IF n = 0 THEN First ELSE FillOne(f[n - 1], given[n])
           Loops(m, f) == f = [n \in 0..m |-> Step(f, n)]
           Bad == {m \in Nat : ~ \E f : Loops(m, f)}
<1>1. N \in Nat
    OBVIOUS
<1>2. Bad = {}
    <2>1. SUFFICES ASSUME Bad # {} PROVE FALSE
        OBVIOUS
    <2>2. PICK m \in Bad : \A k \in Bad : ~ (<<k, m>> \in OpToRel(<, Nat))
        <3>1. Bad \subseteq Nat
            OBVIOUS
        <3> HIDE DEF Bad
        <3> QED
            BY <2>1, <3>1, NatLessThanWellFounded, WFMin
    <2>3. m \in Nat /\ \A k \in Nat : k < m => k \notin Bad
        BY <2>2 DEF OpToRel
    <2>4. CASE m = 0
        <3> DEFINE f == [n \in 0..0 |-> First]
        <3> HIDE DEF First
        <3>1. f = [n \in 0..0 |-> Step(f, n)]
            OBVIOUS
        <3>2. Loops(0, f)
            BY <3>1
        <3> HIDE DEF Loops
        <3> QED
            BY <2>2, <2>4, <3>2
    <2>5. CASE m # 0
        <3>1. m - 1 \in Nat /\ m - 1 \notin Bad
            <4>1. m - 1 \in Nat /\ m - 1 < m
                BY <2>3, <2>5
            <4> HIDE DEF Bad
            <4> QED
                BY <2>3, <4>1
        <3>2. PICK f : Loops(m - 1, f)
            <4> HIDE DEF Loops
            <4> QED
                BY <3>1
        <3> DEFINE h == [n \in 0..m |-> Step(f, n)]
        <3> HIDE DEF First
        <3>3. \A n \in 0..(m - 1) : f[n] = h[n]
            BY <2>3, <3>2
        <3>4. \A n \in 0..m : Step(f, n) = Step(h, n)
            <4>1. \A n \in 0..m : n # 0 => n - 1 \in 0..(m - 1)
                BY <2>3
            <4> HIDE DEF h
            <4> QED
                BY <3>3, <4>1
        <3>5. h = [n \in 0..m |-> Step(h, n)]
            <4> HIDE DEF Step
            <4> DEFINE A(n) == Step(f, n)
            <4>1. h = [n \in 0..m |-> A(n)]
                OBVIOUS
            <4> HIDE DEF h
            <4> QED
                BY <3>4, <4>1
        <3>6. Loops(m, h)
            BY <3>5
        <3> HIDE DEF Loops, h
        <3> QED
            BY <2>2, <3>6
    <2> QED
        BY <2>4, <2>5
<1>3. \E f : Loops(N, f)
    BY <1>1, <1>2
<1>4. Filled = CHOOSE f : Loops(N, f)
    BY DEF Filled
<1>5. Loops(N, Filled)
    <2> HIDE DEF Loops
    <2> QED
        BY <1>3, <1>4
<1>6. \A n \in 0..N : Filled[n] = Step(Filled, n)
    <2> HIDE DEF Step
    <2> QED
        BY <1>5
<1> QED
    BY <1>1, <1>6

\* The archives the promise is about.
Marked == \E i \in DOMAIN given : given[i] = Unscored(point)
Dividable ==
    /\ point \in Nat \ {0} /\ given \in Seq(Int) /\ TotalScore >= 0 /\ Marked
    /\ \A i \in DOMAIN given : given[i] = Unscored(point) \/ given[i] > 0

MarkedOf(n) == {i \in 1..n : given[i] = Unscored(point)}
GivenOf(n) == {i \in 1..n : given[i] > 0}

\* What the tests are worth before anything is taken from them.
Before(n) == SumFunctionOnSet(given, GivenOf(n)) + PerTest * Cardinality(MarkedOf(n))

Fits(i, score) ==
    IF given[i] = Unscored(point) THEN score \in (PerTest - 2 * point + 1)..PerTest
    ELSE score = given[i]

\* A round takes a part, or everything has been taken: then the last part took the rest,
\* which stays in the variable, and no part is left to take.
LoopInv(n, so) ==
    /\ so \in [scores : Seq(Int), surplus : Int, part : Int]
    /\ Len(so.scores) = n /\ \A i \in 1..n : Fits(i, so.scores[i])
    /\ \/ /\ so.surplus = 0 \/ (so.surplus > 0 /\ so.part = 0)
          /\ SumFunctionOnSet(so.scores, 1..n) = Before(n) - Surplus
       \/ /\ so.part = ToSubtract /\ so.part >= 1 /\ so.part <= point
          /\ so.surplus >= so.part
          /\ so.surplus + Cardinality(MarkedOf(n)) <= Surplus
          /\ SumFunctionOnSet(so.scores, 1..n) = Before(n) - (Surplus - so.surplus)

LEMMA SharesCover ==
    ASSUME Dividable
    PROVE  /\ Shares \in Nat \ {0} /\ Shares = Cardinality(MarkedOf(Len(given)))
           /\ TotalScore \in Nat /\ GivenOf(Len(given)) = Positive
           /\ PerTest \in Nat /\ PerTest * Shares \in Nat
           /\ Surplus \in Nat /\ Surplus < Shares
<1> DEFINE N == Len(given)
<1>1. given \in Seq(Int) /\ N \in Nat /\ DOMAIN given = 1..N /\ point \in Nat \ {0}
    BY DEF Dividable
<1>2. \A i \in 1..N : given[i] \in Int
    BY <1>1
<1>3. DOMAIN given \ Positive = MarkedOf(N) /\ GivenOf(N) = Positive
    BY <1>1, <1>2 DEF Dividable, Positive, MarkedOf, GivenOf, Unscored
<1>4. IsFiniteSet(MarkedOf(N)) /\ IsFiniteSet(GivenOf(N))
    <2>1. IsFiniteSet(1..N) /\ MarkedOf(N) \subseteq 1..N /\ GivenOf(N) \subseteq 1..N
        BY <1>1, FS_Interval DEF MarkedOf, GivenOf
    <2> QED
        BY <2>1, FS_Subset
<1>5. MarkedOf(N) # {}
    BY <1>1 DEF Dividable, Marked, MarkedOf
<1>6. Shares \in Nat \ {0} /\ Shares = Cardinality(MarkedOf(N))
    BY <1>3, <1>4, <1>5, FS_CardinalityType, FS_EmptySet DEF Shares
<1>7. TotalScore \in Nat
    <2>1. SumFunctionOnSet(given, Positive) \in Int
        BY <1>2, <1>3, <1>4, SumIsInt DEF GivenOf
    <2>2. TotalScore \in Int
        BY <1>1, <2>1 DEF TotalScore
    <2> QED
        BY <2>2 DEF Dividable
<1>8. PerTest = UpTo(TotalScore, Shares)
    BY <1>7 DEF PerTest, AwayFromZero
<1>9. /\ PerTest \in Nat /\ Shares * PerTest >= TotalScore
      /\ Shares * PerTest < TotalScore + Shares
    BY <1>6, <1>7, <1>8, UpToBounds
<1>10. PerTest * Shares = Shares * PerTest /\ PerTest * Shares \in Nat
    BY <1>6, <1>9
<1>11. Surplus \in Nat /\ Surplus < Shares
    <2>1. ASSUME NEW x \in Nat, x >= TotalScore, x < TotalScore + Shares
          PROVE  x - TotalScore \in Nat /\ x - TotalScore < Shares
        BY <1>6, <1>7, <2>1
    <2> QED
        BY <1>9, <1>10, <2>1 DEF Surplus
<1> QED
    BY <1>3, <1>6, <1>7, <1>9, <1>10, <1>11

LEMMA LoopStarts ==
    ASSUME Dividable, NEW so,
           so = [scores |-> <<>>, surplus |-> Surplus, part |-> ToSubtract]
    PROVE  LoopInv(0, so)
<1>1. Surplus \in Nat /\ PerTest \in Nat /\ point \in Nat \ {0}
    BY SharesCover DEF Dividable
<1>2. MarkedOf(0) = {} /\ GivenOf(0) = {} /\ 1..0 = {}
    BY DEF MarkedOf, GivenOf
<1>3. Cardinality(MarkedOf(0)) = 0 /\ Before(0) = 0
    <2>1. Cardinality(MarkedOf(0)) = 0
        BY <1>2, FS_EmptySet
    <2>2. SumFunctionOnSet(given, GivenOf(0)) = 0
        BY <1>2, SumOfNothing
    <2> QED
        BY <1>1, <2>1, <2>2 DEF Before
<1>4. SumFunctionOnSet(<<>>, 1..0) = 0
    BY <1>2, SumOfNothing
<1>5. CASE Surplus = 0
    <2>1. ToSubtract = 0
        BY <1>5 DEF ToSubtract
    <2>2. so \in [scores : Seq(Int), surplus : Int, part : Int]
        BY <1>1, <2>1
    <2> QED
        BY <1>1, <1>3, <1>4, <1>5, <2>1, <2>2 DEF LoopInv
<1>6. CASE Surplus # 0
    <2>1. ToSubtract = Nearest(Surplus, UpTo(Surplus, point))
        BY <1>1, <1>6 DEF ToSubtract
    <2>2. ToSubtract \in Nat /\ ToSubtract \in 1..Surplus /\ ToSubtract <= point
        BY <1>1, <1>6, <2>1, PartFits
    <2>3. so \in [scores : Seq(Int), surplus : Int, part : Int]
        BY <1>1, <2>2
    <2> QED
        BY <1>1, <1>3, <1>4, <2>2, <2>3 DEF LoopInv
<1> QED
    BY <1>5, <1>6

\* A round appends a score: what the tests so far are worth grows by it.
LEMMA RoundAppends ==
    ASSUME NEW n \in Nat \ {0}, NEW scores \in Seq(Int), Len(scores) = n - 1, NEW score \in Int
    PROVE  /\ Append(scores, score) \in Seq(Int) /\ Len(Append(scores, score)) = n
           /\ \A i \in 1..(n - 1) : Append(scores, score)[i] = scores[i]
           /\ Append(scores, score)[n] = score
           /\ SumFunctionOnSet(scores, 1..(n - 1)) \in Int
           /\ SumFunctionOnSet(Append(scores, score), 1..n)
                = SumFunctionOnSet(scores, 1..(n - 1)) + score
<1> DEFINE more == Append(scores, score)
<1>1. /\ more \in Seq(Int) /\ Len(more) = n /\ more[n] = score
      /\ \A i \in 1..(n - 1) : more[i] = scores[i] /\ scores[i] \in Int
      /\ n \in Nat
    OBVIOUS
<1> HIDE DEF more
<1>2. IsFiniteSet(1..n) /\ IsFiniteSet(1..(n - 1)) /\ (1..n) \ {n} = 1..(n - 1)
    <2>1. n \in Int /\ n - 1 \in Int /\ 1 \in Int
        BY <1>1
    <2>2. IsFiniteSet(1..n) /\ IsFiniteSet(1..(n - 1))
        BY <2>1, FS_Interval
    <2>3. (1..n) \ {n} = 1..(n - 1)
        BY <1>1
    <2> QED
        BY <2>2, <2>3
<1>3. \A i \in 1..n : more[i] \in Int
    BY <1>1
<1>4. SumFunctionOnSet(more, 1..n) = more[n] + SumFunctionOnSet(more, 1..(n - 1))
    <2>1. n \in 1..n
        BY <1>1
    <2>2. SumFunctionOnSet(more, 1..n) = more[n] + SumFunctionOnSet(more, (1..n) \ {n})
        BY <1>2, <1>3, <2>1, SumTakes
    <2> QED
        BY <1>2, <2>2
<1>5. SumFunctionOnSet(more, 1..(n - 1)) = SumFunctionOnSet(scores, 1..(n - 1))
    BY <1>1, <1>2, SumSame
<1>6. SumFunctionOnSet(scores, 1..(n - 1)) \in Int
    BY <1>1, <1>2, SumIsInt
<1> QED
    BY <1>1, <1>4, <1>5, <1>6 DEF more

\* One more test: a mark more to share among, or what was given.
LEMMA BeforeGrows ==
    ASSUME Dividable, NEW n \in 1..Len(given)
    PROVE  /\ Cardinality(MarkedOf(n - 1)) \in Nat /\ Before(n - 1) \in Int /\ Before(n) \in Int
           /\ given[n] = Unscored(point) =>
                /\ Before(n) = Before(n - 1) + PerTest
                /\ Cardinality(MarkedOf(n)) = Cardinality(MarkedOf(n - 1)) + 1
           /\ given[n] # Unscored(point) =>
                /\ Before(n) = Before(n - 1) + given[n] /\ given[n] \in Int
                /\ Cardinality(MarkedOf(n)) = Cardinality(MarkedOf(n - 1))
<1>1. /\ given \in Seq(Int) /\ DOMAIN given = 1..Len(given) /\ Len(given) \in Nat
      /\ n \in Nat \ {0} /\ point \in Nat \ {0}
    BY DEF Dividable
<1>2. \A i \in 1..n : given[i] \in Int /\ (given[i] = Unscored(point) \/ given[i] > 0)
    BY <1>1 DEF Dividable
<1>3. /\ IsFiniteSet(MarkedOf(n - 1)) /\ IsFiniteSet(GivenOf(n - 1))
      /\ IsFiniteSet(MarkedOf(n)) /\ IsFiniteSet(GivenOf(n))
    <2>1. /\ IsFiniteSet(1..n) /\ IsFiniteSet(1..(n - 1))
          /\ MarkedOf(n - 1) \subseteq 1..(n - 1) /\ GivenOf(n - 1) \subseteq 1..(n - 1)
          /\ MarkedOf(n) \subseteq 1..n /\ GivenOf(n) \subseteq 1..n
        <3>1. n \in Int /\ n - 1 \in Int /\ 1 \in Int
            BY <1>1
        <3> QED
            BY <3>1, FS_Interval DEF MarkedOf, GivenOf
    <2> QED
        BY <2>1, FS_Subset
<1>4. /\ Cardinality(MarkedOf(n - 1)) \in Nat /\ Cardinality(MarkedOf(n)) \in Nat
      /\ PerTest \in Nat
    BY <1>3, FS_CardinalityType, SharesCover
<1>5. /\ SumFunctionOnSet(given, GivenOf(n - 1)) \in Int
      /\ SumFunctionOnSet(given, GivenOf(n)) \in Int
    <2>1. GivenOf(n - 1) \subseteq 1..n /\ GivenOf(n) \subseteq 1..n
        BY <1>1 DEF GivenOf
    <2>2. \A i \in GivenOf(n - 1) : given[i] \in Int
        BY <1>2, <2>1
    <2>3. \A i \in GivenOf(n) : given[i] \in Int
        BY <1>2, <2>1
    <2> QED
        BY <1>3, <2>2, <2>3, SumIsInt
<1>6. Before(n - 1) \in Int /\ Before(n) \in Int
    BY <1>4, <1>5 DEF Before
<1>7. 1..n = (1..(n - 1)) \cup {n} /\ n \notin 1..(n - 1)
    BY <1>1
<1>8. CASE given[n] = Unscored(point)
    <2>1. MarkedOf(n) = MarkedOf(n - 1) \cup {n} /\ n \notin MarkedOf(n - 1)
        BY <1>7, <1>8 DEF MarkedOf
    <2>2. GivenOf(n) = GivenOf(n - 1)
        BY <1>1, <1>7, <1>8 DEF GivenOf, Unscored
    <2>3. Cardinality(MarkedOf(n)) = Cardinality(MarkedOf(n - 1)) + 1
        BY <1>3, <2>1, FS_AddElement
    <2>4. PerTest * Cardinality(MarkedOf(n)) = PerTest * Cardinality(MarkedOf(n - 1)) + PerTest
        BY <1>4, <2>3
    <2>5. Before(n) = Before(n - 1) + PerTest
        BY <1>4, <1>5, <2>2, <2>4 DEF Before
    <2> QED
        BY <1>4, <1>6, <1>8, <2>3, <2>5
<1>9. CASE given[n] # Unscored(point)
    <2>1. n \in GivenOf(n) /\ GivenOf(n) \ {n} = GivenOf(n - 1)
        BY <1>1, <1>2, <1>7, <1>9 DEF GivenOf
    <2>2. MarkedOf(n) = MarkedOf(n - 1)
        BY <1>7, <1>9 DEF MarkedOf
    <2>3. given[n] \in Int /\ \A i \in GivenOf(n) : given[i] \in Int
        BY <1>1, <1>2 DEF GivenOf
    <2>4. SumFunctionOnSet(given, GivenOf(n)) = given[n] + SumFunctionOnSet(given, GivenOf(n - 1))
        <3>1. SumFunctionOnSet(given, GivenOf(n))
                = given[n] + SumFunctionOnSet(given, GivenOf(n) \ {n})
            BY <1>3, <2>1, <2>3, SumTakes
        <3> QED
            BY <2>1, <3>1
    <2>5. Before(n) = Before(n - 1) + given[n]
        BY <1>4, <1>5, <2>2, <2>3, <2>4 DEF Before
    <2> QED
        BY <1>4, <1>6, <1>9, <2>2, <2>3, <2>5
<1> QED
    BY <1>8, <1>9

LEMMA RoundKeeps ==
    ASSUME Dividable, NEW n \in 1..Len(given), NEW so, LoopInv(n - 1, so)
    PROVE  LoopInv(n, FillOne(so, given[n]))
<1> DEFINE left == so.surplus - so.part
           pour == left # 0 /\ left < so.part /\ -left < so.part
           unscored == given[n] = Unscored(point)
           taken == IF ~unscored \/ so.surplus = 0 THEN 0
                    ELSE so.part + (IF pour THEN left ELSE 0)
           score == IF unscored THEN PerTest - taken ELSE given[n]
           more == Append(so.scores, score)
           next == FillOne(so, given[n])
           c == Cardinality(MarkedOf(n - 1))
           d == Cardinality(MarkedOf(n))
           finished == so.surplus = 0 \/ (so.surplus > 0 /\ so.part = 0)
           sum == SumFunctionOnSet(so.scores, 1..(n - 1))
           total == SumFunctionOnSet(more, 1..n)
           before == Before(n - 1)
           after == Before(n)
<1>1. /\ so \in [scores : Seq(Int), surplus : Int, part : Int] /\ Len(so.scores) = n - 1
      /\ \A i \in 1..(n - 1) : Fits(i, so.scores[i])
      /\ so.scores \in Seq(Int) /\ so.surplus \in Int /\ so.part \in Int
    BY DEF LoopInv
<1>2. /\ PerTest \in Nat /\ Surplus \in Nat /\ point \in Nat \ {0} /\ n \in Nat \ {0}
      /\ given[n] \in Int
    BY SharesCover DEF Dividable
<1>3. left \in Int /\ taken \in Int /\ score \in Int
    BY <1>1, <1>2
<1>4. /\ more \in Seq(Int) /\ Len(more) = n /\ more[n] = score
      /\ \A i \in 1..(n - 1) : more[i] = so.scores[i]
      /\ sum \in Int /\ total = sum + score
    <2>1. so.scores \in Seq(Int) /\ Len(so.scores) = n - 1 /\ score \in Int
        BY <1>1, <1>3
    <2> DEFINE scores == so.scores
    <2> HIDE DEF score, scores
    <2>2. scores \in Seq(Int) /\ Len(scores) = n - 1
        BY <2>1 DEF scores
    <2>3. /\ Append(scores, score) \in Seq(Int) /\ Len(Append(scores, score)) = n
          /\ \A i \in 1..(n - 1) : Append(scores, score)[i] = scores[i]
          /\ Append(scores, score)[n] = score
          /\ SumFunctionOnSet(scores, 1..(n - 1)) \in Int
          /\ SumFunctionOnSet(Append(scores, score), 1..n)
               = SumFunctionOnSet(scores, 1..(n - 1)) + score
        <3>1. n \in Nat \ {0} /\ scores \in Seq(Int) /\ Len(scores) = n - 1 /\ score \in Int
            BY <1>2, <2>1, <2>2
        <3>2. Append(scores, score)[n] = score
            BY <3>1, RoundAppends
        <3>3. SumFunctionOnSet(scores, 1..(n - 1)) \in Int
            BY <3>1, RoundAppends
        <3>4. SumFunctionOnSet(Append(scores, score), 1..n)
               = SumFunctionOnSet(scores, 1..(n - 1)) + score
            BY <3>1, RoundAppends
        <3>5. Append(scores, score) \in Seq(Int) /\ Len(Append(scores, score)) = n
            BY <3>1, RoundAppends
        <3>6. \A i \in 1..(n - 1) : Append(scores, score)[i] = scores[i]
            BY <3>1, RoundAppends
        <3> QED
            BY <3>2, <3>3, <3>4, <3>5, <3>6
    <2> QED
        BY <2>3 DEF scores
<1>5. /\ c \in Nat /\ before \in Int /\ after \in Int
      /\ unscored => after = before + PerTest /\ d = c + 1
      /\ ~unscored => after = before + given[n] /\ d = c
    BY BeforeGrows
<1>6. after = before + score + taken
    <2> HIDE DEF before, after
    <2>1. CASE unscored
        <3>1. score = PerTest - taken /\ after = before + PerTest
            BY <1>5, <2>1
        <3> HIDE DEF score, taken
        <3> QED
            BY <1>2, <1>3, <1>5, <3>1
    <2>2. CASE ~unscored
        <3>1. score = given[n] /\ taken = 0 /\ after = before + given[n]
            BY <1>5, <2>2
        <3> HIDE DEF score, taken
        <3> QED
            BY <1>2, <1>5, <3>1
    <2> QED
        BY <2>1, <2>2
<1> HIDE DEF more
<1>7. next = [scores |-> more,
              surplus |-> IF unscored /\ so.surplus # 0 THEN left ELSE so.surplus,
              part |-> IF unscored /\ so.surplus # 0 /\ pour THEN 0 ELSE so.part]
    <2>1. so = [scores |-> so.scores, surplus |-> so.surplus, part |-> so.part]
        BY <1>1
    <2>2. CASE ~unscored
        <3>1. next = [so EXCEPT !.scores = more] /\ score = given[n]
            BY <2>2 DEF FillOne, more
        <3> QED
            BY <2>1, <2>2, <3>1
    <2>3. CASE unscored /\ so.surplus = 0
        <3>1. next = [so EXCEPT !.scores = Append(so.scores, PerTest)] /\ score = PerTest
            BY <1>2, <2>3 DEF FillOne
        <3>2. next = [so EXCEPT !.scores = more]
            BY <3>1 DEF more
        <3> HIDE DEF next
        <3> QED
            BY <2>1, <2>3, <3>2
    <2>4. CASE unscored /\ so.surplus # 0
        <3>1. next = [scores |-> Append(so.scores, PerTest - so.part
                                                   - (IF pour THEN left ELSE 0)),
                      surplus |-> left, part |-> IF pour THEN 0 ELSE so.part]
            BY <2>4 DEF FillOne
        <3>2. score = PerTest - so.part - (IF pour THEN left ELSE 0)
            BY <1>1, <1>2, <2>4
        <3> HIDE DEF next, score, left
        <3> QED
            BY <2>4, <3>1, <3>2 DEF more
    <2> QED
        BY <2>2, <2>3, <2>4
<1>8. /\ next \in [scores : Seq(Int), surplus : Int, part : Int] /\ next.scores = more
      /\ next.surplus = IF unscored /\ so.surplus # 0 THEN left ELSE so.surplus
      /\ next.part = IF unscored /\ so.surplus # 0 /\ pour THEN 0 ELSE so.part
    <2> HIDE DEF next, left, pour
    <2> QED
        BY <1>1, <1>3, <1>4, <1>7
<1>9. SUFFICES /\ Fits(n, score)
               /\ \/ /\ next.surplus = 0 \/ (next.surplus > 0 /\ next.part = 0)
                     /\ total = after - Surplus
                  \/ /\ next.part = ToSubtract /\ next.part >= 1 /\ next.part <= point
                     /\ next.surplus >= next.part /\ next.surplus + d <= Surplus
                     /\ total = after - (Surplus - next.surplus)
    <2>1. ASSUME Fits(n, score) PROVE \A i \in 1..n : Fits(i, more[i])
        <3>1. \A i \in 1..n : i = n \/ i \in 1..(n - 1)
            BY <1>2
        <3> HIDE DEF score
        <3> QED
            BY <1>1, <1>4, <2>1, <3>1
    <2> HIDE DEF score
    <2>2. Len(next.scores) = n /\ SumFunctionOnSet(next.scores, 1..n) = total
        BY <1>4, <1>8
    <2> HIDE DEF next, total, before, after, d
    <2>3. LoopInv(n, next)
        BY <1>8, <2>1, <2>2 DEF LoopInv, after, d
    <2> QED
        BY <2>3 DEF next
<1> HIDE DEF next, sum, total, c, d, before, after
<1>12. CASE finished /\ sum = before - Surplus
    <2>1. taken = 0
        BY <1>1, <1>12
    <2>2. Fits(n, score)
        BY <1>2, <2>1 DEF Fits
    <2>3. next.surplus = 0 \/ (next.surplus > 0 /\ next.part = 0)
        BY <1>1, <1>8, <1>12
    <2>4. total = after - Surplus
        <3> HIDE DEF score, taken
        <3> QED
            BY <1>2, <1>3, <1>4, <1>5, <1>6, <1>12, <2>1
    <2> QED
        BY <2>2, <2>3, <2>4
<1>10. /\ so.surplus \in Int /\ Surplus \in Int /\ score \in Int /\ taken \in Int
      /\ sum \in Int /\ before \in Int
      /\ total = sum + score /\ after = before + score + taken
    <2> HIDE DEF score, taken
    <2> QED
        BY <1>1, <1>2, <1>3, <1>4, <1>5, <1>6
<1>11. ASSUME sum = before - (Surplus - so.surplus)
      PROVE  total = after - taken - (Surplus - so.surplus)
    <2> HIDE DEF score, taken
    <2> QED
        BY <1>10, <1>11
<1>13. CASE /\ so.part = ToSubtract /\ so.part >= 1 /\ so.part <= point
            /\ so.surplus >= so.part /\ so.surplus + c <= Surplus
            /\ sum = before - (Surplus - so.surplus)
    <2>0. so.surplus # 0 /\ left >= 0
        BY <1>1, <1>13
    <2>1. CASE ~unscored
        <3>1. taken = 0 /\ Fits(n, score)
            BY <2>1 DEF Fits
        <3>2. next.surplus = so.surplus /\ next.part = so.part /\ d = c
            BY <1>5, <1>8, <2>1
        <3>3. total = after - (Surplus - so.surplus)
            <4> HIDE DEF score, taken
            <4> QED
                BY <1>10, <1>11, <1>13, <3>1
        <3> QED
            BY <1>13, <3>1, <3>2, <3>3
    <2>2. CASE unscored
        <3>1. Fits(n, score)
            <4>1. taken >= 0 /\ taken <= 2 * point - 1 /\ score = PerTest - taken
                BY <1>1, <1>2, <1>13, <2>2
            <4> HIDE DEF score, taken
            <4> QED
                BY <1>2, <1>3, <2>2, <4>1 DEF Fits
        <3>2. next.surplus = left /\ next.part = (IF pour THEN 0 ELSE so.part) /\ d = c + 1
            <4> HIDE DEF left, pour
            <4> QED
                BY <1>5, <1>8, <2>0, <2>2
        <3>3. CASE pour \/ left = 0
            <4>1. taken = so.surplus
                BY <1>1, <2>0, <2>2, <3>3
            <4>2. total = after - Surplus
                <5> HIDE DEF score, taken
                <5> QED
                    BY <1>10, <1>11, <1>13, <4>1
            <4>3. next.surplus = 0 \/ (next.surplus > 0 /\ next.part = 0)
                <5>1. left = 0 \/ (left > 0 /\ next.part = 0)
                    BY <1>3, <2>0, <3>2, <3>3
                <5> QED
                    BY <3>2, <5>1
            <4> QED
                BY <3>1, <4>2, <4>3
        <3>4. CASE ~pour /\ left # 0
            <4>1. taken = so.part /\ left >= so.part
                BY <1>1, <1>3, <2>0, <2>2, <3>4
            <4>2. total = after - (Surplus - left)
                <5>1. total = after - taken - (Surplus - so.surplus)
                    <6> HIDE DEF score, taken
                    <6> QED
                        BY <1>11, <1>13
                <5> HIDE DEF score, taken
                <5> QED
                    BY <1>1, <1>2, <1>5, <4>1, <5>1
            <4>3. left + d <= Surplus
                BY <1>1, <1>2, <1>5, <1>13, <3>2
            <4>4. next.part = so.part
                BY <3>2, <3>4
            <4> HIDE DEF left
            <4> QED
                BY <1>13, <3>1, <3>2, <4>1, <4>2, <4>3, <4>4
        <3> QED
            BY <3>3, <3>4
    <2> QED
        BY <2>1, <2>2
<1>14. \/ finished /\ sum = before - Surplus
       \/ /\ so.part = ToSubtract /\ so.part >= 1 /\ so.part <= point
          /\ so.surplus >= so.part /\ so.surplus + c <= Surplus
          /\ sum = before - (Surplus - so.surplus)
    BY DEF LoopInv, sum, c, before
<1> QED
    BY <1>12, <1>13, <1>14

\* Every round of the loop: no smallest round breaks the invariant.
LEMMA LoopStands ==
    ASSUME Dividable
    PROVE  \A n \in 0..Len(given) : LoopInv(n, Filled[n])
<1> DEFINE Bad == {n \in 0..Len(given) : ~LoopInv(n, Filled[n])}
<1>1. given \in Seq(Int) /\ Len(given) \in Nat
    BY DEF Dividable
<1>2. SUFFICES ASSUME Bad # {} PROVE FALSE
    OBVIOUS
<1>3. PICK n \in Bad : \A m \in Bad : ~ (<<m, n>> \in OpToRel(<, Nat))
    <2>1. Bad \subseteq Nat
        BY <1>1
    <2> HIDE DEF Bad
    <2> QED
        BY <1>2, <2>1, NatLessThanWellFounded, WFMin
<1>4. n \in 0..Len(given) /\ ~LoopInv(n, Filled[n])
    BY <1>3
<1>5. n # 0
    BY <1>1, <1>4, FilledUnfolds, LoopStarts
<1>6. n \in 1..Len(given) /\ n - 1 \in 0..Len(given) /\ n - 1 < n /\ n - 1 \in Nat /\ n \in Nat
    BY <1>1, <1>4, <1>5
<1>7. n - 1 \notin Bad
    <2> HIDE DEF Bad
    <2> QED
        BY <1>3, <1>6 DEF OpToRel
<1>8. LoopInv(n - 1, Filled[n - 1])
    BY <1>6, <1>7
<1>9. Filled[n] = FillOne(Filled[n - 1], given[n])
    BY <1>1, <1>6, FilledUnfolds
<1> QED
    BY <1>4, <1>6, <1>8, <1>9, RoundKeeps

\* The inductive invariant: nothing yet, or what the whole handler leaves.
ScoreInv ==
    /\ point \in Precisions /\ given \in GivenScores(point)
    /\ scored # <<>> =>
         IF Marked THEN scored = Filled[Len(given)].scores ELSE scored = given

LEMMA ScoreInvInit == ScoresInit => ScoreInv
BY DEF ScoresInit, ScoreInv

LEMMA ScoreInvNext == ScoreInv /\ [ScoresNext]_scoreVars => ScoreInv'
<1> SUFFICES ASSUME ScoreInv, [ScoresNext]_scoreVars PROVE ScoreInv'
    OBVIOUS
<1>1. point' = point /\ given' = given
    BY DEF ScoresNext, ScoreTests, scoreVars
<1>2. Filled' = Filled /\ Marked' = Marked
    BY <1>1 DEF Filled, FillOne, Surplus, ToSubtract, PerTest, Shares, TotalScore, Positive, Marked
<1>3. CASE ScoreTests
    BY <1>1, <1>2, <1>3 DEF ScoreInv, ScoreTests, Marked
<1>4. CASE UNCHANGED scoreVars
    BY <1>1, <1>2, <1>4 DEF ScoreInv, scoreVars
<1> QED
    BY <1>3, <1>4 DEF ScoresNext

LEMMA ScoreInvAddsUp == ScoreInv => ScoresAddUp
<1> SUFFICES ASSUME ScoreInv, scored # <<>>, TotalScore >= 0, Marked,
                    \A i \in DOMAIN given : given[i] = Unscored(point) \/ given[i] > 0
             PROVE  /\ DOMAIN scored = DOMAIN given /\ SumFunction(scored) = 100 * point
                    /\ \A i \in DOMAIN given :
                          IF given[i] = Unscored(point)
                          THEN scored[i] \in (PerTest - 2 * point + 1)..PerTest
                          ELSE scored[i] = given[i]
    BY DEF ScoresAddUp, Marked
<1> DEFINE N == Len(given)
           so == Filled[N]
<1>1. Dividable
    BY ScoresAssumption DEF ScoreInv, Dividable
<1>2. scored = so.scores /\ given \in Seq(Int) /\ N \in Nat /\ DOMAIN given = 1..N
    BY <1>1 DEF ScoreInv, Dividable
<1>3. LoopInv(N, so)
    <2> HIDE DEF so
    <2>1. so = Filled[N] /\ N \in 0..N
        BY <1>2 DEF so
    <2> QED
        BY <1>1, <2>1, LoopStands
<1> HIDE DEF so
<1>4. /\ Shares \in Nat \ {0} /\ Shares = Cardinality(MarkedOf(N)) /\ TotalScore \in Nat
      /\ GivenOf(N) = Positive /\ PerTest \in Nat /\ PerTest * Shares \in Nat
      /\ Surplus \in Nat /\ Surplus < Shares /\ point \in Nat \ {0}
    BY <1>1, SharesCover DEF Dividable
<1>5. scored \in Seq(Int) /\ Len(scored) = N /\ \A i \in 1..N : Fits(i, scored[i])
    BY <1>2, <1>3 DEF LoopInv
<1>6. SumFunctionOnSet(scored, 1..N) = Before(N) - Surplus
    BY <1>2, <1>3, <1>4 DEF LoopInv
<1>7. Before(N) = SumFunctionOnSet(given, Positive) + PerTest * Shares
    BY <1>4 DEF Before
<1>8. SumFunctionOnSet(given, Positive) \in Int
    <2>1. \A i \in Positive : given[i] \in Int
        BY <1>2 DEF Positive
    <2>2. IsFiniteSet(1..N)
        BY <1>2, FS_Interval
    <2>3. IsFiniteSet(Positive)
        BY <1>2, <2>2, FS_Subset DEF Positive
    <2> QED
        BY <2>1, <2>3, SumIsInt
<1>9. SumFunctionOnSet(scored, 1..N) = 100 * point
    BY <1>4, <1>6, <1>7, <1>8 DEF Surplus, TotalScore
<1>10. DOMAIN scored = 1..N
    BY <1>2, <1>5
<1> QED
    BY <1>2, <1>5, <1>9, <1>10 DEF SumFunction, Fits

\* The automatic scores of an archive's tests add up.
THEOREM ArchivesAddUp == ScoresSpec => []ScoresAddUp
<1>1. ScoresInit => ScoreInv
    BY ScoreInvInit
<1>2. ScoreInv /\ [ScoresNext]_scoreVars => ScoreInv'
    BY ScoreInvNext
<1>3. ScoreInv => ScoresAddUp
    BY ScoreInvAddsUp
<1> QED
    BY <1>1, <1>2, <1>3, PTL DEF ScoresSpec
=============================================================================
