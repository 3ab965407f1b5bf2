----------------------------- MODULE TestScores -----------------------------
(***************************************************************************)
(* What an archive's tests are worth when their scores are not all given   *)
(* (ProcessTestArchive): what is left of a hundred points is divided among *)
(* the tests without a score. Scores count the smallest decimal of the     *)
(* problem's precision.                                                    *)
(***************************************************************************)
EXTENDS Integers, Sequences, FiniteSets, Functions

CONSTANTS Precisions,       \* decimals in a point: 1, 10, 100 for 0, 1, 2 places
          GivenScores(_)    \* the archives' scores, test by test, for a precision

\* The mark of a test without a score: minus one point. An archive gives no such score.
Unscored(p) == -p
ASSUME ScoresAssumption ==
    /\ Precisions \subseteq Nat \ {0}
    /\ \A p \in Precisions : GivenScores(p) \subseteq Seq(Int)

VARIABLES
    point,              \* decimals in a point
    given,              \* each test's score in tests.txt, or Unscored(point)
    scored              \* the scores of the tests that are created

scoreVars == <<point, given, scored>>

\* The quotient rounded up, away from zero, and to the nearest (half away from zero).
UpTo(a, b) == (a + b - 1) \div b
AwayFromZero(a, b) == IF a >= 0 THEN UpTo(a, b) ELSE -UpTo(-a, b)
Nearest(a, b) == (2 * a + b) \div (2 * b)

\* A given score of zero counts among the tests to divide among, but is not filled in.
Positive == {i \in DOMAIN given : given[i] > 0}
TotalScore == 100 * point - SumFunctionOnSet(given, Positive)
Shares == Cardinality(DOMAIN given \ Positive)
PerTest == AwayFromZero(TotalScore, Shares)

\* Rounding up gives too much; the surplus is taken from the first tests in about as many
\* parts as it has points. (It is negative if the given scores exceed a hundred points; if
\* it is then less than a point, it is divided by zero.)
Surplus == PerTest * Shares - TotalScore
DividesByZero == Surplus < 0 /\ -Surplus < point
ToSubtract ==
    IF Surplus = 0 THEN 0
    ELSE IF Surplus > 0 THEN Nearest(Surplus, UpTo(Surplus, point))
    ELSE Nearest(-Surplus, (-Surplus) \div point)

\* Mutant of FillOne: what remains below a part is not poured into the last test.
FillOneUnpoured(so, score) ==
    IF score # Unscored(point) THEN [so EXCEPT !.scores = Append(@, score)]
    ELSE IF so.surplus = 0 THEN [so EXCEPT !.scores = Append(@, PerTest)]
    ELSE [so EXCEPT !.scores = Append(@, PerTest - so.part), !.surplus = @ - so.part]

\* One round of the loop: the scores so far, the surplus left, the part to take.
FillOne(so, score) ==
    LET left == so.surplus - so.part
        pour == left # 0 /\ left < so.part /\ -left < so.part
    IN IF score # Unscored(point) THEN [so EXCEPT !.scores = Append(@, score)]
       ELSE IF so.surplus = 0 THEN [so EXCEPT !.scores = Append(@, PerTest)]
       ELSE [scores |-> Append(so.scores, PerTest - so.part - (IF pour THEN left ELSE 0)),
             surplus |-> left, part |-> IF pour THEN 0 ELSE so.part]

\* The loop, after its first n tests.
Filled[n \in 0..Len(given)] ==
    IF n = 0 THEN [scores |-> <<>>, surplus |-> Surplus, part |-> ToSubtract]
    ELSE FillOne(Filled[n - 1], given[n])

ScoreTests ==
    /\ scored = <<>>
    /\ IF \A i \in DOMAIN given : given[i] # Unscored(point) THEN scored' = given
       ELSE ~DividesByZero /\ scored' = Filled[Len(given)].scores
    /\ UNCHANGED <<point, given>>

ScoresInit == point \in Precisions /\ given \in GivenScores(point) /\ scored = <<>>
ScoresNext == ScoreTests
ScoresSpec == ScoresInit /\ [][ScoresNext]_scoreVars

-----------------------------------------------------------------------------
\* "This should fix the roundings": if some scores are missing and those given are positive
\* and do not exceed a hundred points, the tests are worth a hundred points in all, those
\* given are worth what was given, and the others less than two points below an equal
\* share. (Not "keep the delta <= 1.0 points": a part and what is poured after it can be
\* more than one point, and more than the share: a score can be negative.)
ScoresAddUp ==
    /\ scored # <<>> /\ TotalScore >= 0
    /\ \E i \in DOMAIN given : given[i] = Unscored(point)
    /\ \A i \in DOMAIN given : given[i] = Unscored(point) \/ given[i] > 0
    => /\ DOMAIN scored = DOMAIN given /\ SumFunction(scored) = 100 * point
       /\ \A i \in DOMAIN given :
             IF given[i] = Unscored(point)
             THEN scored[i] \in (PerTest - 2 * point + 1)..PerTest
             ELSE scored[i] = given[i]
=============================================================================
