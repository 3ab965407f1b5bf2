--------------------------- MODULE MaxScores_proofs ---------------------------
(***************************************************************************)
(* Proofs about MaxScores, for any number of submissions, subtasks and     *)
(* connections.  CacheIsExplained uses nothing of how max_score() computes *)
(* except that the best submission does not depend on the subtasks' rows;  *)
(* TypesCorrect uses that it computes a number.                            *)
(***************************************************************************)
EXTENDS MaxScores, Sums_proofs, TLAPS

\* Each connection has a transaction, and one in flight has a submission.
TxShape ==
    /\ at \in [Tx -> {"idle", "changed", "calculated", "upserted"}]
    /\ DOMAIN kind = Tx /\ kind = [t \in Tx |-> kind[t]]
    /\ DOMAIN own = Tx /\ own = [t \in Tx |-> own[t]]
    /\ DOMAIN val = Tx /\ val = [t \in Tx |-> val[t]]
    /\ DOMAIN sub = Tx /\ sub = [t \in Tx |-> sub[t]]
    /\ late \in [Tx -> SUBSET Reason]

\* What a transaction has calculated is right for the tables as it leaves
\* them, unless its calculation overlapped with something that matters.
Sound(t) ==
    late[t] \cap Matters = {} =>
        /\ InFlight = {t}
        /\ val[t] = BestScore(ScoresSeen(t), PartsSeen(t), strategy)

IInv ==
    /\ TxShape
    /\ strategy \in Strategies /\ behind \subseteq Reason
    /\ \A t \in Calculated : Sound(t)
    /\ CacheExplained

LEMMA MaxIgnoresParts ==
    ASSUME NEW sc, NEW pa, NEW pb
    PROVE  BestScore(sc, pa, "max") = BestScore(sc, pb, "max")
BY DEF BestScore

LEMMA MattersType ==
    /\ "overlap" \in Matters /\ "strategy" \in Matters
    /\ strategy # "max" => "rows" \in Matters
BY DEF Matters, Reason

\* A transaction whose view of the tables stays as it is stays sound.
LEMMA SoundStays ==
    ASSUME NEW t, Sound(t), UNCHANGED <<score, strategy, InFlight>>,
           UNCHANGED parts \/ strategy = "max" \/ "rows" \in late'[t],
           UNCHANGED <<sub[t], own[t], kind[t], val[t]>>, late[t] \subseteq late'[t]
    PROVE  Sound(t)'
<1> SUFFICES ASSUME late'[t] \cap Matters' = {}
             PROVE  /\ InFlight' = {t}
                    /\ val'[t] = BestScore(ScoresSeen(t)', PartsSeen(t)', strategy')
  BY DEF Sound
<1>1. Matters' = Matters
  BY DEF Matters
<1>2. InFlight = {t} /\ val[t] = BestScore(ScoresSeen(t), PartsSeen(t), strategy)
  BY <1>1 DEF Sound
<1>3. ScoresSeen(t)' = ScoresSeen(t)
  BY DEF ScoresSeen
<1>4. CASE UNCHANGED parts
  <2>1. PartsSeen(t)' = PartsSeen(t)
    BY <1>4 DEF PartsSeen
  <2>2. QED
    BY <1>2, <1>3, <2>1
<1>5. CASE strategy = "max"
  BY <1>2, <1>3, <1>5, MaxIgnoresParts
<1>6. CASE "rows" \in late'[t]
  BY <1>1, <1>5, <1>6, MattersType
<1>7. QED
  BY <1>4, <1>5, <1>6

LEMMA InitInv == Init => IInv
<1> SUFFICES ASSUME Init PROVE IInv
  OBVIOUS
<1>1. TxShape /\ Calculated = {}
  BY DEF Init, TxShape, Calculated, Reason
<1>2. cache = BestScore(score, parts, strategy)
  <2>1. UNION {DOMAIN parts[s] : s \in Sub} = {}
    <3>1. DOMAIN <<>> = {}
      OBVIOUS
    <3>2. QED
      BY <3>1 DEF Init
  <2>2. {s \in Sub : score[s] # NoRow} = {}
    BY DEF Init
  <2>3. QED
    BY <2>1, <2>2 DEF Init, BestScore
<1>3. QED
  BY <1>1, <1>2 DEF Init, IInv, CacheExplained, CacheRight

\* The part of the invariant that is about the shape of the transactions.
LEMMA ShapeNext == TxShape /\ [Next]_vars => TxShape'
<1> SUFFICES ASSUME TxShape, [Next]_vars PROVE TxShape'
  OBVIOUS
<1> USE DEF TxShape, Reason
<1>1. ASSUME NEW t \in Tx, NEW s \in Sub, NEW k, NEW sc, Begin(t, s, k, sc)
      PROVE  TxShape'
  BY <1>1 DEF Begin, Missed
<1>2. ASSUME NEW t \in Tx, Calculate(t) PROVE TxShape'
  BY <1>2 DEF Calculate, change
<1>3. ASSUME NEW t \in Tx, Upsert(t) PROVE TxShape'
  BY <1>3 DEF Upsert, change
<1>4. ASSUME NEW t \in Tx, Commit(t) PROVE TxShape'
  BY <1>4 DEF Commit, End, Missed
<1>5. ASSUME NEW t \in Tx, Abort(t) PROVE TxShape'
  BY <1>5 DEF Abort, End, Missed
<1>6. ASSUME NEW r \in Reason, Silent(r) PROVE TxShape'
  BY <1>6 DEF Silent, Missed, change
<1>7. CASE UNCHANGED vars
  BY <1>7 DEF vars, change
<1>8. QED
  BY <1>1, <1>2, <1>3, <1>4, <1>5, <1>6, <1>7
     DEF Next, Insert, Score, Reset, DeleteSubmission, InitRows, UpdatePercentage, UpdateProblem

LEMMA NextInv == IInv /\ [Next]_vars => IInv'
<1> SUFFICES ASSUME IInv, [Next]_vars PROVE IInv'
  OBVIOUS
<1> USE DEF IInv
<1>1. TxShape'
  BY ShapeNext
<1>2. ASSUME NEW t \in Tx, NEW s \in Sub, NEW k, NEW sc, Begin(t, s, k, sc)
      PROVE  IInv'
  <2>1. CacheExplained'
    BY <1>2 DEF Begin, tables, CacheExplained, CacheRight, Matters
  <2>2. ASSUME NEW u \in Calculated' PROVE "overlap" \in late'[u]
    BY <1>2, <2>2 DEF Begin, Missed, Calculated
  <2>3. QED
    BY <1>1, <1>2, <2>1, <2>2, MattersType DEF Begin, tables, Sound, Matters
<1>3. ASSUME NEW t \in Tx, Calculate(t) PROVE IInv'
  <2>1. CacheExplained'
    BY <1>3 DEF Calculate, tables, CacheExplained, CacheRight, Matters
  <2>2. InFlight' = InFlight
    BY <1>3 DEF Calculate, TxShape, InFlight
  <2>3. ASSUME NEW u \in Calculated', u # t PROVE Sound(u)'
    <3>1. u \in Calculated /\ val'[u] = val[u] /\ late'[u] = late[u]
      BY <1>3, <2>3 DEF Calculate, TxShape, Calculated
    <3>2. QED
      BY <1>3, <2>2, <3>1, SoundStays DEF Calculate, tables, change
  <2>4. Sound(t)'
    <3>1. /\ val'[t] = BestScore(ScoresSeen(t), PartsSeen(t), strategy)
          /\ late'[t] = IF InFlight = {t} THEN {} ELSE {"overlap"}
      BY <1>3 DEF Calculate, TxShape
    <3>2. ScoresSeen(t)' = ScoresSeen(t) /\ PartsSeen(t)' = PartsSeen(t) /\ strategy' = strategy
      BY <1>3 DEF Calculate, tables, change, ScoresSeen, PartsSeen
    <3>3. late'[t] \cap Matters' = {} => InFlight = {t}
      <4>1. "overlap" \in Matters'
        BY DEF Matters, Reason
      <4>2. QED
        BY <3>1, <4>1
    <3>4. QED
      BY <2>2, <3>1, <3>2, <3>3 DEF Sound
  <2>5. QED
    BY <1>1, <1>3, <2>1, <2>3, <2>4 DEF Calculate, tables
<1>4. ASSUME NEW t \in Tx, Upsert(t) PROVE IInv'
  <2>1. CacheExplained'
    BY <1>4 DEF Upsert, tables, CacheExplained, CacheRight, Matters
  <2>2. InFlight' = InFlight /\ Calculated' = Calculated
    BY <1>4 DEF Upsert, TxShape, InFlight, Calculated
  <2>3. ASSUME NEW u \in Calculated' PROVE Sound(u)'
    BY <1>4, <2>2, <2>3, SoundStays DEF Upsert, tables, change
  <2>4. QED
    BY <1>1, <1>4, <2>1, <2>3 DEF Upsert, tables
<1>5. ASSUME NEW t \in Tx, Commit(t) PROVE IInv'
  <2>1. t \in Calculated /\ t \in InFlight /\ Sound(t)
    BY <1>5 DEF Commit, Calculated, InFlight
  <2>2. CacheExplained'
    <3> SUFFICES ASSUME behind' \cap Matters = {} PROVE cache' = BestScore(score', parts', strategy)
      BY <1>5 DEF Commit, CacheExplained, CacheRight, Matters
    <3>1. cache' = BestScore(ScoresSeen(t), PartsSeen(t), strategy)
      BY <1>5, <2>1 DEF Commit, Sound
    <3>2. CASE kind[t] = "reset"
      BY <1>5, <3>1, <3>2, MattersType, MaxIgnoresParts DEF Commit
    <3>3. CASE kind[t] # "reset"
      BY <1>5, <3>1, <3>3 DEF Commit
    <3>4. QED
      BY <3>2, <3>3
  <2>3. ASSUME NEW u \in Calculated' PROVE Sound(u)'
    <3>1. u \in Calculated /\ u # t /\ late[u] \subseteq late'[u]
      BY <1>5, <2>3 DEF Commit, End, Missed, TxShape, Calculated
    <3>2. ~(late[u] \cap Matters = {})
      BY <2>1, <3>1 DEF Sound
    <3>3. QED
      BY <1>5, <3>1, <3>2 DEF Commit, Sound, Matters
  <2>4. behind' \subseteq Reason
    BY <1>5 DEF Commit, TxShape, Reason
  <2>5. QED
    BY <1>1, <1>5, <2>2, <2>3, <2>4 DEF Commit
<1>6. ASSUME NEW t \in Tx, Abort(t) PROVE IInv'
  <2>1. CacheExplained'
    BY <1>6 DEF Abort, tables, CacheExplained, CacheRight, Matters
  <2>2. ASSUME NEW u \in Calculated' PROVE Sound(u)'
    <3>1. u \in Calculated /\ u # t /\ late'[u] = late[u]
      BY <1>6, <2>2 DEF Abort, End, Missed, TxShape, Calculated
    <3>2. ~(late[u] \cap Matters = {})
      BY <1>6, <3>1 DEF Abort, Sound
    <3>3. QED
      BY <1>6, <3>1, <3>2 DEF Abort, tables, Sound, Matters
  <2>3. QED
    BY <1>1, <1>6, <2>1, <2>2 DEF Abort, tables
<1>7. ASSUME Silent("rows"), UNCHANGED strategy PROVE IInv'
  <2>1. InFlight' = InFlight /\ Calculated' = Calculated
    BY <1>7 DEF Silent, InFlight, Calculated
  <2>2. CacheExplained'
    <3>1. Matters' = Matters
      BY <1>7 DEF Matters
    <3>2. CASE strategy = "max"
      BY <1>7, <3>1, <3>2, MaxIgnoresParts DEF Silent, CacheExplained, CacheRight
    <3>3. CASE strategy # "max"
      BY <1>7, <3>1, <3>3, MattersType DEF Silent, CacheExplained
    <3>4. QED
      BY <3>2, <3>3
  <2>3. ASSUME NEW u \in Calculated' PROVE Sound(u)'
    <3>1. late'[u] = late[u] \cup {"rows"}
      BY <1>7, <2>3 DEF Silent, Missed, TxShape, Calculated
    <3>2. QED
      BY <1>7, <2>1, <2>3, <3>1, SoundStays DEF Silent, change
  <2>4. QED
    BY <1>1, <1>7, <2>2, <2>3 DEF Silent, Reason
<1>8. CASE UpdateProblem
  <2>1. behind' = behind \cup {"strategy"} /\ strategy' \in Strategies
    BY <1>8 DEF UpdateProblem, Silent
  <2>2. "strategy" \in Matters'
    BY DEF Matters, Reason
  <2>3. ASSUME NEW u \in Calculated' PROVE "strategy" \in late'[u]
    BY <1>8, <2>3 DEF UpdateProblem, Silent, Missed, TxShape, Calculated
  <2>4. QED
    BY <1>1, <2>1, <2>2, <2>3 DEF Sound, CacheExplained, Reason
<1>9. CASE UNCHANGED vars
  <2>1. InFlight' = InFlight /\ Calculated' = Calculated /\ CacheExplained'
    BY <1>9 DEF vars, tables, InFlight, Calculated, CacheExplained, CacheRight, Matters
  <2>2. ASSUME NEW u \in Calculated PROVE Sound(u)'
    BY <1>9, <2>1, <2>2, SoundStays DEF vars, tables, change
  <2>3. QED
    BY <1>1, <1>9, <2>1, <2>2 DEF vars, tables
<1>10. QED
  BY <1>2, <1>3, <1>4, <1>5, <1>6, <1>7, <1>8, <1>9
     DEF Next, Insert, Score, Reset, DeleteSubmission, InitRows, UpdatePercentage

\* The cached score is right whenever nothing has overlapped with, or followed,
\* the recalculation it comes from.
THEOREM CacheIsExplained == Spec => []CacheExplained
<1>1. IInv => CacheExplained
  BY DEF IInv
<1>2. QED
  BY InitInv, NextInv, <1>1, PTL DEF Spec
-----------------------------------------------------------------------------
\* max_score() of any tables is a number: a largest score, or a sum of them.
LEMMA BestScoreIsInt ==
    ASSUME NEW sc \in [Sub -> Points \cup {NoRow}],
           NEW pa \in [Sub -> {<<>>} \cup [Stk -> Points]], NEW st
    PROVE  BestScore(sc, pa, st) \in Int
<1> DEFINE rows == {s \in Sub : sc[s] # NoRow}
           stks == UNION {DOMAIN pa[s] : s \in Sub}
           having(k) == {x \in Sub : k \in DOMAIN pa[x]}
           best(k) == Max({pa[s][k] : s \in having(k)})
<1>1. Points \subseteq Int
  BY PointsAssumption
<1>2. ASSUME rows # {} PROVE Max({sc[s] : s \in rows}) \in Int
  <2>1. {sc[s] : s \in rows} \subseteq Int /\ {sc[s] : s \in rows} # {}
    BY <1>1, <1>2
  <2>2. IsFiniteSet({sc[s] : s \in rows})
    <3>1. IsFiniteSet(rows)
      BY FiniteAssumption, FS_Subset
    <3> HIDE DEF rows
    <3>2. QED
      BY <3>1, ImageIsFinite
  <2>3. QED
    BY <2>1, <2>2, LargestOf
<1>3. stks \subseteq Stk
  <2>1. \A s \in Sub : DOMAIN pa[s] \subseteq Stk
    <3>1. DOMAIN <<>> = {}
      OBVIOUS
    <3>2. QED
      BY <3>1
  <2>2. QED
    BY <2>1
<1>4. IsFiniteSet(stks)
  BY <1>3, FiniteAssumption, FS_Subset
<1>5. ASSUME NEW k \in stks PROVE best(k) \in Int
  <2>1. {pa[s][k] : s \in having(k)} \subseteq Int /\ {pa[s][k] : s \in having(k)} # {}
    <3>1. DOMAIN <<>> = {}
      OBVIOUS
    <3>2. ASSUME NEW s \in having(k) PROVE pa[s][k] \in Points
      BY <3>1
    <3>3. having(k) # {}
      BY <1>5
    <3>4. QED
      BY <1>1, <3>2, <3>3
  <2>2. IsFiniteSet({pa[s][k] : s \in having(k)})
    <3> DEFINE f == [s \in Sub |-> pa[s][k]]
    <3>1. IsFiniteSet(having(k)) /\ having(k) \subseteq Sub
      BY FiniteAssumption, FS_Subset
    <3>2. {pa[s][k] : s \in having(k)} = {f[s] : s \in having(k)}
      BY <3>1
    <3> HIDE DEF having, f
    <3>3. QED
      BY <3>1, <3>2, ImageIsFinite
  <2>3. QED
    BY <2>1, <2>2, LargestOf
<1>6. SumFunction([k \in stks |-> best(k)]) \in Int
  <2> HIDE DEF stks, best
  <2> DEFINE f == [k \in stks |-> best(k)]
  <2>1. SumFunction(f) = SumFunctionOnSet(f, stks)
    BY DEF SumFunction
  <2>2. \A k \in stks : f[k] \in Int
    BY <1>5
  <2> HIDE DEF f
  <2>3. SumFunctionOnSet(f, stks) \in Int
    BY <1>4, <2>2, SumIsInt
  <2>4. QED
    BY <2>1, <2>3 DEF f
<1>7. BestScore(sc, pa, st) = IF st = "max"
          THEN IF rows = {} THEN -1 ELSE Max({sc[s] : s \in rows})
          ELSE IF stks = {} THEN -1 ELSE SumFunction([k \in stks |-> best(k)])
  BY DEF BestScore
<1> HIDE DEF rows, stks, best
<1>8. QED
  BY <1>2, <1>6, <1>7

LEMMA TypeInit == Init => TypeOK
BY PointsAssumption DEF Init, TypeOK, Reason

LEMMA TypeNext == TypeOK /\ [Next]_vars => TypeOK'
<1> SUFFICES ASSUME TypeOK, [Next]_vars PROVE TypeOK'
  OBVIOUS
<1> USE DEF TypeOK, Reason
<1>1. ASSUME NEW t \in Tx, NEW s \in Sub, NEW sc \in Points \cup {NoRow},
             NEW k \in {"insert", "score", "reset", "delete"}, Begin(t, s, k, sc)
      PROVE  TypeOK'
  BY <1>1 DEF Begin, Missed, tables
<1>2. ASSUME NEW t \in Tx, Calculate(t) PROVE TypeOK'
  <2>1. /\ ScoresSeen(t) \in [Sub -> Points \cup {NoRow}]
        /\ PartsSeen(t) \in [Sub -> {<<>>} \cup [Stk -> Points]]
    BY DEF ScoresSeen, PartsSeen
  <2>2. val' \in [Tx -> Int]
    BY <1>2, <2>1, BestScoreIsInt DEF Calculate
  <2>3. QED
    BY <1>2, <2>2 DEF Calculate, tables, change
<1>3. ASSUME NEW t \in Tx, Upsert(t) PROVE TypeOK'
  BY <1>3 DEF Upsert, tables, change
<1>4. ASSUME NEW t \in Tx, End(t)
      PROVE  /\ at' \in [Tx -> {"idle", "changed", "calculated", "upserted"}]
             /\ kind' \in [Tx -> {"none", "insert", "score", "reset", "delete"}]
             /\ sub' \in [Tx -> Sub \cup {None}] /\ own' \in [Tx -> Points \cup {NoRow}]
             /\ val' \in [Tx -> Int] /\ holder' \in Tx \cup {None}
  BY <1>4 DEF End
<1>5. ASSUME NEW t \in Tx, Commit(t) PROVE TypeOK'
  <2>1. /\ score' \in [Sub -> Points \cup {NoRow}]
        /\ parts' \in [Sub -> {<<>>} \cup [Stk -> Points]]
    BY <1>5, PointsAssumption DEF Commit, ScoresSeen, PartsSeen
  <2>2. /\ cache' \in Int /\ behind' \subseteq Reason /\ strategy' \in Strategies
        /\ late' \in [Tx -> SUBSET Reason]
    BY <1>5 DEF Commit, Missed
  <2>3. QED
    BY <1>4, <1>5, <2>1, <2>2 DEF Commit
<1>6. ASSUME NEW t \in Tx, Abort(t) PROVE TypeOK'
  <2>1. late' \in [Tx -> SUBSET Reason]
    BY <1>6 DEF Abort, Missed
  <2>2. QED
    BY <1>4, <1>6, <2>1 DEF Abort, tables
<1>7. ASSUME NEW r \in Reason, Silent(r), parts' \in [Sub -> {<<>>} \cup [Stk -> Points]],
             strategy' \in Strategies
      PROVE  TypeOK'
  BY <1>7 DEF Silent, Missed, change
<1>8. ASSUME NEW s \in Sub, InitRows(s) PROVE TypeOK'
  <2>1. parts' \in [Sub -> {<<>>} \cup [Stk -> Points]]
    BY <1>8, PointsAssumption DEF InitRows
  <2>2. QED
    BY <1>7, <1>8, <2>1 DEF InitRows
<1>9. ASSUME NEW s \in Sub, NEW k \in Stk, NEW p \in Points, UpdatePercentage(s, k, p)
      PROVE  TypeOK'
  <2>1. parts[s] \in [Stk -> Points]
    <3>1. DOMAIN <<>> = {}
      OBVIOUS
    <3>2. QED
      BY <1>9, <3>1 DEF UpdatePercentage
  <2>2. parts' \in [Sub -> {<<>>} \cup [Stk -> Points]]
    BY <1>9, <2>1 DEF UpdatePercentage
  <2>3. QED
    BY <1>7, <1>9, <2>2 DEF UpdatePercentage
<1>10. CASE UpdateProblem
  <2>1. "strategy" \in Reason
    OBVIOUS
  <2>2. QED
    BY <1>7, <1>10, <2>1 DEF UpdateProblem
<1>11. CASE UNCHANGED vars
  BY <1>11 DEF vars, tables, change
<1>12. QED
  BY <1>1, <1>2, <1>3, <1>5, <1>6, <1>8, <1>9, <1>10, <1>11, PointsAssumption
     DEF Next, Insert, Score, Reset, DeleteSubmission

\* Type correctness: what is cached, and what a transaction has calculated and
\* not yet written, is a number, and only the rows of the problem's subtasks
\* are ever added up.
THEOREM TypesCorrect == Spec => []TypeOK
BY TypeInit, TypeNext, PTL DEF Spec
=============================================================================
