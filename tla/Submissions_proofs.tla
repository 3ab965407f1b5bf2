-------------------------- MODULE Submissions_proofs --------------------------
(***************************************************************************)
(* Proofs about Submissions: its safety properties hold for any number of  *)
(* submissions and tests, any batch sizes and any number of requests,      *)
(* failures and crashes.                                                   *)
(***************************************************************************)
EXTENDS Submissions, FiniteSetTheorems, TLAPS

-----------------------------------------------------------------------------
(* The strengthening *)

\* Where the grader holds a submission, and where it holds a queue.
Places ==
    /\ AtSub => cur \notin queue
    /\ fpc \in {"off", "wait", "fetch"} => queue = {}
    /\ fpc = "off" => ~rewake

\* A submission that is not inserted yet is in no queue and not evaluated.
Unborn ==
    \A s \in Sub :
        /\ status[s] = "absent" => gen[s] = 0 /\ s \notin queue /\ ~(AtSub /\ s = cur)
        /\ creator[s] = "checked" => status[s] = "absent"

\* A submission whose rows were never inserted has no rows and no score, and
\* is not on its way to an evaluation.
Uninitialised ==
    \A s \in Sub : gen[s] = 0 =>
        /\ DOMAIN rows[s] = {} /\ score[s] = Unset
        /\ status[s] \in {"absent", "creating", "reevaling", "deleted"}
        /\ ~reevals => s \notin queue
        /\ AtSub /\ s = cur => s \notin Live

\* Rows as an initialisation left them.
Fresh(s) == Graded(s) = {} /\ score[s] = Unset

Settled(s) ==
    \/ score[s] = SumOf(Graded(s)) /\ (s \in faulty \/ Graded(s) = DOMAIN rows[s])
    \/ score[s] = Default /\ Graded(s) = {}
    \/ score[s] = Unset /\ s \in faulty

\* What is waiting, or queued to be evaluated, is fresh.
Queued(s) ==
    /\ status[s] = "waiting" => Fresh(s)
    /\ s \in queue /\ ~reevals /\ s \in Live => Fresh(s) /\ status[s] # "finished"
    /\ status[s] = "finished" => Settled(s)

\* How far the evaluation of s has come.
Evaluated(s) ==
    AtSub /\ s = cur /\ s \in Live =>
        /\ fpc # "begin" => status[s] # "waiting"
        /\ fpc \in {"begin", "load", "compile", "prepare", "tests"} =>
              Fresh(s) /\ status[s] # "finished"
        /\ fpc = "run" =>
              /\ score[s] = Unset /\ status[s] # "finished"
              /\ \A r \in DOMAIN rows[s] :
                    r \in mem \/ rows[s][r] = "graded" \/ s \in faulty
        /\ fpc = "write" =>
              /\ score[s] = Unset /\ status[s] # "finished"
              /\ sum = Graded(s)
              /\ s \in faulty \/ Graded(s) = DOMAIN rows[s]
        /\ fpc \in {"mark", "marking", "finish"} => Settled(s)
        /\ fpc = "marking" => \A r \in mem : r \in DOMAIN rows[s] => rows[s][r] # "graded"

ScoreInv == \A s \in Sub \ touched : Queued(s) /\ Evaluated(s)

RowsOfOneInit ==
    HasSubtasks => \A s \in Sub : DOMAIN rows[s] \subseteq {gen[s]} \X Test

\* Where a submission that is to be evaluated is remembered.
Remembered(s) ==
    \/ wake \/ missed \/ Announcing
    \/ rewake /\ fpc # "wait"
    \/ /\ status[s] = "waiting"
       /\ \/ ~reevals /\ (fpc = "fetch" \/ s \in queue)
          \/ fpc = "begin" /\ s = cur
    \/ /\ status[s] = "reevaling"
       /\ \/ ~reevals /\ fpc \notin {"off", "wait"}
          \/ reevals /\ (fpc = "fetch" \/ s \in queue)

WorkRemembered ==
    \A s \in Sub : status[s] \in {"waiting", "reevaling"} => Remembered(s)

-----------------------------------------------------------------------------
(* Type correctness *)

LEMMA EmptyTable == DOMAIN <<>> = {} /\ <<>> \in [{} -> RowState]
BY DEF RowState

LEMMA FreshTable ==
    ASSUME DatabaseTypeOK, NEW s \in Sub
    PROVE  /\ DOMAIN FreshRows(s) \subseteq Row
           /\ FreshRows(s) \in [DOMAIN FreshRows(s) -> {"new"}]
           /\ DOMAIN FreshRows(s) = {gen[s] + 1} \X Test
BY DEF DatabaseTypeOK, FreshRows, Row

LEMMA ResetType ==
    ASSUME DatabaseTypeOK, touched \subseteq Sub, NEW S, ResetSubmissions(S)
    PROVE  DatabaseTypeOK' /\ touched' \subseteq Sub
<1>1. /\ status' \in [Sub -> Status] /\ gen' \in [Sub -> Nat] /\ touched' \subseteq Sub
  BY DEF DatabaseTypeOK, ResetSubmissions, Live, Status
<1>2. score' \in [Sub -> [from : {"nothing", "default", "rows"}, of : SUBSET Row]]
  BY DEF DatabaseTypeOK, ResetSubmissions, Unset
<1>3. rows' \in [Sub -> {rows'[s] : s \in Sub}]
  BY DEF DatabaseTypeOK, ResetSubmissions
<1>4. ASSUME NEW s \in Sub
      PROVE  rows'[s] \in [DOMAIN rows'[s] -> RowState] /\ DOMAIN rows'[s] \subseteq Row
  <2>1. rows'[s] = FreshRows(s) \/ rows'[s] = rows[s]
    BY DEF ResetSubmissions
  <2>2. CASE rows'[s] = FreshRows(s)
    BY <2>2, FreshTable DEF RowState
  <2>3. CASE rows'[s] = rows[s]
    BY <2>3 DEF DatabaseTypeOK
  <2>4. QED
    BY <2>1, <2>2, <2>3
<1>5. QED
  BY <1>1, <1>2, <1>3, <1>4 DEF DatabaseTypeOK

\* A statement on one submission leaves the other tables as they were.
LEMMA SetType ==
    ASSUME DatabaseTypeOK, UNCHANGED <<rows, gen>>, NEW s,
           \/ UNCHANGED status
           \/ \E st \in Status : SetStatus(s, st),
           \/ UNCHANGED score
           \/ SetScore(s, Default)
           \/ \E R \in SUBSET Row : SetScore(s, SumOf(R))
    PROVE  DatabaseTypeOK'
<1>1. status' \in [Sub -> Status]
  BY DEF DatabaseTypeOK, SetStatus, Live
<1>2. score' \in [Sub -> [from : {"nothing", "default", "rows"}, of : SUBSET Row]]
  <2> DEFINE Score == [from : {"nothing", "default", "rows"}, of : SUBSET Row]
  <2>1. Default \in Score /\ \A R \in SUBSET Row : SumOf(R) \in Score
    BY DEF Default, SumOf
  <2>2. score \in [Sub -> Score]
    BY DEF DatabaseTypeOK
  <2>3. score' = score \/ \E v \in Score : score' = [score EXCEPT ![s] = v]
    BY <2>1 DEF SetScore
  <2> HIDE DEF Score
  <2>4. score' \in [Sub -> Score]
    BY <2>2, <2>3
  <2>5. QED
    BY <2>4 DEF Score
<1>3. QED
  BY <1>1, <1>2 DEF DatabaseTypeOK

LEMMA RequestType ==
    ASSUME TypeOK, Request PROVE ops' \in 0..MaxOps /\ UNCHANGED <<faults, crashes>>
BY BoundAssumption DEF TypeOK, Request

LEMMA FaultType ==
    ASSUME TypeOK, Fault PROVE faults' \in 0..MaxFaults /\ UNCHANGED <<ops, crashes>>
BY BoundAssumption DEF TypeOK, Fault

LEMMA WakeType ==
    ASSUME TypeOK, Wake PROVE wake' \in BOOLEAN /\ missed' \in BOOLEAN
BY DEF TypeOK, ProcessTypeOK, Wake

LEMMA TypeInit == Init => TypeOK
<1> SUFFICES ASSUME Init PROVE TypeOK
  OBVIOUS
<1>1. DatabaseTypeOK
  <2>1. /\ status \in [Sub -> Status] /\ gen \in [Sub -> Nat]
    BY DEF Init, Status
  <2>2. /\ rows \in [Sub -> {rows[s] : s \in Sub}]
        /\ \A s \in Sub : rows[s] \in [DOMAIN rows[s] -> RowState] /\ DOMAIN rows[s] \subseteq Row
    BY EmptyTable DEF Init
  <2>3. score \in [Sub -> [from : {"nothing", "default", "rows"}, of : SUBSET Row]]
    BY DEF Init, Unset
  <2>4. QED
    BY <2>1, <2>2, <2>3 DEF DatabaseTypeOK
<1>2. ProcessTypeOK
  BY DEF Init, ProcessTypeOK, AtSub, Evaluating, FPC
<1>3. 0 \in 0..MaxOps /\ 0 \in 0..MaxFaults /\ 0 \in 0..MaxCrashes
  BY BoundAssumption
<1>4. QED
  BY <1>1, <1>2, <1>3 DEF Init, TypeOK

-----------------------------------------------------------------------------
LEMMA TypeNext == TypeOK /\ [Next]_vars => TypeOK'
<1> SUFFICES ASSUME TypeOK, [Next]_vars PROVE TypeOK'
  OBVIOUS
<1> USE DEF TypeOK
<1>1. ASSUME NEW s \in Sub, CheckLimits(s) PROVE TypeOK'
  BY <1>1 DEF CheckLimits, DatabaseTypeOK, ProcessTypeOK, AtSub, dbVars, callVars, queueVars, evalVars, histVars, bounds
<1>2. ASSUME NEW s \in Sub, InsertSubmission(s) PROVE TypeOK'
  BY <1>2 DEF InsertSubmission, DatabaseTypeOK, ProcessTypeOK, AtSub, Status, dbVars, callVars, queueVars, evalVars, histVars, bounds
<1>3. ASSUME NEW s \in Sub, InitSubmission(s) PROVE TypeOK'
  <2> USE <1>3
  <2>1. DatabaseTypeOK' /\ touched' \subseteq Sub /\ missed' = missed /\ waking' \in Nat
    <3>1. CASE UNCHANGED <<dbVars, waking, histVars>>
      BY <3>1 DEF DatabaseTypeOK, ProcessTypeOK, AtSub, dbVars, histVars
    <3>2. CASE /\ status' = [status EXCEPT ![s] = "waiting"]
               /\ rows' = [rows EXCEPT ![s] =
                     [r \in DOMAIN @ \cup DOMAIN FreshRows(s) |->
                         IF r \in DOMAIN @ THEN @[r] ELSE "new"]]
               /\ gen' = [gen EXCEPT ![s] = @ + 1]
               /\ touched' = IF s \in Busy \/ gen[s] > 0
                             THEN touched \cup {s} ELSE touched
               /\ WakeNext
               /\ UNCHANGED <<score, faulty, missed, bounds>>
      <4>1. status' \in [Sub -> Status] /\ gen' \in [Sub -> Nat] /\ touched' \subseteq Sub
        BY <3>2 DEF DatabaseTypeOK, Status
      <4>2. rows' \in [Sub -> {rows'[x] : x \in Sub}]
        BY <3>2 DEF DatabaseTypeOK
      <4>3. ASSUME NEW x \in Sub
            PROVE  rows'[x] \in [DOMAIN rows'[x] -> RowState] /\ DOMAIN rows'[x] \subseteq Row
        <5>1. CASE x # s
          BY <3>2, <5>1 DEF DatabaseTypeOK
        <5>2. CASE x = s
          <6>1. rows'[x] = [r \in DOMAIN rows[s] \cup DOMAIN FreshRows(s) |->
                               IF r \in DOMAIN rows[s] THEN rows[s][r] ELSE "new"]
            BY <3>2, <5>2 DEF DatabaseTypeOK
          <6>2. DOMAIN FreshRows(s) \subseteq Row
            BY FreshTable
          <6>3. rows[s] \in [DOMAIN rows[s] -> RowState] /\ DOMAIN rows[s] \subseteq Row
            BY DEF DatabaseTypeOK
          <6>4. QED
            BY <6>1, <6>2, <6>3 DEF RowState
        <5>3. QED
          BY <5>1, <5>2
      <4>4. QED
        BY <3>2, <4>1, <4>2, <4>3 DEF DatabaseTypeOK, ProcessTypeOK, WakeNext
    <3>3. QED
      BY <3>1, <3>2 DEF InitSubmission, histVars
  <2>2. /\ ops' \in 0..MaxOps /\ faults' \in 0..MaxFaults /\ crashes' \in 0..MaxCrashes
        /\ faulty' = faulty
    BY FaultType DEF InitSubmission, bounds, histVars
  <2>3. QED
    BY <2>1, <2>2 DEF InitSubmission, ProcessTypeOK, AtSub, callVars, queueVars, evalVars
<1>4. ASSUME NEW s \in Sub, ResetSubmission(s) PROVE TypeOK'
  BY <1>4, ResetType, RequestType DEF ResetSubmission, WakeNext, ProcessTypeOK, AtSub, queueVars, evalVars
<1>5. ASSUME NEW s \in Sub, DeleteSubmission(s) PROVE TypeOK'
  <2>1. DatabaseTypeOK'
    BY <1>5, EmptyTable DEF DeleteSubmission, DatabaseTypeOK, Status, Unset
  <2>2. QED
    BY <1>5, <2>1, RequestType DEF DeleteSubmission, ProcessTypeOK, AtSub, webVars, callVars, queueVars, evalVars, histVars
<1>6. CASE ResetProblemSubmissions
  <2>1. DatabaseTypeOK'
    BY <1>6 DEF ResetProblemSubmissions, DatabaseTypeOK, Status
  <2>2. QED
    BY <1>6, <2>1, RequestType DEF ResetProblemSubmissions, WakeNext, ProcessTypeOK, AtSub, queueVars, evalVars, histVars
<1>7. CASE RequestResetWaiting
  BY <1>7, RequestType DEF RequestResetWaiting, DatabaseTypeOK, ProcessTypeOK, AtSub, Idle, dbVars, queueVars, evalVars, histVars
<1>8. CASE ReadWorking
  <2>1. faulty' \subseteq Sub /\ serving' \in BOOLEAN
        /\ adm' \in [at : {"down", "read", "reset", "wake", "idle"}, ids : SUBSET Sub]
    <3> DEFINE working == {s \in Sub : status[s] = "working"}
    <3>1. \/ adm' = [at |-> "reset", ids |-> working] /\ UNCHANGED <<serving, faulty>>
          \/ adm' = Idle /\ serving' = TRUE /\ faulty' = faulty \cup (working \ Busy)
      BY <1>8 DEF ReadWorking, LeaveWorking
    <3>2. working \subseteq Sub
      OBVIOUS
    <3> HIDE DEF working
    <3>3. faulty' \subseteq Sub
      BY <3>1, <3>2
    <3>4. serving' \in BOOLEAN
      BY <3>1 DEF ProcessTypeOK
    <3>5. [at |-> "reset", ids |-> working] \in [at : {"down", "read", "reset", "wake", "idle"}, ids : SUBSET Sub]
      BY <3>2
    <3>6. Idle \in [at : {"down", "read", "reset", "wake", "idle"}, ids : SUBSET Sub]
      BY DEF Idle
    <3>7. QED
      BY <3>1, <3>3, <3>4, <3>5, <3>6
  <2>2. ops' \in 0..MaxOps /\ faults' \in 0..MaxFaults /\ crashes' \in 0..MaxCrashes
    BY <1>8, FaultType DEF ReadWorking, bounds
  <2>3. QED
    BY <1>8, <2>1, <2>2 DEF ReadWorking, DatabaseTypeOK, ProcessTypeOK, AtSub, dbVars, queueVars, evalVars
<1>9. CASE ResetWorking
  <2>1. faulty' \subseteq Sub /\ serving' \in BOOLEAN
        /\ adm' \in [at : {"down", "read", "reset", "wake", "idle"}, ids : SUBSET Sub]
    <3>1. adm.ids \subseteq Sub /\ {Idle, [at |-> "wake", ids |-> {}]} \subseteq [at : {"down", "read", "reset", "wake", "idle"}, ids : SUBSET Sub]
      BY DEF ProcessTypeOK, AtSub, Idle
    <3>2. QED
      BY <1>9, <3>1 DEF ResetWorking, LeaveWorking, ProcessTypeOK, AtSub
  <2>2. ops' \in 0..MaxOps /\ faults' \in 0..MaxFaults /\ crashes' \in 0..MaxCrashes
    BY <1>9, FaultType DEF ResetWorking, bounds
  <2>3. DatabaseTypeOK' /\ touched' \subseteq Sub
    BY <1>9, ResetType DEF ResetWorking, DatabaseTypeOK, dbVars
  <2>4. QED
    BY <1>9, <2>1, <2>2, <2>3 DEF ResetWorking, ProcessTypeOK, AtSub, queueVars, evalVars
<1>23. CASE WakeGrader
  <2>1. waking' \in Nat /\ serving' \in BOOLEAN
        /\ adm' \in [at : {"down", "read", "reset", "wake", "idle"}, ids : SUBSET Sub]
    <3>1. adm' = adm \/ adm' = Idle
      BY <1>23 DEF WakeGrader
    <3>2. Idle \in [at : {"down", "read", "reset", "wake", "idle"}, ids : SUBSET Sub]
      BY DEF Idle
    <3>3. waking' \in Nat /\ serving' \in BOOLEAN
      <4>1. \/ waking > 0 /\ waking' = waking - 1 /\ serving' = serving
            \/ serving' = TRUE /\ waking' = waking
        BY <1>23 DEF WakeGrader
      <4>2. waking \in Nat /\ serving \in BOOLEAN
        BY DEF ProcessTypeOK
      <4>3. waking' \in Nat
        BY <4>1, <4>2
      <4>4. serving' \in BOOLEAN
        BY <4>1, <4>2, Zenon
      <4>5. QED
        BY <4>3, <4>4
    <3>4. QED
      BY <3>1, <3>2, <3>3 DEF ProcessTypeOK
  <2>2. QED
    BY <1>23, <2>1, WakeType DEF WakeGrader, DatabaseTypeOK, ProcessTypeOK, AtSub, dbVars, queueVars, evalVars, bounds
<1>10. CASE StartGrader
  BY <1>10 DEF StartGrader, DatabaseTypeOK, ProcessTypeOK, AtSub, Evaluating, FPC, dbVars, webVars, callVars, queueVars, evalVars, histVars, bounds
<1>11. CASE Tick
  BY <1>11 DEF Tick, DatabaseTypeOK, ProcessTypeOK, AtSub, dbVars, webVars, callVars, queueVars, evalVars, histVars, bounds
<1>12. CASE ReceiveWake
  BY <1>12 DEF ReceiveWake, DatabaseTypeOK, ProcessTypeOK, AtSub, Evaluating, FPC, dbVars, webVars, callVars, evalVars, bounds
<1>13. CASE Fetch
  <2>1. queue' \subseteq Sub /\ rewake' \in BOOLEAN /\ missed' \in BOOLEAN
    BY <1>13 DEF Fetch, Found, ProcessTypeOK, AtSub
  <2>2. ops' \in 0..MaxOps /\ faults' \in 0..MaxFaults /\ crashes' \in 0..MaxCrashes
    BY <1>13, FaultType DEF Fetch, bounds
  <2>3. QED
    BY <1>13, <2>1, <2>2 DEF Fetch, DatabaseTypeOK, ProcessTypeOK, AtSub, Evaluating, FPC, dbVars, webVars, callVars, evalVars
<1>14. CASE NextWaiting
  BY <1>14 DEF NextWaiting, Take, DatabaseTypeOK, ProcessTypeOK, AtSub, Evaluating, FPC, dbVars, webVars, callVars, histVars, bounds
<1>15. CASE NextReeval
  <2>1. cur' \in Sub /\ queue' \subseteq Sub /\ fpc' \in FPC
    BY <1>15 DEF NextReeval, Take, ProcessTypeOK, AtSub, Evaluating, FPC
  <2>2. ops' \in 0..MaxOps /\ faults' \in 0..MaxFaults /\ crashes' \in 0..MaxCrashes
    BY <1>15, FaultType DEF NextReeval, bounds
  <2>3. DatabaseTypeOK' /\ touched' \subseteq Sub
    BY <1>15, ResetType DEF NextReeval, DatabaseTypeOK, dbVars
  <2>4. wake' \in BOOLEAN /\ missed' \in BOOLEAN
    BY <1>15, WakeType DEF NextReeval, ProcessTypeOK, AtSub
  <2>5. QED
    BY <1>15, <2>1, <2>2, <2>3, <2>4 DEF NextReeval, ProcessTypeOK, AtSub, webVars, callVars
<1>16. CASE EndOfWaiting
  BY <1>16 DEF EndOfWaiting, DatabaseTypeOK, ProcessTypeOK, AtSub, Evaluating, FPC, dbVars, webVars, callVars, evalVars, histVars, bounds
<1>17. CASE EndOfReevals
  BY <1>17 DEF EndOfReevals, DatabaseTypeOK, ProcessTypeOK, AtSub, Evaluating, FPC, dbVars, webVars, callVars, queueVars, evalVars, histVars, bounds
<1>18. CASE Begin
  <2>1. DatabaseTypeOK'
    BY <1>18, SetType DEF Begin, Status
  <2>2. faulty' \subseteq Sub /\ missed' \in BOOLEAN /\ fpc' \in FPC /\ (AtSub' => cur' \in Sub)
    BY <1>18 DEF Begin, FPC, Evaluating, AtSub, ProcessTypeOK, queueVars, evalVars
  <2>3. ops' \in 0..MaxOps /\ faults' \in 0..MaxFaults /\ crashes' \in 0..MaxCrashes
    BY <1>18, FaultType DEF Begin, bounds
  <2>4. QED
    BY <1>18, <2>1, <2>2, <2>3 DEF Begin, ProcessTypeOK, AtSub, webVars, callVars, queueVars, evalVars
<1>19. CASE Execute
  <2>1. fpc \in Evaluating /\ cur \in Sub
    BY <1>19 DEF Execute, Load, Compile, PrepareChecker, FetchTests, RunTest, ReadScores, WriteScore,
                 ReadUndone, MarkDone, Finish, Evaluating, AtSub, ProcessTypeOK
  <2>2. DatabaseTypeOK'
    <3>1. CASE UNCHANGED <<rows, gen>> /\ ~(\E r \in mem : RunTest(r)) /\ ~MarkDone
      <4>1. \/ UNCHANGED status \/ SetStatus(cur, "finished")
        BY <1>19, <3>1 DEF Execute, Load, Compile, PrepareChecker, FetchTests, ReadScores, WriteScore,
                     ReadUndone, Finish, GiveUp, FinishDefault
      <4>2. UNCHANGED score \/ SetScore(cur, Default) \/ SetScore(cur, SumOf(sum))
        BY <1>19, <3>1 DEF Execute, Load, Compile, PrepareChecker, FetchTests, ReadScores, WriteScore,
                     ReadUndone, Finish, GiveUp, FinishDefault
      <4>3. QED
        BY <3>1, <4>1, <4>2, SetType DEF Status, ProcessTypeOK, AtSub
    <3>2. ASSUME NEW r \in mem, RunTest(r) PROVE DatabaseTypeOK'
      <4>1. UNCHANGED <<status, score, gen>>
        BY <3>2 DEF RunTest, evalFrame
      <4>2. \/ UNCHANGED rows
            \/ r \in DOMAIN rows[cur] /\ rows' = [rows EXCEPT ![cur][r] = "graded"]
        BY <3>2 DEF RunTest
      <4>3. rows' \in [Sub -> {rows'[s] : s \in Sub}]
        BY <4>2 DEF DatabaseTypeOK
      <4>4. ASSUME NEW s \in Sub
            PROVE  rows'[s] \in [DOMAIN rows'[s] -> RowState] /\ DOMAIN rows'[s] \subseteq Row
        <5>1. rows[s] \in [DOMAIN rows[s] -> RowState] /\ DOMAIN rows[s] \subseteq Row
          BY DEF DatabaseTypeOK
        <5>2. rows'[s] = rows[s] \/ rows'[s] = [rows[s] EXCEPT ![r] = "graded"]
          BY <4>2 DEF DatabaseTypeOK
        <5>3. QED
          BY <5>1, <5>2 DEF RowState
      <4>5. QED
        BY <4>1, <4>3, <4>4 DEF DatabaseTypeOK
    <3>3. CASE MarkDone
      <4>1. UNCHANGED <<status, score, gen>>
        BY <3>3 DEF MarkDone, evalFrame
      <4>2. PICK marked \in SUBSET mem :
                rows' = [rows EXCEPT ![cur] =
                   [r \in DOMAIN @ |-> IF r \in marked THEN "done" ELSE @[r]]]
        BY <3>3 DEF MarkDone
      <4>3. rows' \in [Sub -> {rows'[s] : s \in Sub}]
        BY <4>2 DEF DatabaseTypeOK
      <4>4. ASSUME NEW s \in Sub
            PROVE  rows'[s] \in [DOMAIN rows'[s] -> RowState] /\ DOMAIN rows'[s] \subseteq Row
        <5>1. CASE s # cur
          BY <4>2, <5>1 DEF DatabaseTypeOK
        <5>2. CASE s = cur
          <6>1. rows'[s] = [r \in DOMAIN rows[s] |-> IF r \in marked THEN "done" ELSE rows[s][r]]
            BY <4>2, <5>2 DEF DatabaseTypeOK
          <6>2. rows[s] \in [DOMAIN rows[s] -> RowState] /\ DOMAIN rows[s] \subseteq Row
            BY DEF DatabaseTypeOK
          <6>3. QED
            BY <6>1, <6>2 DEF RowState
        <5>3. QED
          BY <5>1, <5>2
      <4>5. QED
        BY <4>1, <4>3, <4>4 DEF DatabaseTypeOK
    <3>4. UNCHANGED gen /\ (UNCHANGED rows \/ MarkDone \/ \E r \in mem : RunTest(r))
      BY <1>19 DEF Execute, Load, Compile, PrepareChecker, FetchTests, RunTest, ReadScores, WriteScore,
                   ReadUndone, MarkDone, Finish, GiveUp, FinishDefault, evalFrame
    <3>5. QED
      BY <3>1, <3>2, <3>3, <3>4
  <2>3. mem' \subseteq Row /\ sum' \subseteq Row
    <3>1. DOMAIN rows[cur] \subseteq Row /\ mem \subseteq Row /\ sum \subseteq Row
      BY <2>1 DEF DatabaseTypeOK, ProcessTypeOK, AtSub
    <3>2. QED
      BY <1>19, <3>1 DEF Execute, Load, Compile, PrepareChecker, FetchTests, RunTest, ReadScores, WriteScore,
                   ReadUndone, MarkDone, Finish, GiveUp, FinishDefault, Graded
  <2>4. fpc' \in FPC /\ cur' \in Sub \cup {None} /\ (AtSub' => cur' \in Sub)
    BY <1>19, <2>1 DEF Execute, Load, Compile, PrepareChecker, FetchTests, RunTest, ReadScores, WriteScore,
                 ReadUndone, MarkDone, Finish, GiveUp, FinishDefault, Evaluating, AtSub, FPC, evalFrame
  <2>5. faulty' \subseteq Sub
    BY <1>19, <2>1 DEF Execute, Load, Compile, PrepareChecker, FetchTests, RunTest, ReadScores, WriteScore,
                 ReadUndone, MarkDone, Finish, GiveUp, FinishDefault
  <2>6. UNCHANGED bounds \/ Fault
    BY <1>19 DEF Execute, Load, Compile, PrepareChecker, FetchTests, RunTest, ReadScores, WriteScore,
                 ReadUndone, MarkDone, Finish, FinishDefault
  <2>7. UNCHANGED <<webVars, wake, queueVars, touched, missed>>
    BY <1>19 DEF Execute, Load, Compile, PrepareChecker, FetchTests, RunTest, ReadScores, WriteScore,
                 ReadUndone, MarkDone, Finish, evalFrame
  <2>8. ops' \in 0..MaxOps /\ faults' \in 0..MaxFaults /\ crashes' \in 0..MaxCrashes
    BY <2>6, FaultType DEF bounds
  <2>9. QED
    BY <2>2, <2>3, <2>4, <2>5, <2>7, <2>8 DEF ProcessTypeOK, AtSub, webVars, callVars, queueVars
<1>20. CASE Crash
  <2>1. crashes' \in 0..MaxCrashes
    BY <1>20, BoundAssumption DEF Crash
  <2>2. QED
    BY <1>20, <2>1 DEF Crash, DatabaseTypeOK, ProcessTypeOK, AtSub, Evaluating, FPC, dbVars
<1>21. CASE Restart
  BY <1>21 DEF Restart, DatabaseTypeOK, ProcessTypeOK, AtSub, dbVars, queueVars, evalVars, histVars, bounds
<1>22. CASE UNCHANGED vars
  BY <1>22 DEF vars, DatabaseTypeOK, ProcessTypeOK, AtSub, dbVars, webVars, callVars, queueVars, evalVars, histVars, bounds
<1>24. QED
  BY <1>23, <1>1, <1>2, <1>3, <1>4, <1>5, <1>6, <1>7, <1>8, <1>9, <1>10, <1>11, <1>12, <1>13, <1>14, <1>15,
     <1>16, <1>17, <1>18, <1>19, <1>20, <1>21, <1>22 DEF Next, Handlers, Grader

\* The type invariant of the submission life cycle.
THEOREM TypeCorrect == Spec => []TypeOK
<1>1. QED
  BY TypeInit, TypeNext, PTL DEF Spec

-----------------------------------------------------------------------------
(* What the shared statements do to one submission *)

LEMMA ResetFrame ==
    ASSUME TypeOK, NEW S, ResetSubmissions(S), NEW s \in Sub
    PROVE  /\ s \in S \cap Live =>
                 /\ status'[s] = "waiting" /\ score'[s] = Unset
                 /\ rows'[s] = FreshRows(s) /\ gen'[s] = gen[s] + 1
                 /\ Graded(s)' = {}
                 /\ s \in touched' <=> s \in Busy
           /\ s \notin S \cap Live =>
                 /\ status'[s] = status[s] /\ score'[s] = score[s]
                 /\ rows'[s] = rows[s] /\ gen'[s] = gen[s]
                 /\ s \in touched' <=> s \in touched
<1>1. s \in S \cap Live =>
        /\ status'[s] = "waiting" /\ score'[s] = Unset
        /\ rows'[s] = FreshRows(s) /\ gen'[s] = gen[s] + 1
        /\ s \in touched' <=> s \in Busy
  BY DEF ResetSubmissions
<1>2. s \notin S \cap Live =>
        /\ status'[s] = status[s] /\ score'[s] = score[s]
        /\ rows'[s] = rows[s] /\ gen'[s] = gen[s]
        /\ s \in touched' <=> s \in touched
  BY DEF ResetSubmissions
<1>3. rows'[s] = FreshRows(s) => Graded(s)' = {}
  <2>1. FreshRows(s) \in [DOMAIN FreshRows(s) -> {"new"}]
    BY FreshTable DEF TypeOK
  <2>2. QED
    BY <2>1 DEF Graded
<1>4. QED
  BY <1>1, <1>2, <1>3

LEMMA SetFrame ==
    ASSUME TypeOK, NEW s \in Sub, NEW st, NEW sc
    PROVE  /\ SetStatus(s, st) =>
                 /\ status'[s] = IF s \in Live THEN st ELSE status[s]
                 /\ \A x \in Sub \ {s} : status'[x] = status[x]
           /\ SetScore(s, sc) =>
                 /\ score'[s] = IF s \in Live THEN sc ELSE score[s]
                 /\ \A x \in Sub \ {s} : score'[x] = score[x]
<1>1. status \in [Sub -> Status] /\ score \in [Sub -> {score[x] : x \in Sub}]
  BY DEF TypeOK, DatabaseTypeOK
<1>2. QED
  BY <1>1 DEF SetStatus, SetScore

\* An evaluation touches nothing but its submission, until Finish lets it go.
LEMMA ExecuteFrame ==
    ASSUME TypeOK, Execute
    PROVE  /\ fpc \in Evaluating /\ cur \in Sub
           /\ UNCHANGED <<gen, webVars, wake, queueVars, touched, missed>>
           /\ \/ fpc' \in Evaluating /\ cur' = cur
              \/ fpc' = "next" /\ Finish
           /\ faulty' \in {faulty, faulty \cup {cur}}
           /\ \A s \in Sub \ {cur} :
                 status'[s] = status[s] /\ rows'[s] = rows[s] /\ score'[s] = score[s]
           /\ DOMAIN rows'[cur] = DOMAIN rows[cur]
           /\ status'[cur] \in {status[cur], "finished"}
           /\ cur \notin Live => status'[cur] = status[cur] /\ score'[cur] = score[cur]
<1>1. fpc \in Evaluating /\ cur \in Sub
  BY DEF Execute, Load, Compile, PrepareChecker, FetchTests, RunTest, ReadScores, WriteScore,
                 ReadUndone, MarkDone, Finish, GiveUp, FinishDefault, Evaluating, AtSub, TypeOK, ProcessTypeOK
<1>2. UNCHANGED <<gen, webVars, wake, queueVars, touched, missed>>
  BY DEF Execute, Load, Compile, PrepareChecker, FetchTests, RunTest, ReadScores, WriteScore,
                 ReadUndone, MarkDone, Finish, GiveUp, FinishDefault, evalFrame
<1>3. \/ fpc' \in Evaluating /\ cur' = cur
      \/ fpc' = "next" /\ Finish
  BY <1>1 DEF Execute, Load, Compile, PrepareChecker, FetchTests, RunTest, ReadScores, WriteScore,
                 ReadUndone, MarkDone, Finish, GiveUp, FinishDefault, evalFrame, Evaluating
<1>4. faulty' \in {faulty, faulty \cup {cur}}
  BY DEF Execute, Load, Compile, PrepareChecker, FetchTests, RunTest, ReadScores, WriteScore,
                 ReadUndone, MarkDone, Finish, GiveUp, FinishDefault
<1>5. \A s \in Sub \ {cur} : rows'[s] = rows[s]
  <2>1. \/ UNCHANGED rows
        \/ \E r \in mem : rows' = [rows EXCEPT ![cur][r] = "graded"]
        \/ \E f : rows' = [rows EXCEPT ![cur] = f]
    BY DEF Execute, Load, Compile, PrepareChecker, FetchTests, RunTest, ReadScores, WriteScore,
                 ReadUndone, MarkDone, Finish, GiveUp, FinishDefault
  <2>2. rows \in [Sub -> {rows[x] : x \in Sub}]
    BY DEF TypeOK, DatabaseTypeOK
  <2>3. QED
    BY <2>1, <2>2
<1>6. DOMAIN rows'[cur] = DOMAIN rows[cur]
  <2>1. \/ UNCHANGED rows
        \/ \E r \in mem : rows' = [rows EXCEPT ![cur][r] = "graded"]
        \/ \E M : rows' = [rows EXCEPT ![cur] = [r \in DOMAIN @ |-> IF r \in M THEN "done" ELSE @[r]]]
    BY DEF Execute, Load, Compile, PrepareChecker, FetchTests, RunTest, ReadScores, WriteScore,
                 ReadUndone, MarkDone, Finish, GiveUp, FinishDefault
  <2>2. rows \in [Sub -> {rows[x] : x \in Sub}] /\ rows[cur] \in [DOMAIN rows[cur] -> RowState]
    BY <1>1 DEF TypeOK, DatabaseTypeOK
  <2>3. QED
    BY <1>1, <2>1, <2>2
<1>7. /\ UNCHANGED status \/ SetStatus(cur, "finished")
      /\ UNCHANGED score \/ SetScore(cur, Default) \/ SetScore(cur, SumOf(sum))
  BY DEF Execute, Load, Compile, PrepareChecker, FetchTests, RunTest, ReadScores, WriteScore,
                 ReadUndone, MarkDone, Finish, GiveUp, FinishDefault
<1>8. QED
  BY <1>1, <1>2, <1>3, <1>4, <1>5, <1>6, <1>7, SetFrame

LEMMA BeginFrame ==
    ASSUME TypeOK, Begin
    PROVE  /\ fpc = "begin" /\ fpc' \in {"load", "next"} /\ cur \in Sub
           /\ UNCHANGED <<rows, score, gen, webVars, wake, queueVars, evalVars, touched>>
           /\ \A s \in Sub :
                 status'[s] = IF s = cur /\ s \in Live /\ fpc' = "load" THEN "working" ELSE status[s]
           /\ fpc' = "load" => faulty' = faulty \ {cur} /\ missed' = missed
           /\ fpc' = "next" => faulty' = faulty /\ missed'
<1>1. cur \in Sub /\ status \in [Sub -> Status]
  BY DEF Begin, TypeOK, ProcessTypeOK, DatabaseTypeOK, AtSub
<1>2. \/ /\ SetStatus(cur, "working") /\ fpc' = "load"
         /\ faulty' = faulty \ {cur} /\ missed' = missed
      \/ /\ fpc' = "next" /\ UNCHANGED <<status, faulty>> /\ missed'
  BY DEF Begin
<1>3. \A s \in Sub :
        status'[s] = IF s = cur /\ s \in Live /\ fpc' = "load" THEN "working" ELSE status[s]
  BY <1>1, <1>2 DEF SetStatus
<1>4. QED
  BY <1>1, <1>2, <1>3 DEF Begin

-----------------------------------------------------------------------------
(* Every working submission has an owner *)

\* The ids have been reset when ResetWaitingSubmissions wakes the grader.
WakesDone == adm.at = "wake" => adm.ids = {}

LEMMA WakesDoneNext == WakesDone /\ [Next]_vars => WakesDone'
<1> SUFFICES ASSUME WakesDone, [Next]_vars PROVE WakesDone'
  OBVIOUS
<1>1. CASE UNCHANGED adm
  BY <1>1 DEF WakesDone
<1>2. CASE RequestResetWaiting \/ ReadWorking \/ ResetWorking \/ WakeGrader \/ Crash \/ Restart
  <2>1. CASE RequestResetWaiting
    BY <2>1 DEF RequestResetWaiting, Idle, WakesDone
  <2>2. CASE Restart
    BY <2>2 DEF Restart, WakesDone
  <2>3. CASE ReadWorking \/ ResetWorking
    BY <2>3 DEF ReadWorking, ResetWorking, LeaveWorking, Idle, WakesDone
  <2>4. CASE WakeGrader \/ Crash
    BY <1>1, <2>4 DEF WakeGrader, Crash, Idle, WakesDone
  <2>5. QED
    BY <1>2, <2>1, <2>2, <2>3, <2>4
<1>3. CASE Execute
  BY <1>1, <1>3 DEF Execute, Load, Compile, PrepareChecker, FetchTests, RunTest, ReadScores, WriteScore,
     ReadUndone, MarkDone, Finish, evalFrame, webVars, callVars
<1>4. CASE Grader /\ ~Execute
  BY <1>1, <1>4 DEF Grader, StartGrader, ReceiveWake, Fetch, NextWaiting, NextReeval,
     EndOfWaiting, EndOfReevals, Begin, webVars, callVars
<1>5. CASE Handlers /\ ~RequestResetWaiting
  BY <1>1, <1>5 DEF Handlers, CheckLimits, InsertSubmission, InitSubmission, ResetSubmission,
     DeleteSubmission, ResetProblemSubmissions, webVars, callVars
<1>6. CASE Tick \/ UNCHANGED vars
  BY <1>1, <1>6 DEF Tick, vars, webVars, callVars
<1>7. QED
  BY <1>2, <1>3, <1>4, <1>5, <1>6 DEF Next

LEMMA OwnedNext == TypeOK /\ WakesDone /\ WorkingIsOwned /\ [Next]_vars => WorkingIsOwned'
<1> SUFFICES ASSUME TypeOK, WakesDone, WorkingIsOwned, [Next]_vars,
                    NEW s \in Sub, status'[s] = "working"
             PROVE  (\/ s \in Busy
                     \/ adm.at \in {"down", "read"} \/ s \in adm.ids
                     \/ s \in faulty)'
  BY DEF WorkingIsOwned
<1> DEFINE Owned == \/ s \in Busy
                    \/ adm.at \in {"down", "read"} \/ s \in adm.ids
                    \/ s \in faulty
<1>1. status[s] = "working" => Owned
  BY DEF WorkingIsOwned
<1>2. ASSUME status[s] = "working", UNCHANGED <<adm, fpc, cur, faulty>> PROVE Owned'
  BY <1>1, <1>2 DEF Busy
<1>3. ASSUME NEW x \in Sub, CheckLimits(x) \/ InsertSubmission(x) \/ InitSubmission(x)
                            \/ ResetSubmission(x) \/ DeleteSubmission(x)
      PROVE  Owned'
  <2>1. UNCHANGED <<adm, fpc, cur, faulty>>
    BY <1>3 DEF CheckLimits, InsertSubmission, InitSubmission, ResetSubmission, DeleteSubmission,
                webVars, callVars, evalVars, histVars
  <2>2. status[s] = "working"
    <3>1. CASE CheckLimits(x)
      BY <3>1 DEF CheckLimits, dbVars
    <3>2. CASE InsertSubmission(x)
      BY <3>2 DEF InsertSubmission, TypeOK, DatabaseTypeOK
    <3>3. CASE InitSubmission(x)
      BY <3>3 DEF InitSubmission, TypeOK, DatabaseTypeOK, dbVars
    <3>4. CASE ResetSubmission(x)
      BY <3>4, ResetFrame DEF ResetSubmission
    <3>5. CASE DeleteSubmission(x)
      BY <3>5 DEF DeleteSubmission, TypeOK, DatabaseTypeOK
    <3>6. QED
      BY <1>3, <3>1, <3>2, <3>3, <3>4, <3>5
  <2>3. QED
    BY <1>2, <2>1, <2>2
<1>4. CASE ResetProblemSubmissions
  BY <1>4, <1>2 DEF ResetProblemSubmissions, evalVars, histVars
<1>5. CASE RequestResetWaiting
  BY <1>5 DEF RequestResetWaiting, Idle
<1>6. CASE ReadWorking
  BY <1>6 DEF ReadWorking, LeaveWorking, Idle, Busy, dbVars, evalVars
<1>7. CASE ResetWorking
  <2>1. CASE ResetSubmissions(adm.ids) /\ UNCHANGED faulty
    <3>1. status[s] = "working" /\ s \notin adm.ids
      BY <2>1, ResetFrame DEF Live
    <3>2. QED
      BY <1>1, <1>7, <2>1, <3>1 DEF ResetWorking, Busy, evalVars
  <2>2. CASE LeaveWorking(adm.ids) /\ UNCHANGED dbVars
    BY <1>1, <1>7, <2>2 DEF ResetWorking, LeaveWorking, Busy, dbVars, evalVars
  <2>3. QED
    BY <1>7, <2>1, <2>2 DEF ResetWorking
<1>15. CASE WakeGrader
  <2>1. UNCHANGED <<status, fpc, cur, faulty>> /\ (UNCHANGED adm \/ adm.at = "wake")
    BY <1>15 DEF WakeGrader, dbVars, evalVars
  <2>2. QED
    BY <1>1, <1>2, <2>1 DEF WakesDone, Busy
<1>8. CASE StartGrader \/ Tick \/ ReceiveWake \/ Fetch \/ NextWaiting \/ EndOfWaiting \/ EndOfReevals
  <2>1. UNCHANGED <<status, adm, faulty>> /\ Busy = {}
    BY <1>8 DEF StartGrader, Tick, ReceiveWake, Fetch, NextWaiting, EndOfWaiting, EndOfReevals,
                dbVars, webVars, callVars, histVars, Busy, Evaluating
  <2>2. QED
    BY <1>1, <2>1
<1>9. CASE NextReeval
  <2>1. status[s] = "working" /\ UNCHANGED <<adm, faulty>> /\ Busy = {}
    BY <1>9, ResetFrame DEF NextReeval, dbVars, webVars, callVars, Busy, Evaluating
  <2>2. QED
    BY <1>1, <2>1
<1>10. CASE Begin
  <2>1. UNCHANGED <<adm, cur>> /\ cur \in Sub /\ Busy = {}
    BY <1>10 DEF Begin, webVars, callVars, evalVars, Busy, Evaluating, TypeOK, ProcessTypeOK, AtSub
  <2>2. CASE SetStatus(cur, "working") /\ fpc' = "load" /\ faulty' = faulty \ {cur}
    BY <1>1, <2>1, <2>2, SetFrame DEF Busy, Evaluating
  <2>3. CASE UNCHANGED <<status, faulty>>
    BY <1>1, <2>1, <2>3
  <2>4. QED
    BY <1>10, <2>2, <2>3 DEF Begin
<1>11. CASE Execute
  <2>1. UNCHANGED adm /\ status[s] = "working" /\ faulty \subseteq faulty' /\ Busy = {cur}
    BY <1>11, ExecuteFrame DEF webVars, callVars, Busy
  <2>2. CASE fpc' \in Evaluating /\ cur' = cur
    BY <1>1, <2>1, <2>2 DEF Busy
  <2>3. CASE Finish
    <3>1. s = cur => s \in faulty'
      BY <2>1, <2>3, SetFrame DEF Finish, Live
    <3>2. QED
      BY <1>1, <2>1, <3>1
  <2>4. QED
    BY <1>11, <2>2, <2>3, ExecuteFrame
<1>12. CASE Crash \/ Restart
  BY <1>12 DEF Crash, Restart, TypeOK, ProcessTypeOK
<1>13. CASE UNCHANGED vars
  BY <1>2, <1>13 DEF vars, dbVars, webVars, callVars, evalVars, histVars
<1>14. QED
  BY <1>3, <1>4, <1>5, <1>6, <1>7, <1>8, <1>9, <1>10, <1>11, <1>12, <1>13, <1>15
     DEF Next, Handlers, Grader

\* A submission is "working" only while somebody is to finish or reset it.
THEOREM WorkingOwned == Spec => []WorkingIsOwned
<1>1. Init => WorkingIsOwned /\ WakesDone
  BY DEF Init, WorkingIsOwned, WakesDone
<1>2. QED
  BY <1>1, OwnedNext, WakesDoneNext, TypeCorrect, PTL DEF Spec

-----------------------------------------------------------------------------
(* Where submissions are *)

\* The handlers leave the grader goroutine where it is.
Web ==
    \/ \E x \in Sub : CheckLimits(x) \/ InsertSubmission(x) \/ InitSubmission(x)
                     \/ ResetSubmission(x) \/ DeleteSubmission(x)
    \/ ResetProblemSubmissions \/ RequestResetWaiting \/ ReadWorking \/ ResetWorking \/ WakeGrader \/ Tick

LEMMA WebFrame == Web => UNCHANGED <<fpc, queue, reevals, rewake, cur, mem, sum>>
BY DEF Web, CheckLimits, InsertSubmission, InitSubmission, ResetSubmission, DeleteSubmission,
       ResetProblemSubmissions, RequestResetWaiting, ReadWorking, ResetWorking, WakeGrader, Tick,
       queueVars, evalVars

LEMMA PlacesNext == TypeOK /\ Places /\ [Next]_vars => Places'
<1> SUFFICES ASSUME TypeOK, Places, [Next]_vars PROVE Places'
  OBVIOUS
<1>1. CASE Web
  BY <1>1, WebFrame DEF Places, AtSub
<1>2. CASE StartGrader \/ ReceiveWake \/ Fetch \/ EndOfWaiting \/ EndOfReevals
  BY <1>2 DEF StartGrader, ReceiveWake, Fetch, EndOfWaiting, EndOfReevals,
              Places, AtSub, Evaluating, queueVars, evalVars
<1>3. CASE NextWaiting \/ NextReeval
  BY <1>3 DEF NextWaiting, NextReeval, Take, Places, AtSub, Evaluating
<1>4. CASE Begin
  BY <1>4 DEF Begin, Places, AtSub, Evaluating, queueVars, evalVars
<1>5. CASE Execute
  BY <1>5, ExecuteFrame DEF Places, AtSub, Evaluating, queueVars
<1>6. CASE Crash
  BY <1>6 DEF Crash, Places, AtSub, Evaluating
<1>7. CASE Restart \/ UNCHANGED vars
  BY <1>7 DEF Restart, vars, Places, AtSub, queueVars, evalVars
<1>8. QED
  BY <1>1, <1>2, <1>3, <1>4, <1>5, <1>6, <1>7 DEF Next, Handlers, Grader, Web

LEMMA UnbornNext == TypeOK /\ Places /\ Unborn /\ [Next]_vars => Unborn'
<1> SUFFICES ASSUME TypeOK, Places, Unborn, [Next]_vars, NEW s \in Sub
             PROVE  /\ status'[s] = "absent" => gen'[s] = 0 /\ s \notin queue' /\ ~(AtSub /\ s = cur)'
                    /\ creator'[s] = "checked" => status'[s] = "absent"
  BY DEF Unborn
<1> DEFINE Goal == /\ status'[s] = "absent" => gen'[s] = 0 /\ s \notin queue' /\ ~(AtSub /\ s = cur)'
                   /\ creator'[s] = "checked" => status'[s] = "absent"
<1>1. /\ status[s] = "absent" => gen[s] = 0 /\ s \notin queue /\ ~(AtSub /\ s = cur)
      /\ creator[s] = "checked" => status[s] = "absent"
  BY DEF Unborn
<1>2. s \in Live <=> status[s] \notin {"absent", "deleted"}
  BY DEF Live
<1>3. CASE Web
  <2>1. UNCHANGED <<fpc, queue, reevals, rewake, cur>>
    BY <1>3, WebFrame
  <2>2. ASSUME NEW S, ResetSubmissions(S), UNCHANGED creator PROVE Goal
    BY <1>1, <1>2, <2>1, <2>2, ResetFrame DEF AtSub
  <2>3. ASSUME NEW x \in Sub, CheckLimits(x) PROVE Goal
    BY <1>1, <2>1, <2>3 DEF CheckLimits, dbVars, AtSub, TypeOK, ProcessTypeOK
  <2>4. ASSUME NEW x \in Sub, InsertSubmission(x) PROVE Goal
    BY <1>1, <2>1, <2>4 DEF InsertSubmission, AtSub, TypeOK, ProcessTypeOK, DatabaseTypeOK
  <2>5. ASSUME NEW x \in Sub, InitSubmission(x) PROVE Goal
    <3>1. creator'[s] = "checked" => creator[s] = "checked" /\ s # x
      BY <2>5 DEF InitSubmission, TypeOK, ProcessTypeOK
    <3>2. \/ UNCHANGED dbVars
          \/ /\ x \in Live /\ status' = [status EXCEPT ![x] = "waiting"]
             /\ gen' = [gen EXCEPT ![x] = @ + 1]
      BY <2>5 DEF InitSubmission
    <3>3. QED
      BY <1>1, <1>2, <2>1, <3>1, <3>2 DEF AtSub, TypeOK, DatabaseTypeOK, dbVars
  <2>6. ASSUME NEW x \in Sub, ResetSubmission(x) PROVE Goal
    BY <2>2, <2>6 DEF ResetSubmission, webVars
  <2>7. ASSUME NEW x \in Sub, DeleteSubmission(x) PROVE Goal
    BY <1>1, <1>2, <2>1, <2>7 DEF DeleteSubmission, webVars, AtSub, TypeOK, DatabaseTypeOK
  <2>8. CASE ResetProblemSubmissions
    BY <1>1, <1>2, <2>1, <2>8 DEF ResetProblemSubmissions, webVars, AtSub
  <2>9. CASE RequestResetWaiting \/ ReadWorking \/ WakeGrader \/ Tick
    BY <1>1, <2>1, <2>9 DEF RequestResetWaiting, ReadWorking, WakeGrader, Tick, webVars, dbVars, AtSub
  <2>10. CASE ResetWorking
    BY <1>1, <2>1, <2>2, <2>10 DEF ResetWorking, dbVars, AtSub
  <2>11. QED
    BY <1>3, <2>3, <2>4, <2>5, <2>6, <2>7, <2>8, <2>9, <2>10 DEF Web
<1>4. CASE StartGrader \/ ReceiveWake \/ EndOfWaiting \/ EndOfReevals
  BY <1>1, <1>4 DEF StartGrader, ReceiveWake, EndOfWaiting, EndOfReevals, AtSub, Evaluating,
                    dbVars, webVars, queueVars, evalVars
<1>5. CASE Fetch
  BY <1>1, <1>5 DEF Fetch, Found, AtSub, Evaluating, dbVars, webVars, evalVars
<1>6. CASE NextWaiting
  BY <1>1, <1>6 DEF NextWaiting, Take, AtSub, Evaluating, dbVars, webVars
<1>7. CASE NextReeval
  BY <1>1, <1>2, <1>7, ResetFrame DEF NextReeval, Take, AtSub, Evaluating, dbVars, webVars
<1>8. CASE Begin
  BY <1>1, <1>2, <1>8, BeginFrame DEF AtSub, Evaluating, webVars, queueVars, evalVars
<1>9. CASE Execute
  BY <1>1, <1>2, <1>9, ExecuteFrame DEF AtSub, Evaluating, webVars, queueVars
<1>10. CASE Crash \/ Restart \/ UNCHANGED vars
  BY <1>1, <1>10 DEF Crash, Restart, vars, AtSub, Evaluating, dbVars, webVars, queueVars, evalVars
<1>11. QED
  BY <1>3, <1>4, <1>5, <1>6, <1>7, <1>8, <1>9, <1>10 DEF Next, Handlers, Grader, Web

LEMMA UninitialisedNext ==
    TypeOK /\ Places /\ Unborn /\ Uninitialised /\ [Next]_vars => Uninitialised'
<1> SUFFICES ASSUME TypeOK, Places, Unborn, Uninitialised, [Next]_vars, NEW s \in Sub, gen'[s] = 0
             PROVE  /\ DOMAIN rows'[s] = {} /\ score'[s] = Unset
                    /\ status'[s] \in {"absent", "creating", "reevaling", "deleted"}
                    /\ ~reevals' => s \notin queue'
                    /\ (AtSub /\ s = cur => s \notin Live)'
  BY DEF Uninitialised, Unset
<1> DEFINE Goal == /\ DOMAIN rows'[s] = {} /\ score'[s] = Unset
                   /\ status'[s] \in {"absent", "creating", "reevaling", "deleted"}
                   /\ ~reevals' => s \notin queue'
                   /\ (AtSub /\ s = cur => s \notin Live)'
<1>1. gen[s] = 0 =>
        /\ DOMAIN rows[s] = {} /\ score[s] = Unset
        /\ status[s] \in {"absent", "creating", "reevaling", "deleted"}
        /\ ~reevals => s \notin queue
        /\ AtSub /\ s = cur => s \notin Live
  BY DEF Uninitialised
<1>2. /\ s \in Live <=> status[s] \notin {"absent", "deleted"}
      /\ s \in Live' <=> status'[s] \notin {"absent", "deleted"}
      /\ gen[s] \in Nat
  BY DEF Live, TypeOK, DatabaseTypeOK
<1>3. CASE Web
  <2>1. UNCHANGED <<fpc, queue, reevals, rewake, cur>>
    BY <1>3, WebFrame
  <2>2. ASSUME NEW S, ResetSubmissions(S) PROVE Goal
    BY <1>1, <1>2, <2>1, <2>2, ResetFrame DEF AtSub
  <2>3. ASSUME NEW x \in Sub, InsertSubmission(x) PROVE Goal
    <3>1. creator[x] = "checked" => status[x] = "absent"
      BY DEF Unborn
    <3>2. status[s] = "absent" => s \notin queue /\ ~(AtSub /\ s = cur)
      BY DEF Unborn
    <3>3. QED
      BY <1>1, <1>2, <2>1, <2>3, <3>1, <3>2 DEF InsertSubmission, AtSub, TypeOK, DatabaseTypeOK
  <2>4. ASSUME NEW x \in Sub, InitSubmission(x) PROVE Goal
    <3>1. CASE UNCHANGED dbVars
      BY <1>1, <1>2, <2>1, <3>1 DEF dbVars, AtSub
    <3>2. CASE /\ x \in Live /\ status' = [status EXCEPT ![x] = "waiting"]
               /\ gen' = [gen EXCEPT ![x] = @ + 1] /\ UNCHANGED score
               /\ \E f : rows' = [rows EXCEPT ![x] = f]
      <4>1. s # x
        BY <1>2, <3>2 DEF TypeOK, DatabaseTypeOK
      <4>2. QED
        BY <1>1, <1>2, <2>1, <3>2, <4>1 DEF AtSub, TypeOK, DatabaseTypeOK
    <3>3. QED
      BY <2>4, <3>1, <3>2 DEF InitSubmission
  <2>5. ASSUME NEW x \in Sub, ResetSubmission(x) PROVE Goal
    BY <2>2, <2>5 DEF ResetSubmission
  <2>6. ASSUME NEW x \in Sub, DeleteSubmission(x) PROVE Goal
    BY <1>1, <1>2, <2>1, <2>6, EmptyTable DEF DeleteSubmission, webVars, AtSub, TypeOK, DatabaseTypeOK
  <2>7. CASE ResetProblemSubmissions
    BY <1>1, <1>2, <2>1, <2>7 DEF ResetProblemSubmissions, AtSub
  <2>8. ASSUME NEW x \in Sub, CheckLimits(x) PROVE Goal
    BY <1>1, <1>2, <2>1, <2>8 DEF CheckLimits, dbVars, AtSub
  <2>9. CASE RequestResetWaiting \/ ReadWorking \/ WakeGrader \/ Tick
    BY <1>1, <1>2, <2>1, <2>9 DEF RequestResetWaiting, ReadWorking, WakeGrader, Tick, dbVars, AtSub
  <2>10. CASE ResetWorking
    BY <1>1, <1>2, <2>1, <2>2, <2>10 DEF ResetWorking, dbVars, AtSub
  <2>11. QED
    BY <1>3, <2>3, <2>4, <2>5, <2>6, <2>7, <2>8, <2>9, <2>10 DEF Web
<1>4. CASE StartGrader \/ ReceiveWake \/ EndOfWaiting \/ EndOfReevals
  BY <1>1, <1>2, <1>4 DEF StartGrader, ReceiveWake, EndOfWaiting, EndOfReevals, AtSub, Evaluating, Places,
                    dbVars, webVars, queueVars, evalVars
<1>5. CASE Fetch
  <2>1. UNCHANGED <<rows, score, gen, status, reevals>> /\ ~AtSub'
    BY <1>5 DEF Fetch, dbVars, AtSub, Evaluating
  <2>2. ~reevals => s \notin queue'
    BY <1>1, <1>5, <2>1 DEF Fetch, Found
  <2>3. QED
    BY <1>1, <2>1, <2>2
<1>6. CASE NextWaiting
  BY <1>1, <1>2, <1>6 DEF NextWaiting, Take, AtSub, Evaluating, dbVars, webVars
<1>7. CASE NextReeval
  <2>1. UNCHANGED reevals /\ reevals
    BY <1>7 DEF NextReeval
  <2>2. CASE \E x \in queue : cur' = x /\ ResetSubmissions({x})
    BY <1>1, <1>2, <2>1, <2>2, ResetFrame
  <2>3. CASE UNCHANGED dbVars /\ fpc' = "next"
    BY <1>1, <2>1, <2>3 DEF dbVars, AtSub, Evaluating
  <2>4. QED
    BY <1>7, <2>2, <2>3 DEF NextReeval, Take
<1>8. CASE Begin
  BY <1>1, <1>2, <1>8, BeginFrame DEF AtSub, Evaluating, queueVars, evalVars
<1>9. CASE Execute
  BY <1>1, <1>2, <1>9, ExecuteFrame DEF AtSub, Evaluating, queueVars
<1>10. CASE Crash \/ Restart \/ UNCHANGED vars
  BY <1>1, <1>2, <1>10 DEF Crash, Restart, vars, AtSub, Evaluating, dbVars, queueVars, evalVars
<1>11. QED
  BY <1>3, <1>4, <1>5, <1>6, <1>7, <1>8, <1>9, <1>10 DEF Next, Handlers, Grader, Web

-----------------------------------------------------------------------------
(* The rows of a submission come from one initialisation *)

LEMMA RowsNext ==
    TypeOK /\ Uninitialised /\ RowsOfOneInit /\ [Next]_vars => RowsOfOneInit'
<1> SUFFICES ASSUME TypeOK, Uninitialised, RowsOfOneInit, [Next]_vars, HasSubtasks, NEW s \in Sub
             PROVE  DOMAIN rows'[s] \subseteq {gen'[s]} \X Test
  BY DEF RowsOfOneInit
<1>1. DOMAIN rows[s] \subseteq {gen[s]} \X Test
  BY DEF RowsOfOneInit
<1>2. ASSUME NEW S, ResetSubmissions(S) PROVE DOMAIN rows'[s] \subseteq {gen'[s]} \X Test
  <2>1. DOMAIN FreshRows(s) = {gen[s] + 1} \X Test
    BY FreshTable DEF TypeOK
  <2>2. \/ rows'[s] = FreshRows(s) /\ gen'[s] = gen[s] + 1
        \/ rows'[s] = rows[s] /\ gen'[s] = gen[s]
    BY <1>2, ResetFrame
  <2>3. QED
    BY <1>1, <2>1, <2>2
<1>3. ASSUME NEW x \in Sub, InitSubmission(x) PROVE DOMAIN rows'[s] \subseteq {gen'[s]} \X Test
  <2>1. CASE UNCHANGED dbVars
    BY <1>1, <2>1 DEF dbVars
  <2>2. CASE /\ ~(HasSubtasks /\ gen[x] > 0)
             /\ rows' = [rows EXCEPT ![x] =
                   [r \in DOMAIN @ \cup DOMAIN FreshRows(x) |-> IF r \in DOMAIN @ THEN @[r] ELSE "new"]]
             /\ gen' = [gen EXCEPT ![x] = @ + 1]
    <3>1. gen[x] = 0 /\ DOMAIN rows[x] = {}
      BY <2>2 DEF Uninitialised, TypeOK, DatabaseTypeOK
    <3>2. DOMAIN FreshRows(x) = {gen[x] + 1} \X Test
      BY FreshTable DEF TypeOK
    <3>3. CASE s = x
      <4>1. DOMAIN rows'[s] = DOMAIN rows[x] \cup DOMAIN FreshRows(x) /\ gen'[s] = gen[x] + 1
        BY <2>2, <3>3 DEF TypeOK, DatabaseTypeOK
      <4>2. QED
        BY <3>1, <3>2, <4>1
    <3>4. CASE s # x
      BY <1>1, <2>2, <3>4 DEF TypeOK, DatabaseTypeOK
    <3>5. QED
      BY <3>3, <3>4
  <2>3. QED
    BY <1>3, <2>1, <2>2 DEF InitSubmission
<1>4. ASSUME NEW x \in Sub, DeleteSubmission(x) PROVE DOMAIN rows'[s] \subseteq {gen'[s]} \X Test
  BY <1>1, <1>4, EmptyTable DEF DeleteSubmission, TypeOK, DatabaseTypeOK
<1>5. CASE UNCHANGED <<rows, gen>>
  BY <1>1, <1>5
<1>6. CASE Execute
  BY <1>1, <1>6, ExecuteFrame
<1>7. ASSUME NEW x \in Sub, CheckLimits(x) \/ InsertSubmission(x) PROVE UNCHANGED <<rows, gen>>
  BY <1>7 DEF CheckLimits, InsertSubmission, dbVars
<1>8. ASSUME NEW x \in Sub, ResetSubmission(x) PROVE ResetSubmissions({x})
  BY <1>8 DEF ResetSubmission
<1>9. CASE ResetProblemSubmissions \/ RequestResetWaiting \/ ReadWorking \/ WakeGrader \/ Tick \/ StartGrader
           \/ ReceiveWake \/ Fetch \/ NextWaiting \/ EndOfWaiting \/ EndOfReevals \/ Begin
           \/ Crash \/ Restart \/ UNCHANGED vars
  <2>1. UNCHANGED <<rows, gen>>
    BY <1>9 DEF ResetProblemSubmissions, RequestResetWaiting, ReadWorking, WakeGrader, Tick, StartGrader, ReceiveWake,
                Fetch, NextWaiting, EndOfWaiting, EndOfReevals, Begin, Crash, Restart, vars, dbVars
  <2>2. QED
    BY <1>5, <2>1
<1>10. CASE ResetWorking \/ NextReeval
  <2>1. UNCHANGED <<rows, gen>> \/ \E S : ResetSubmissions(S)
    BY <1>10 DEF ResetWorking, NextReeval, dbVars
  <2>2. QED
    BY <1>2, <1>5, <2>1
<1>11. QED
  BY <1>2, <1>3, <1>4, <1>5, <1>6, <1>7, <1>8, <1>9, <1>10 DEF Next, Handlers, Grader

-----------------------------------------------------------------------------
(* The score of a finished submission *)

\* Nothing happens to s, except that a reset of it may be given up.
LEMMA SameSub ==
    ASSUME NEW s \in Sub, Queued(s), Evaluated(s),
           UNCHANGED <<fpc, queue, reevals, cur, mem, sum>>,
           status'[s] = status[s], rows'[s] = rows[s], score'[s] = score[s],
           s \in faulty => s \in faulty'
    PROVE  Queued(s)' /\ Evaluated(s)'
<1>1. /\ Graded(s)' = Graded(s)
      /\ Fresh(s)' <=> Fresh(s)
      /\ s \in Live' <=> s \in Live
      /\ Settled(s) => Settled(s)'
  BY DEF Graded, Fresh, Live, Settled
<1>2. QED
  BY <1>1 DEF Queued, Evaluated, AtSub

\* The grader does not come to s, and s stays as it is.
LEMMA OtherSub ==
    ASSUME NEW s \in Sub, Queued(s), ~(AtSub /\ s = cur)',
           s \in queue' /\ ~reevals' => (s \in queue /\ ~reevals) \/ status[s] = "waiting",
           status'[s] = status[s], rows'[s] = rows[s], score'[s] = score[s],
           s \in faulty => s \in faulty'
    PROVE  Queued(s)' /\ Evaluated(s)'
<1>1. /\ Graded(s)' = Graded(s)
      /\ Fresh(s)' <=> Fresh(s)
      /\ s \in Live' <=> s \in Live
      /\ Settled(s) => Settled(s)'
  BY DEF Graded, Fresh, Live, Settled
<1>2. QED
  BY <1>1 DEF Queued, Evaluated

\* A submission that is not being evaluated gets new rows.
LEMMA FreshSub ==
    ASSUME NEW s \in Sub, status'[s] = "waiting", Fresh(s)', (AtSub /\ s = cur)' => fpc' = "begin"
    PROVE  Queued(s)' /\ Evaluated(s)'
BY DEF Queued, Evaluated, AtSub, Evaluating

LEMMA GoneSub ==
    ASSUME NEW s \in Sub, s \notin Live', status'[s] # "waiting", status'[s] # "finished"
    PROVE  Queued(s)' /\ Evaluated(s)'
BY DEF Queued, Evaluated

\* An evaluation keeps its promise about its submission.
LEMMA ExecuteScore ==
    ASSUME TypeOK, Places, Execute, NEW s \in Sub, Queued(s), Evaluated(s)
    PROVE  Queued(s)' /\ Evaluated(s)'
<1>1. CASE s # cur
  <2>1. ~(AtSub /\ s = cur)'
    BY <1>1, ExecuteFrame DEF AtSub, Evaluating
  <2>2. s \in faulty => s \in faulty'
    BY ExecuteFrame
  <2>3. QED
    BY <1>1, <2>1, <2>2, OtherSub, ExecuteFrame DEF queueVars
<1>2. CASE s = cur /\ s \notin Live
  <2>1. status'[s] = status[s] /\ status[s] \in {"absent", "deleted"}
    BY <1>2, ExecuteFrame DEF Live
  <2>2. QED
    BY <2>1, GoneSub DEF Live
<1>3. CASE s = cur /\ s \in Live
  <2>1. /\ fpc \in Evaluating /\ AtSub /\ fpc # "begin"
        /\ s \notin queue' /\ status'[s] # "waiting"
    BY <1>3, ExecuteFrame DEF AtSub, Evaluating, Places, queueVars, Evaluated
  <2>2. /\ fpc \in {"load", "compile", "prepare", "tests"} => Fresh(s) /\ status[s] # "finished"
        /\ fpc = "run" =>
              /\ score[s] = Unset /\ status[s] # "finished"
              /\ \A r \in DOMAIN rows[s] : r \in mem \/ rows[s][r] = "graded" \/ s \in faulty
        /\ fpc = "write" =>
              /\ score[s] = Unset /\ status[s] # "finished" /\ sum = Graded(s)
              /\ s \in faulty \/ Graded(s) = DOMAIN rows[s]
        /\ fpc \in {"mark", "marking", "finish"} => Settled(s)
        /\ fpc = "marking" => \A r \in mem : r \in DOMAIN rows[s] => rows[s][r] # "graded"
    BY <1>3, <2>1 DEF Evaluated
  <2> SUFFICES /\ status'[s] = "finished" => Settled(s)'
               /\ (AtSub /\ s = cur)' =>
                    /\ fpc' # "begin"
                    /\ fpc' \in {"load", "compile", "prepare", "tests"} =>
                          Fresh(s)' /\ status'[s] # "finished"
                    /\ fpc' = "run" =>
                          /\ score'[s] = Unset /\ status'[s] # "finished"
                          /\ \A r \in DOMAIN rows'[s] :
                                r \in mem' \/ rows'[s][r] = "graded" \/ s \in faulty'
                    /\ fpc' = "write" =>
                          /\ score'[s] = Unset /\ status'[s] # "finished" /\ sum' = Graded(s)'
                          /\ s \in faulty' \/ Graded(s)' = DOMAIN rows'[s]
                    /\ fpc' \in {"mark", "marking", "finish"} => Settled(s)'
                    /\ fpc' = "marking" =>
                          \A r \in mem' : r \in DOMAIN rows'[s] => rows'[s][r] # "graded"
    BY <2>1 DEF Queued, Evaluated
  <2>3. rows' = rows => Graded(s)' = Graded(s)
    BY DEF Graded
  <2>4. ASSUME NEW l \in {"mark", "finish"}, GiveUp(l), score[s] = Unset, status[s] # "finished"
        PROVE  Settled(s)' /\ status'[s] # "finished" /\ fpc' = l
    BY <1>3, <2>4 DEF GiveUp, Settled
  <2>5. ASSUME NEW sc, UNCHANGED rows, SetStatus(cur, "finished"), SetScore(cur, sc),
               \/ sc = Default /\ Graded(s) = {}
               \/ sc = SumOf(Graded(s)) /\ UNCHANGED faulty /\ (s \in faulty \/ Graded(s) = DOMAIN rows[s])
        PROVE  Settled(s)'
    BY <1>3, <2>3, <2>5, SetFrame DEF Settled
  <2>6. CASE Load \/ Compile \/ PrepareChecker
    <3>1. Fresh(s) /\ status[s] # "finished"
      BY <2>2, <2>6 DEF Load, Compile, PrepareChecker
    <3>2. CASE UNCHANGED <<status, rows, score, mem, sum, faulty>> /\ fpc' \in {"compile", "prepare", "tests"}
      BY <2>3, <3>1, <3>2 DEF Fresh
    <3>3. CASE FinishDefault
      BY <2>5, <3>1, <3>3 DEF FinishDefault, Fresh
    <3>4. CASE \E l \in {"mark", "finish"} : GiveUp(l)
      BY <2>4, <3>1, <3>4 DEF Fresh
    <3>5. QED
      BY <2>6, <3>2, <3>3, <3>4 DEF Load, Compile, PrepareChecker
  <2>7. CASE FetchTests
    <3>1. Fresh(s) /\ status[s] # "finished"
      BY <2>2, <2>7 DEF FetchTests
    <3>2. CASE mem' = DOMAIN rows[cur] /\ fpc' = "run" /\ UNCHANGED <<status, rows, score>>
      BY <1>3, <3>1, <3>2 DEF Fresh
    <3>3. CASE SetStatus(cur, "finished") /\ SetScore(cur, Default) /\ fpc' = "mark" /\ UNCHANGED rows
      BY <2>5, <3>1, <3>3 DEF Fresh
    <3>4. CASE GiveUp("mark")
      BY <2>4, <3>1, <3>4 DEF Fresh
    <3>5. QED
      BY <2>7, <3>2, <3>3, <3>4 DEF FetchTests
  <2>8. ASSUME NEW r \in mem, RunTest(r) PROVE fpc' = "run" /\ score'[s] = Unset /\ status'[s] # "finished"
                 /\ \A q \in DOMAIN rows'[s] : q \in mem' \/ rows'[s][q] = "graded" \/ s \in faulty'
    <3>1. /\ fpc = "run" /\ UNCHANGED <<status, score, fpc>> /\ mem' = mem \ {r}
          /\ \/ rows' = IF r \in DOMAIN rows[cur] THEN [rows EXCEPT ![cur][r] = "graded"] ELSE rows
             \/ s \in faulty' /\ UNCHANGED rows
          /\ s \in faulty => s \in faulty'
      BY <1>3, <2>8 DEF RunTest
    <3>2. /\ score[s] = Unset /\ status[s] # "finished"
          /\ \A q \in DOMAIN rows[s] : q \in mem \/ rows[s][q] = "graded" \/ s \in faulty
      BY <2>2, <3>1
    <3>3. rows \in [Sub -> {rows[x] : x \in Sub}] /\ rows[s] \in [DOMAIN rows[s] -> RowState]
      BY DEF TypeOK, DatabaseTypeOK
    <3>4. CASE rows' = [rows EXCEPT ![s][r] = "graded"] /\ r \in DOMAIN rows[s]
      <4>1. rows'[s] = [rows[s] EXCEPT ![r] = "graded"]
        BY <3>3, <3>4
      <4>2. QED
        BY <3>1, <3>2, <4>1
    <3>5. CASE UNCHANGED rows /\ (r \in DOMAIN rows[s] => s \in faulty')
      BY <3>1, <3>2, <3>5
    <3>6. QED
      BY <1>3, <3>1, <3>4, <3>5
  <2>9. CASE ReadScores
    <3>1. /\ score[s] = Unset /\ status[s] # "finished"
          /\ s \in faulty \/ Graded(s) = DOMAIN rows[s]
      BY <2>2, <2>9 DEF ReadScores, Graded
    <3>2. CASE sum' = Graded(cur) /\ fpc' = "write" /\ UNCHANGED <<status, rows, score, faulty>>
      BY <1>3, <2>3, <3>1, <3>2
    <3>3. CASE GiveUp("mark")
      BY <2>4, <3>1, <3>3
    <3>4. QED
      BY <2>9, <3>2, <3>3 DEF ReadScores
  <2>10. CASE WriteScore
    <3>1. /\ score[s] = Unset /\ status[s] # "finished" /\ sum = Graded(s)
          /\ s \in faulty \/ Graded(s) = DOMAIN rows[s]
      BY <2>2, <2>10 DEF WriteScore
    <3>2. CASE SetStatus(cur, "finished") /\ SetScore(cur, SumOf(sum)) /\ fpc' = "mark" /\ UNCHANGED <<rows, faulty>>
      BY <2>5, <3>1, <3>2
    <3>3. CASE GiveUp("mark")
      BY <2>4, <3>1, <3>3
    <3>4. QED
      BY <2>10, <3>2, <3>3 DEF WriteScore
  <2>11. CASE ReadUndone
    <3>1. Settled(s) /\ UNCHANGED <<rows, score, status>> /\ (s \in faulty => s \in faulty')
      BY <2>2, <2>11 DEF ReadUndone, GiveUp
    <3>2. Settled(s)'
      BY <2>3, <3>1 DEF Settled
    <3>3. \/ fpc' = "finish"
          \/ fpc' = "marking" /\ mem' = {r \in DOMAIN rows[s] : rows[s][r] = "new"}
      BY <1>3, <2>11 DEF ReadUndone, GiveUp
    <3>4. QED
      BY <3>1, <3>2, <3>3
  <2>12. CASE MarkDone
    <3>1. /\ fpc' = "finish" /\ UNCHANGED <<score, status>> /\ (s \in faulty => s \in faulty')
          /\ \E marked \in SUBSET mem :
                rows' = [rows EXCEPT ![cur] = [r \in DOMAIN @ |-> IF r \in marked THEN "done" ELSE @[r]]]
      BY <2>12 DEF MarkDone
    <3>2. PICK marked \in SUBSET mem :
             rows'[s] = [r \in DOMAIN rows[s] |-> IF r \in marked THEN "done" ELSE rows[s][r]]
      BY <1>3, <3>1 DEF TypeOK, DatabaseTypeOK
    <3>3. Settled(s) /\ \A r \in mem : r \in DOMAIN rows[s] => rows[s][r] # "graded"
      BY <2>2, <2>12 DEF MarkDone
    <3>4. Graded(s)' = Graded(s) /\ DOMAIN rows'[s] = DOMAIN rows[s]
      BY <3>2, <3>3 DEF Graded
    <3>5. Settled(s)'
      BY <3>1, <3>3, <3>4 DEF Settled
    <3>6. QED
      BY <3>1, <3>5
  <2>13. CASE Finish
    <3>1. /\ fpc' = "next" /\ UNCHANGED <<rows, score>> /\ (s \in faulty => s \in faulty') /\ Settled(s)
      BY <2>2, <2>13 DEF Finish
    <3>2. Settled(s)' /\ ~AtSub'
      BY <2>3, <3>1 DEF Settled, AtSub, Evaluating
    <3>3. QED
      BY <3>2
  <2>14. QED
    BY <2>6, <2>7, <2>8, <2>9, <2>10, <2>11, <2>12, <2>13 DEF Execute
<1>4. QED
  BY <1>1, <1>2, <1>3

\* A reset makes new rows, or leaves the submission alone.
LEMMA ResetScore ==
    ASSUME TypeOK, NEW S, ResetSubmissions(S), NEW s \in Sub, s \notin touched', ScoreInv,
           UNCHANGED <<fpc, queue, reevals, cur, mem, sum>>, s \in faulty => s \in faulty'
    PROVE  Queued(s)' /\ Evaluated(s)'
<1>1. CASE s \in S \cap Live
  <2>1. s \notin Busy /\ status'[s] = "waiting" /\ Fresh(s)'
    BY <1>1, ResetFrame DEF Fresh
  <2>2. (AtSub /\ s = cur)' => fpc' = "begin"
    BY <2>1 DEF AtSub, Busy
  <2>3. QED
    BY <2>1, <2>2, FreshSub
<1>2. CASE s \notin S \cap Live
  <2>1. Queued(s) /\ Evaluated(s)
    BY <1>2, ResetFrame DEF ScoreInv
  <2>2. QED
    BY <1>2, <2>1, SameSub, ResetFrame
<1>3. QED
  BY <1>1, <1>2

\* The handlers.
LEMMA WebScore ==
    ASSUME TypeOK, Places, Unborn, Uninitialised, ScoreInv, Web, NEW s \in Sub, s \notin touched'
    PROVE  Queued(s)' /\ Evaluated(s)'
<1>1. UNCHANGED <<fpc, queue, reevals, cur, mem, sum>>
  BY WebFrame
<1>2. s \notin touched => Queued(s) /\ Evaluated(s)
  BY DEF ScoreInv
<1>3. CASE /\ UNCHANGED touched /\ (s \in faulty => s \in faulty')
           /\ status'[s] = status[s] /\ rows'[s] = rows[s] /\ score'[s] = score[s]
  BY <1>1, <1>2, <1>3, SameSub
<1>4. ASSUME NEW x \in Sub, CheckLimits(x) PROVE Queued(s)' /\ Evaluated(s)'
  BY <1>3, <1>4 DEF CheckLimits, dbVars, histVars
<1>5. ASSUME NEW x \in Sub, InsertSubmission(x) PROVE Queued(s)' /\ Evaluated(s)'
  <2>1. s # x => status'[s] = status[s]
    BY <1>5 DEF InsertSubmission, TypeOK, DatabaseTypeOK
  <2>2. CASE s # x
    BY <1>3, <1>5, <2>1, <2>2 DEF InsertSubmission, histVars
  <2>3. CASE s = x
    <3>1. status[s] = "absent"
      BY <1>5, <2>3 DEF InsertSubmission, Unborn
    <3>2. status'[s] = "creating" /\ s \notin queue' /\ ~(AtSub /\ s = cur)'
      BY <1>1, <1>5, <2>3, <3>1 DEF InsertSubmission, Unborn, AtSub, TypeOK, DatabaseTypeOK
    <3>3. QED
      BY <3>2 DEF Queued, Evaluated
  <2>4. QED
    BY <2>2, <2>3
<1>6. ASSUME NEW x \in Sub, InitSubmission(x) PROVE Queued(s)' /\ Evaluated(s)'
  <2>1. CASE UNCHANGED <<dbVars, touched, faulty>>
    BY <1>3, <2>1 DEF dbVars
  <2>2. CASE /\ x \in Live /\ status' = [status EXCEPT ![x] = "waiting"]
             /\ rows' = [rows EXCEPT ![x] =
                   [r \in DOMAIN @ \cup DOMAIN FreshRows(x) |-> IF r \in DOMAIN @ THEN @[r] ELSE "new"]]
             /\ UNCHANGED <<score, faulty>>
             /\ touched' = IF x \in Busy \/ gen[x] > 0 THEN touched \cup {x} ELSE touched
    <3>1. CASE s # x
      <4>1. UNCHANGED touched \/ touched' = touched \cup {x}
        BY <2>2
      <4>2. s \notin touched /\ status'[s] = status[s] /\ rows'[s] = rows[s]
        BY <2>2, <3>1, <4>1 DEF TypeOK, DatabaseTypeOK
      <4>3. QED
        BY <1>1, <1>2, <2>2, <4>2, SameSub
    <3>2. CASE s = x
      <4>1. s \notin Busy /\ gen[s] = 0
        BY <2>2, <3>2 DEF TypeOK, DatabaseTypeOK
      <4>2. DOMAIN rows[s] = {} /\ score[s] = Unset
        BY <4>1 DEF Uninitialised
      <4>3. rows'[s] = [r \in DOMAIN rows[s] \cup DOMAIN FreshRows(s) |-> IF r \in DOMAIN rows[s] THEN rows[s][r] ELSE "new"]
        BY <2>2, <3>2 DEF TypeOK, DatabaseTypeOK
      <4>4. status'[s] = "waiting" /\ Fresh(s)'
        BY <2>2, <3>2, <4>2, <4>3 DEF Fresh, Graded, TypeOK, DatabaseTypeOK
      <4>5. (AtSub /\ s = cur)' => fpc' = "begin"
        BY <1>1, <4>1 DEF AtSub, Busy
      <4>6. QED
        BY <4>4, <4>5, FreshSub
    <3>3. QED
      BY <3>1, <3>2
  <2>3. QED
    BY <1>6, <2>1, <2>2 DEF InitSubmission, histVars
<1>7. ASSUME NEW x \in Sub, ResetSubmission(x) PROVE Queued(s)' /\ Evaluated(s)'
  BY <1>1, <1>7, ResetScore DEF ResetSubmission
<1>8. ASSUME NEW x \in Sub, DeleteSubmission(x) PROVE Queued(s)' /\ Evaluated(s)'
  <2>1. CASE s # x
    BY <1>3, <1>8, <2>1 DEF DeleteSubmission, histVars, TypeOK, DatabaseTypeOK
  <2>2. CASE s = x
    <3>1. status'[s] = "deleted"
      BY <1>8, <2>2 DEF DeleteSubmission, TypeOK, DatabaseTypeOK
    <3>2. QED
      BY <3>1, GoneSub DEF Live
  <2>3. QED
    BY <2>1, <2>2
<1>9. CASE ResetProblemSubmissions
  <2>1. /\ status'[s] = IF s \in Live THEN "reevaling" ELSE status[s]
        /\ UNCHANGED <<rows, score, touched, faulty>>
    BY <1>9 DEF ResetProblemSubmissions, histVars
  <2>2. CASE s \notin Live
    BY <1>3, <2>1, <2>2
  <2>3. CASE s \in Live
    <3>1. Queued(s) /\ Evaluated(s) /\ status'[s] = "reevaling"
      BY <1>2, <2>1, <2>3
    <3>2. Graded(s)' = Graded(s) /\ (Fresh(s)' <=> Fresh(s)) /\ (Settled(s)' <=> Settled(s)) /\ s \in Live'
      BY <2>1, <3>1 DEF Graded, Fresh, Settled, Live
    <3>3. QED
      BY <1>1, <2>1, <2>3, <3>1, <3>2 DEF Queued, Evaluated, AtSub
  <2>4. QED
    BY <2>2, <2>3
<1>10. CASE RequestResetWaiting \/ WakeGrader \/ Tick
  BY <1>3, <1>10 DEF RequestResetWaiting, WakeGrader, Tick, dbVars, histVars
<1>11. CASE ReadWorking
  BY <1>3, <1>11 DEF ReadWorking, LeaveWorking, dbVars
<1>12. CASE ResetWorking
  <2>1. CASE ResetSubmissions(adm.ids) /\ UNCHANGED faulty
    BY <1>1, <2>1, ResetScore
  <2>2. CASE LeaveWorking(adm.ids) /\ UNCHANGED <<dbVars, touched>>
    BY <1>3, <2>2 DEF LeaveWorking, dbVars
  <2>3. QED
    BY <1>12, <2>1, <2>2 DEF ResetWorking
<1>13. QED
  BY <1>4, <1>5, <1>6, <1>7, <1>8, <1>9, <1>10, <1>11, <1>12 DEF Web

LEMMA ScoreNext ==
    TypeOK /\ Places /\ Unborn /\ Uninitialised /\ ScoreInv /\ [Next]_vars => ScoreInv'
<1> SUFFICES ASSUME TypeOK, Places, Unborn, Uninitialised, ScoreInv, [Next]_vars,
                    NEW s \in Sub, s \notin touched'
             PROVE  Queued(s)' /\ Evaluated(s)'
  BY DEF ScoreInv
<1>1. s \notin touched => Queued(s) /\ Evaluated(s)
  BY DEF ScoreInv
<1>2. CASE Web
  BY <1>2, WebScore
<1>3. ASSUME UNCHANGED <<dbVars, touched, faulty>>, ~(AtSub /\ s = cur)',
             s \in queue' /\ ~reevals' => (s \in queue /\ ~reevals) \/ status[s] = "waiting"
      PROVE  Queued(s)' /\ Evaluated(s)'
  BY <1>1, <1>3, OtherSub DEF dbVars
<1>4. CASE StartGrader \/ ReceiveWake \/ Fetch \/ EndOfWaiting \/ EndOfReevals
  <2>1. UNCHANGED <<dbVars, touched, faulty>> /\ ~AtSub'
    BY <1>4 DEF StartGrader, ReceiveWake, Fetch, EndOfWaiting, EndOfReevals, histVars, AtSub, Evaluating
  <2>2. s \in queue' /\ ~reevals' => (s \in queue /\ ~reevals) \/ status[s] = "waiting"
    <3>1. CASE StartGrader \/ EndOfWaiting \/ EndOfReevals
      BY <3>1 DEF StartGrader, EndOfWaiting, EndOfReevals, queueVars
    <3>2. CASE ReceiveWake
      BY <3>2 DEF ReceiveWake, Places
    <3>3. CASE Fetch
      BY <3>3 DEF Fetch, Found
    <3>4. QED
      BY <1>4, <3>1, <3>2, <3>3
  <2>3. QED
    BY <1>3, <2>1, <2>2
<1>5. CASE NextWaiting
  <2>1. /\ UNCHANGED <<dbVars, touched, faulty, reevals>> /\ ~reevals
        /\ fpc' = "begin" /\ cur' \in queue /\ queue' = queue \ {cur'}
    BY <1>5 DEF NextWaiting, Take, histVars
  <2>2. CASE s # cur'
    BY <1>3, <2>1, <2>2
  <2>3. CASE s = cur'
    <3>1. Queued(s) /\ s \in queue /\ s \notin queue' /\ status'[s] = status[s]
      BY <1>1, <2>1, <2>3 DEF dbVars
    <3>2. /\ Graded(s)' = Graded(s)
          /\ Fresh(s)' <=> Fresh(s)
          /\ Settled(s)' <=> Settled(s)
          /\ s \in Live' <=> s \in Live
      BY <2>1 DEF dbVars, Graded, Fresh, Settled, Live
    <3>3. QED
      BY <2>1, <3>1, <3>2 DEF Queued, Evaluated
  <2>4. QED
    BY <2>2, <2>3
<1>6. CASE NextReeval
  <2>1. UNCHANGED <<reevals, faulty>> /\ reevals /\ fpc' \in {"begin", "next"}
    BY <1>6 DEF NextReeval
  <2>2. CASE UNCHANGED <<dbVars, touched>> /\ fpc' = "next"
    BY <1>3, <2>1, <2>2 DEF AtSub, Evaluating
  <2>3. CASE ResetSubmissions({cur'}) /\ fpc' = "begin" /\ cur' \in Sub
    <3>1. CASE s # cur'
      <4>1. status'[s] = status[s] /\ rows'[s] = rows[s] /\ score'[s] = score[s] /\ s \notin touched
        BY <2>3, <3>1, ResetFrame
      <4>2. QED
        BY <1>1, <2>1, <3>1, <4>1, OtherSub
    <3>2. CASE s = cur' /\ s \in Live
      <4>1. status'[s] = "waiting" /\ Fresh(s)'
        BY <2>3, <3>2, ResetFrame DEF Fresh
      <4>2. QED
        BY <2>3, <4>1, FreshSub
    <3>3. CASE s = cur' /\ s \notin Live
      <4>1. status'[s] = status[s]
        BY <2>3, <3>3, ResetFrame
      <4>2. QED
        BY <3>3, <4>1, GoneSub DEF Live
    <3>4. QED
      BY <3>1, <3>2, <3>3
  <2>4. \/ UNCHANGED <<dbVars, touched>> /\ fpc' = "next"
        \/ ResetSubmissions({cur'}) /\ fpc' = "begin" /\ cur' \in Sub
    BY <1>6 DEF NextReeval, Take, TypeOK, ProcessTypeOK
  <2>5. QED
    BY <2>2, <2>3, <2>4
<1>7. CASE Begin
  <2>1. /\ fpc = "begin" /\ fpc' \in {"load", "next"} /\ cur \in Sub
        /\ UNCHANGED <<rows, score, queueVars, evalVars, touched>>
        /\ status'[s] = IF s = cur /\ s \in Live /\ fpc' = "load" THEN "working" ELSE status[s]
        /\ fpc' = "load" => faulty' = faulty \ {cur}
        /\ fpc' = "next" => faulty' = faulty
    BY <1>7, BeginFrame
  <2>2. Queued(s) /\ Evaluated(s) /\ Graded(s)' = Graded(s) /\ (Fresh(s)' <=> Fresh(s))
    BY <1>1, <2>1 DEF Graded, Fresh
  <2>3. CASE s # cur \/ fpc' = "next"
    <3>1. status'[s] = status[s] /\ (s \in faulty => s \in faulty') /\ ~(AtSub /\ s = cur)'
      BY <2>1, <2>3 DEF evalVars, AtSub, Evaluating
    <3>2. QED
      BY <2>1, <2>2, <3>1, OtherSub DEF queueVars
  <2>4. CASE s = cur /\ fpc' = "load" /\ s \in Live
    <3>1. status'[s] = "working" /\ Fresh(s) /\ s \notin queue'
      BY <2>1, <2>2, <2>4 DEF Evaluated, AtSub, Places, queueVars
    <3>2. QED
      BY <2>2, <2>4, <3>1 DEF Queued, Evaluated
  <2>5. CASE s = cur /\ s \notin Live
    <3>1. status'[s] = status[s] /\ status[s] \in {"absent", "deleted"}
      BY <2>1, <2>5 DEF Live
    <3>2. QED
      BY <3>1, GoneSub DEF Live
  <2>6. QED
    BY <2>1, <2>3, <2>4, <2>5
<1>8. CASE Execute
  BY <1>1, <1>8, ExecuteScore, ExecuteFrame
<1>9. CASE Crash
  BY <1>3, <1>9 DEF Crash, AtSub, Evaluating
<1>10. CASE Restart \/ UNCHANGED vars
  BY <1>1, <1>10, SameSub DEF Restart, vars, dbVars, histVars, queueVars, evalVars
<1>11. QED
  BY <1>2, <1>4, <1>5, <1>6, <1>7, <1>8, <1>9, <1>10 DEF Next, Handlers, Grader, Web

-----------------------------------------------------------------------------
(* Work is not forgotten *)

\* What a limited query leaves out makes its count exceed the limit.
LEMMA BeyondLimit ==
    ASSUME NEW F, IsFiniteSet(F), F \subseteq Nat, NEW n \in Nat, NEW s \in F,
           ~(Cardinality({t \in F : t < s}) < n)
    PROVE  Cardinality(F) > n
<1> DEFINE B == {t \in F : t < s}
<1>1. IsFiniteSet(B) /\ Cardinality(B) \in Nat
  <2>1. B \subseteq F
    OBVIOUS
  <2>2. QED
    BY <2>1, FS_Subset, FS_CardinalityType
<1>2. IsFiniteSet(B \cup {s}) /\ Cardinality(B \cup {s}) = Cardinality(B) + 1
  <2>1. s \notin B
    OBVIOUS
  <2>2. QED
    BY <1>1, <2>1, FS_AddElement
<1>3. Cardinality(B \cup {s}) <= Cardinality(F) /\ Cardinality(F) \in Nat
  <2>1. B \cup {s} \subseteq F
    OBVIOUS
  <2>2. QED
    BY <2>1, FS_Subset, FS_CardinalityType
<1>4. ~(Cardinality(B) < n)
  OBVIOUS
<1> HIDE DEF B
<1>5. QED
  BY <1>1, <1>2, <1>3, <1>4

\* Whoever commits without a failure is then about to call WakeGrader.
LEMMA CommitAnnounces == TypeOK /\ WakeNext => Announcing'
BY DEF TypeOK, ProcessTypeOK, WakeNext, Announcing

\* A handler between its commit and its wake-up stays there until WakeGrader
\* puts a token or finds no grader, or the process crashes.
LEMMA AnnouncedUntilWoken ==
    ASSUME TypeOK, [Next]_vars, Announcing, ~wake', ~missed' PROVE Announcing'
<1> USE DEF Announcing
<1>1. CASE UNCHANGED <<adm, waking>>
  BY <1>1
<1>2. CASE UNCHANGED adm /\ WakeNext
  BY <1>2, CommitAnnounces
<1>3. CASE Handlers
  <2>1. ASSUME NEW x \in Sub, CheckLimits(x) \/ InsertSubmission(x) \/ DeleteSubmission(x) PROVE Announcing'
    BY <1>1, <2>1 DEF CheckLimits, InsertSubmission, DeleteSubmission, webVars, callVars
  <2>2. ASSUME NEW x \in Sub, InitSubmission(x) PROVE Announcing'
    BY <1>1, <1>2, <2>2 DEF InitSubmission
  <2>3. ASSUME NEW x \in Sub, ResetSubmission(x) PROVE Announcing'
    BY <1>2, <2>3 DEF ResetSubmission
  <2>4. CASE ResetProblemSubmissions
    BY <1>2, <2>4 DEF ResetProblemSubmissions
  <2>5. CASE RequestResetWaiting
    BY <2>5 DEF RequestResetWaiting, Idle
  <2>6. QED
    BY <1>3, <2>1, <2>2, <2>3, <2>4, <2>5 DEF Handlers
<1>4. CASE ReadWorking \/ ResetWorking \/ Restart
  <2>1. CASE ReadWorking
    BY <2>1 DEF ReadWorking
  <2>2. CASE ResetWorking
    BY <2>2 DEF ResetWorking
  <2>3. CASE Restart
    BY <2>3 DEF Restart, Up
  <2>4. QED
    BY <1>4, <2>1, <2>2, <2>3
<1>5. ~WakeGrader /\ ~Tick /\ ~Crash
  BY DEF WakeGrader, Wake, Tick, Crash
<1>6. CASE Execute
  BY <1>1, <1>6, ExecuteFrame DEF webVars, callVars
<1>7. CASE Grader /\ ~Execute
  BY <1>1, <1>7 DEF Grader, StartGrader, ReceiveWake, Fetch, NextWaiting, NextReeval,
     EndOfWaiting, EndOfReevals, Begin, webVars, callVars
<1>8. CASE UNCHANGED vars
  BY <1>1, <1>8 DEF vars, webVars, callVars
<1>9. QED
  BY <1>3, <1>4, <1>5, <1>6, <1>7, <1>8 DEF Next

LEMMA WorkNext == TypeOK /\ Places /\ WorkRemembered /\ [Next]_vars => WorkRemembered'
<1> SUFFICES ASSUME TypeOK, Places, WorkRemembered, [Next]_vars,
                    NEW s \in Sub, status'[s] \in {"waiting", "reevaling"}, ~wake', ~missed', ~Announcing'
             PROVE  Remembered(s)'
  BY DEF WorkRemembered, Remembered
<1>0. ~Announcing
  BY AnnouncedUntilWoken
<1>1. status[s] \in {"waiting", "reevaling"} => Remembered(s)
  BY DEF WorkRemembered
<1>2. CASE status'[s] = status[s] /\ UNCHANGED <<wake, missed, rewake, fpc, reevals, queue, cur>>
  BY <1>0, <1>1, <1>2 DEF Remembered
<1>3. ~Wake
  BY DEF Wake
<1>4. CASE Web
  <2>1. UNCHANGED <<rewake, fpc, reevals, queue, cur>>
    BY <1>4, WebFrame
  <2>2. ASSUME NEW x \in Sub, CheckLimits(x) \/ InsertSubmission(x) \/ DeleteSubmission(x)
        PROVE  status'[s] = status[s] /\ UNCHANGED <<wake, missed>>
    BY <2>2 DEF CheckLimits, InsertSubmission, DeleteSubmission, dbVars, histVars, TypeOK, DatabaseTypeOK
  <2>3. ASSUME NEW x \in Sub, InitSubmission(x) PROVE status'[s] = status[s] /\ UNCHANGED <<wake, missed>>
    BY <2>3, CommitAnnounces DEF InitSubmission, dbVars, histVars
  <2>4. CASE ReadWorking \/ ResetWorking \/ RequestResetWaiting
    BY <1>0, <1>2, <2>1, <2>4 DEF Announcing, ReadWorking, ResetWorking, RequestResetWaiting, dbVars, histVars
  <2>5. ~ResetProblemSubmissions /\ ~Tick /\ ~WakeGrader /\ \A x \in Sub : ~ResetSubmission(x)
    BY <1>3, CommitAnnounces DEF ResetProblemSubmissions, Tick, WakeGrader, ResetSubmission
  <2>6. QED
    BY <1>2, <1>4, <2>1, <2>2, <2>3, <2>4, <2>5 DEF Web
<1>5. CASE StartGrader
  BY <1>0, <1>1, <1>5 DEF StartGrader, Remembered, Places, dbVars, queueVars, evalVars, histVars
<1>6. CASE ReceiveWake
  BY <1>6 DEF ReceiveWake, Remembered
<1>7. CASE Fetch
  <2>1. /\ fpc = "fetch" /\ fpc' = "next" /\ queue = {}
        /\ queue' = {t \in Found : Cardinality({u \in Found : u < t}) < Limit}
        /\ rewake' = (rewake \/ Cardinality(Found) > Limit)
        /\ UNCHANGED <<status, wake, reevals, missed>>
    BY <1>7 DEF Fetch, Places, dbVars
  <2>2. Remembered(s)
    BY <1>0, <1>1, <2>1
  <2>3. s \in Found => rewake' \/ s \in queue'
    <3>1. Found \subseteq Nat /\ IsFiniteSet(Found)
      BY SubAssumption, FS_Subset DEF Found
    <3>2. Limit \in Nat
      BY BoundAssumption DEF Limit
    <3>3. s \in Found /\ s \notin queue' => Cardinality(Found) > Limit
      BY <2>1, <3>1, <3>2, BeyondLimit
    <3>4. QED
      BY <2>1, <3>3
  <2>4. QED
    BY <1>0, <2>1, <2>2, <2>3 DEF Remembered, Found
<1>8. CASE EndOfWaiting \/ EndOfReevals
  <2>1. UNCHANGED <<status, queue, cur>> /\ queue = {} /\ fpc = "next" /\ Remembered(s)
    BY <1>1, <1>8 DEF EndOfWaiting, EndOfReevals, dbVars, queueVars, evalVars
  <2>2. CASE EndOfWaiting
    BY <1>0, <2>1, <2>2 DEF EndOfWaiting, Remembered, histVars
  <2>3. CASE EndOfReevals
    BY <1>0, <2>1, <2>3 DEF EndOfReevals, Remembered, queueVars, histVars
  <2>4. QED
    BY <1>8, <2>2, <2>3
<1>9. CASE NextWaiting
  BY <1>0, <1>1, <1>9 DEF NextWaiting, Take, Remembered, dbVars, histVars
<1>10. CASE NextReeval
  BY <1>3, <1>10 DEF NextReeval
<1>11. CASE Begin
  BY <1>0, <1>1, <1>11, BeginFrame DEF Remembered, Live, queueVars, evalVars, webVars
<1>12. CASE Execute
  <2>1. status'[s] = status[s] /\ fpc \in Evaluating /\ fpc' \in Evaluating \cup {"next"}
    BY <1>12, ExecuteFrame
  <2>2. UNCHANGED <<wake, missed, rewake, reevals, queue>>
    BY <1>12, ExecuteFrame DEF queueVars
  <2>3. QED
    BY <1>0, <1>1, <2>1, <2>2 DEF Remembered, Evaluating
<1>13. CASE Crash \/ Restart \/ UNCHANGED vars
  BY <1>0, <1>2, <1>13 DEF Crash, Restart, vars, dbVars, queueVars, evalVars, histVars
<1>14. QED
  BY <1>4, <1>5, <1>6, <1>7, <1>8, <1>9, <1>10, <1>11, <1>12, <1>13 DEF Next, Handlers, Grader, Web

-----------------------------------------------------------------------------
(* The theorems *)

\* Everything the proofs above carry along.
IInv ==
    /\ TypeOK /\ Places /\ Unborn /\ Uninitialised
    /\ ScoreInv /\ RowsOfOneInit /\ WorkRemembered

LEMMA InvInit == Init => IInv
<1> SUFFICES ASSUME Init PROVE IInv
  OBVIOUS
<1>1. TypeOK /\ Places /\ Unborn /\ WorkRemembered
  BY TypeInit DEF Init, Places, Unborn, WorkRemembered, AtSub, Evaluating
<1>2. Uninitialised
  BY EmptyTable DEF Init, Uninitialised, AtSub, Evaluating
<1>3. ScoreInv
  BY DEF Init, ScoreInv, Queued, Evaluated, AtSub, Evaluating
<1>4. RowsOfOneInit
  BY EmptyTable DEF Init, RowsOfOneInit
<1>5. QED
  BY <1>1, <1>2, <1>3, <1>4 DEF IInv

LEMMA InvNext == IInv /\ [Next]_vars => IInv'
BY TypeNext, PlacesNext, UnbornNext, UninitialisedNext, ScoreNext, RowsNext, WorkNext DEF IInv

LEMMA Invariant == Spec => []IInv
BY InvInit, InvNext, PTL DEF Spec

\* However resets, reevaluations, deletions and crashes fall into evaluations,
\* the score of a finished submission is that of its rows, unless its rows were
\* replaced while it was evaluated.
THEOREM ScoresRight == Spec => []ScoreOfRows
<1>1. IInv => ScoreOfRows
  BY DEF IInv, ScoreInv, Queued, Settled, ScoreOfRows
<1>2. QED
  BY <1>1, Invariant, PTL

\* With subtasks no submission ever has two rows for one test, whatever runs
\* between the insertion of a submission and its initialisation.
THEOREM OneRow == Spec => []OneRowPerTest
<1>1. IInv => OneRowPerTest
  <2> SUFFICES ASSUME IInv, HasSubtasks, NEW s \in Sub,
                      NEW q \in DOMAIN rows[s], NEW r \in DOMAIN rows[s], q[2] = r[2]
               PROVE  q = r
    BY DEF OneRowPerTest
  <2>1. q \in {gen[s]} \X Test /\ r \in {gen[s]} \X Test
    BY DEF IInv, RowsOfOneInit
  <2>2. QED
    BY <2>1
<1>2. QED
  BY <1>1, Invariant, PTL

\* The one token of wakeChan loses no work: a grader at rest has nothing to do.
THEOREM WorkNotForgotten == Spec => []NoForgottenWork
<1>1. IInv => NoForgottenWork
  BY DEF IInv, WorkRemembered, Remembered, Places, NoForgottenWork
<1>2. QED
  BY <1>1, Invariant, PTL
=============================================================================
