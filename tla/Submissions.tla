----------------------------- MODULE Submissions -----------------------------
(***************************************************************************)
(* The life of submissions: the handlers that create, reset and delete     *)
(* them (sudoapi/submission.go, sudoapi/admin.go, db/sub_reset.go) and the *)
(* one grader goroutine that evaluates them (eval/grader), running in one  *)
(* process against the database, which alone survives a crash.             *)
(*                                                                         *)
(* Every statement or transaction that reads or writes a status, a score   *)
(* or a row of submission_tests is one step.  Such a row is named by the   *)
(* initialisation that inserted it and by its test: a reset deletes the    *)
(* rows and inserts new ones, while the grader may still hold the old.     *)
(***************************************************************************)
EXTENDS Integers, FiniteSets

CONSTANTS
    Sub,            \* submission ids, given out in ascending order
    Test,           \* the tests of the problem
    None,           \* no submission
    HasSubtasks,    \* does the problem have subtasks?
    WaitLimit,      \* flag user_max_waiting; all submissions are of one user
    Batch,          \* waiting submissions taken per wake-up (40)
    ReevalBatch,    \* submissions to reevaluate taken per wake-up (5)
    MaxOps,         \* bound: resets, reevaluations and deletions requested
    MaxFaults,      \* bound: database calls that fail
    MaxCrashes      \* bound: crashes

ASSUME SubAssumption == Sub \subseteq Nat /\ None \notin Sub /\ IsFiniteSet(Sub)
ASSUME BoundAssumption ==
    /\ HasSubtasks \in BOOLEAN
    /\ {WaitLimit, Batch, ReevalBatch} \subseteq Nat \ {0}
    /\ {MaxOps, MaxFaults, MaxCrashes} \subseteq Nat

VARIABLES
    \* in the database
    status,     \* status[s], or "absent" before and "deleted" after its life
    rows,       \* rows[s]: the state of each of its submission_tests rows
    score,      \* what its score column was computed from
    gen,        \* how often its rows have been initialised
    \* in the process
    creator,    \* creator[s]: the CreateSubmission call for s
    adm,        \* the call of ResetWaitingSubmissions, with the ids it read
    serving,    \* does the web server take requests?
    waking,     \* handlers that committed and have yet to call WakeGrader
    wake,       \* is there a token in wakeChan?
    fpc,        \* where the grader goroutine is
    queue,      \* submissions it has fetched and not begun
    reevals,    \* is queue the reevaluation queue?
    rewake,     \* were there more than it fetched?
    cur,        \* the submission it is at
    mem,        \* rows it has in memory
    sum,        \* rows scoreTests found graded
    \* history
    touched,    \* their rows were inserted during an evaluation or in two goes
    faulty,     \* last evaluation met an error, or failed to be reset
    missed,     \* did a wake-up find no grader, or a fetch or update fail?
    ops, faults, crashes

dbVars == <<status, rows, score, gen>>
queueVars == <<queue, reevals, rewake>>
evalVars == <<cur, mem, sum>>
histVars == <<touched, faulty, missed>>
callVars == <<adm, serving, waking>>
webVars == <<creator, callVars>>
bounds == <<ops, faults, crashes>>
vars == <<dbVars, webVars, wake, fpc, queueVars, evalVars, histVars, bounds>>

Row == Nat \X Test
RowState == {"new", "graded", "done"}
Status == {"absent", "creating", "waiting", "working", "finished", "reevaling", "deleted"}
\* A score is unset, the problem's default points, or a sum over graded rows.
Unset == [from |-> "nothing", of |-> {}]
Default == [from |-> "default", of |-> {}]
SumOf(R) == [from |-> "rows", of |-> R]

Evaluating == {"load", "compile", "prepare", "tests", "run", "write",
               "mark", "marking", "finish"}
FPC == {"off", "wait", "fetch", "next", "begin"} \cup Evaluating

Up == adm.at # "down"
AtSub == fpc \in {"begin"} \cup Evaluating
Live == {s \in Sub : status[s] \notin {"absent", "deleted"}}
Busy == IF fpc \in Evaluating THEN {cur} ELSE {}
Graded(s) == {r \in DOMAIN rows[s] : rows[s][r] = "graded"}
Idle == [at |-> "idle", ids |-> {}]

Init ==
    /\ status = [s \in Sub |-> "absent"]
    /\ rows = [s \in Sub |-> <<>>]
    /\ score = [s \in Sub |-> Unset]
    /\ gen = [s \in Sub |-> 0]
    /\ creator = [s \in Sub |-> "none"]
    /\ adm = [at |-> "read", ids |-> {}] /\ serving = FALSE /\ waking = 0
    /\ wake = FALSE /\ fpc = "off"
    /\ queue = {} /\ reevals = FALSE /\ rewake = FALSE
    /\ cur = None /\ mem = {} /\ sum = {}
    /\ touched = {} /\ faulty = {} /\ missed = FALSE
    /\ ops = 0 /\ faults = 0 /\ crashes = 0

-----------------------------------------------------------------------------
(* Statements and calls the handlers share *)

\* WakeGrader and Handler.Wake: nothing before RegisterGrader, a token after.
Wake ==
    IF fpc = "off" THEN missed' = TRUE /\ UNCHANGED wake
                   ELSE wake' = TRUE /\ UNCHANGED missed

\* Mutant of FreshRows: a row is named by its test alone.
FreshRowsByTest(s) == [t \in Test |-> "new"]

FreshRows(s) == [r \in {gen[s] + 1} \X Test |-> "new"]

\* clearSubs and initSubs in one transaction.
ResetSubmissions(S) ==
    LET hit == S \cap Live
    IN  /\ status' = [s \in Sub |-> IF s \in hit THEN "waiting" ELSE status[s]]
        /\ score' = [s \in Sub |-> IF s \in hit THEN Unset ELSE score[s]]
        /\ rows' = [s \in Sub |-> IF s \in hit THEN FreshRows(s) ELSE rows[s]]
        /\ gen' = [s \in Sub |-> IF s \in hit THEN gen[s] + 1 ELSE gen[s]]
        /\ touched' = (touched \ hit) \cup (hit \cap Busy)

\* UPDATE submissions SET status ... WHERE id = s: no row, no effect.
SetStatus(s, st) ==
    status' = IF s \in Live THEN [status EXCEPT ![s] = st] ELSE status
SetScore(s, sc) ==
    score' = IF s \in Live THEN [score EXCEPT ![s] = sc] ELSE score

\* Mutant of WakeNext: the handler has called WakeGrader before its commit.
WakeBefore == UNCHANGED waking

\* A handler that changed what there is to grade calls WakeGrader next.
WakeNext == waking' = waking + 1

Request == serving /\ ops < MaxOps /\ ops' = ops + 1 /\ UNCHANGED <<faults, crashes>>
Fault == faults < MaxFaults /\ faults' = faults + 1 /\ UNCHANGED <<ops, crashes>>

-----------------------------------------------------------------------------
(* CreateSubmission: count, insert, initialise *)

Unfinished == {s \in Sub : status[s] \in {"creating", "waiting", "working"}}

CheckLimits(s) ==
    /\ serving /\ status[s] = "absent" /\ creator[s] = "none"
    /\ Cardinality(Unfinished) < WaitLimit
    /\ creator' = [creator EXCEPT ![s] = "checked"]
    /\ UNCHANGED <<dbVars, callVars, wake, fpc, queueVars, evalVars, histVars, bounds>>

InsertSubmission(s) ==
    /\ creator[s] = "checked"
    /\ \A t \in Sub : t < s => status[t] # "absent"
    /\ creator' = [creator EXCEPT ![s] = "inserted"]
    /\ status' = [status EXCEPT ![s] = "creating"]
    /\ UNCHANGED <<rows, score, gen, callVars, wake, fpc, queueVars, evalVars, histVars, bounds>>

\* Mutant of InitSubmission: no UNIQUE constraint.
InitSubmissionTwice(s) ==
    /\ creator[s] = "inserted"
    /\ creator' = [creator EXCEPT ![s] = "none"]
    /\ s \in Live
    /\ status' = [status EXCEPT ![s] = "waiting"]
    /\ rows' = [rows EXCEPT ![s] =
          [r \in DOMAIN @ \cup DOMAIN FreshRows(s) |-> IF r \in DOMAIN @ THEN @[r] ELSE "new"]]
    /\ gen' = [gen EXCEPT ![s] = @ + 1]
    /\ WakeNext
    /\ UNCHANGED <<score, adm, serving, wake, fpc, queueVars, evalVars, histVars, bounds>>

\* Rows that are already there stay; with subtasks, UNIQUE(submission_id,
\* subtask_id) makes the transaction fail then.  The submission stays as it
\* is when it fails.  (gen[s] > 0 says that there are rows.)
InitSubmission(s) ==
    /\ creator[s] = "inserted"
    /\ creator' = [creator EXCEPT ![s] = "none"]
    /\ LET refused == s \notin Live \/ (HasSubtasks /\ gen[s] > 0)
       IN  \/ /\ ~refused
              /\ status' = [status EXCEPT ![s] = "waiting"]
              /\ rows' = [rows EXCEPT ![s] =
                    [r \in DOMAIN @ \cup DOMAIN FreshRows(s) |->
                        IF r \in DOMAIN @ THEN @[r] ELSE "new"]]
              /\ gen' = [gen EXCEPT ![s] = @ + 1]
              /\ touched' = IF s \in Busy \/ gen[s] > 0
                            THEN touched \cup {s} ELSE touched
              /\ WakeNext
              /\ UNCHANGED <<score, faulty, missed, bounds>>
           \/ refused /\ UNCHANGED <<dbVars, waking, histVars, bounds>>
           \/ Fault /\ UNCHANGED <<dbVars, waking, histVars>>
    /\ UNCHANGED <<adm, serving, wake, fpc, queueVars, evalVars>>

-----------------------------------------------------------------------------
(* Resets, reevaluation, deletion *)

\* The reevaluate button of one submission.
ResetSubmission(s) ==
    /\ Request /\ s \in Live
    /\ ResetSubmissions({s})
    /\ WakeNext
    /\ UNCHANGED <<creator, adm, serving, wake, fpc, queueVars, evalVars, faulty, missed>>

\* The reevaluate button of the problem.
ResetProblemSubmissions ==
    /\ Request
    /\ status' = [s \in Sub |-> IF s \in Live THEN "reevaling" ELSE status[s]]
    /\ WakeNext
    /\ UNCHANGED <<rows, score, gen, creator, adm, serving, wake, fpc, queueVars, evalVars, histVars>>

DeleteSubmission(s) ==
    /\ Request /\ s \in Live
    /\ status' = [status EXCEPT ![s] = "deleted"]
    /\ rows' = [rows EXCEPT ![s] = <<>>]
    /\ score' = [score EXCEPT ![s] = Unset]
    /\ UNCHANGED <<gen, webVars, wake, fpc, queueVars, evalVars, histVars>>

\* ResetWaitingSubmissions, as the process starts, before the web server does,
\* and from the admin page: the ids are read first and reset later.
RequestResetWaiting ==
    /\ Request /\ adm = Idle
    /\ adm' = [adm EXCEPT !.at = "read"]
    /\ UNCHANGED <<dbVars, creator, serving, waking, wake, fpc, queueVars, evalVars, histVars>>

\* The reset failed: what no evaluation finishes remains "working".  At the
\* start of the process that is a warning, and the web server starts.
LeaveWorking(S) ==
    /\ adm' = Idle /\ serving' = TRUE
    /\ faulty' = faulty \cup (S \ Busy)

\* Mutant of ReadWorking: the filter asks for the waiting submissions.
ReadWaiting ==
    /\ adm.at = "read"
    /\ adm' = [at |-> "reset", ids |-> {s \in Sub : status[s] = "waiting"}]
    /\ UNCHANGED <<dbVars, creator, serving, waking, wake, fpc, queueVars, evalVars, histVars, bounds>>

ReadWorking ==
    /\ adm.at = "read"
    /\ LET working == {s \in Sub : status[s] = "working"}
       IN  \/ /\ adm' = [at |-> "reset", ids |-> working]
              /\ UNCHANGED <<serving, faulty, bounds>>
           \/ /\ Fault /\ LeaveWorking(working)
    /\ UNCHANGED <<dbVars, creator, waking, wake, fpc, queueVars, evalVars, touched, missed>>

ResetWorking ==
    /\ adm.at = "reset"
    /\ \/ /\ ResetSubmissions(adm.ids)
          /\ adm' = [at |-> "wake", ids |-> {}]
          /\ UNCHANGED <<serving, faulty, bounds>>
       \/ /\ Fault /\ LeaveWorking(adm.ids)
          /\ UNCHANGED <<dbVars, touched>>
    /\ UNCHANGED <<creator, waking, wake, fpc, queueVars, evalVars, missed>>

\* What these handlers do after their commit.  ResetWaitingSubmissions then
\* returns; at the start of the process the web server comes next.
WakeGrader ==
    /\ Wake
    /\ \/ waking > 0 /\ waking' = waking - 1 /\ UNCHANGED <<adm, serving>>
       \/ adm.at = "wake" /\ adm' = Idle /\ serving' = TRUE /\ UNCHANGED waking
    /\ UNCHANGED <<dbVars, creator, fpc, queueVars, evalVars, touched, faulty, bounds>>

-----------------------------------------------------------------------------
(* The grader goroutine: Handler.Start and Handler.handle *)

\* The sandboxes or the remote grader are there: Start registers the handler.
StartGrader ==
    /\ Up /\ fpc = "off"
    /\ fpc' = "wait"
    /\ UNCHANGED <<dbVars, webVars, wake, queueVars, evalVars, histVars, bounds>>

\* The ticker wakes every five seconds.  A token it puts while the grader is
\* busy only matters when the grader next waits, so that is when it ticks here.
Tick ==
    /\ fpc = "wait" /\ ~wake
    /\ wake' = TRUE
    /\ UNCHANGED <<dbVars, webVars, fpc, queueVars, evalVars, histVars, bounds>>

ReceiveWake ==
    /\ fpc = "wait" /\ wake
    /\ wake' = FALSE /\ missed' = FALSE
    /\ fpc' = "fetch"
    /\ rewake' = FALSE /\ reevals' = FALSE
    /\ UNCHANGED <<dbVars, webVars, queue, evalVars, touched, faulty, bounds>>

Found == {s \in Sub : status[s] = IF reevals THEN "reevaling" ELSE "waiting"}
Limit == IF reevals THEN ReevalBatch ELSE Batch

\* The filters ask for one more than the limit, to see whether there is more.
Fetch ==
    /\ fpc = "fetch"
    /\ \/ /\ queue' = {s \in Found : Cardinality({t \in Found : t < s}) < Limit}
          /\ rewake' = (rewake \/ Cardinality(Found) > Limit)
          /\ UNCHANGED <<bounds, missed>>
       \/ Fault /\ missed' = TRUE /\ UNCHANGED <<queue, rewake>>
    /\ fpc' = "next"
    /\ UNCHANGED <<dbVars, webVars, wake, reevals, evalVars, touched, faulty>>

\* The next of the queue, which is in the order of the ids.
Take(s) ==
    /\ s \in queue /\ \A t \in queue : s <= t
    /\ cur' = s /\ queue' = queue \ {s}

NextWaiting ==
    /\ fpc = "next" /\ ~reevals
    /\ \E s \in queue : Take(s)
    /\ fpc' = "begin"
    /\ UNCHANGED <<dbVars, webVars, wake, reevals, rewake, mem, sum, histVars, bounds>>

\* A submission of the reevaluation queue is reset first, which also wakes:
\* in the same step, since only this goroutine takes the token, and later.
NextReeval ==
    /\ fpc = "next" /\ reevals
    /\ \E s \in queue :
          /\ Take(s)
          /\ \/ /\ ResetSubmissions({s}) /\ Wake
                /\ fpc' = "begin" /\ UNCHANGED bounds
             \/ /\ Fault /\ missed' = TRUE
                /\ fpc' = "next"
                /\ UNCHANGED <<dbVars, wake, touched>>
    /\ UNCHANGED <<webVars, reevals, rewake, mem, sum, faulty>>

EndOfWaiting ==
    /\ fpc = "next" /\ ~reevals /\ queue = {}
    /\ reevals' = TRUE /\ fpc' = "fetch"
    /\ UNCHANGED <<dbVars, webVars, wake, queue, rewake, evalVars, histVars, bounds>>

EndOfReevals ==
    /\ fpc = "next" /\ reevals /\ queue = {}
    /\ wake' = (wake \/ rewake)
    /\ fpc' = "wait"
    /\ UNCHANGED <<dbVars, webVars, queueVars, evalVars, histVars, bounds>>

\* runSubmission: whatever the status has become, it is "working" now.
Begin ==
    /\ fpc = "begin"
    /\ \/ /\ SetStatus(cur, "working")
          /\ fpc' = "load"
          /\ faulty' = faulty \ {cur}
          /\ UNCHANGED <<missed, bounds>>
       \/ /\ Fault /\ missed' = TRUE
          /\ fpc' = "next"
          /\ UNCHANGED <<status, faulty>>
    /\ UNCHANGED <<rows, score, gen, webVars, wake, queueVars, evalVars, touched>>

-----------------------------------------------------------------------------
(* executeSubmission, for a classic submission *)

evalFrame == <<gen, webVars, wake, queueVars, cur, touched, missed>>

\* An error return: the deferred functions run, nothing else.
GiveUp(l) ==
    /\ faulty' = faulty \cup {cur}
    /\ fpc' = l
    /\ UNCHANGED <<status, rows, score, mem, sum>>

\* A return after the submission got the default points.
FinishDefault ==
    /\ SetStatus(cur, "finished") /\ SetScore(cur, Default)
    /\ fpc' = "mark"
    /\ UNCHANGED <<rows, mem, sum, faulty, bounds>>

\* Without its language the submission is finished before the deferred call
\* of markSubtestsDone is set up.
Load ==
    /\ fpc = "load"
    /\ \/ fpc' = "compile" /\ UNCHANGED <<status, rows, score, mem, sum, faulty, bounds>>
       \/ GiveUp("finish") /\ UNCHANGED bounds
       \/ GiveUp("mark") /\ Fault
    /\ UNCHANGED evalFrame

Compile ==
    /\ fpc = "compile"
    /\ \/ fpc' = "prepare" /\ UNCHANGED <<status, rows, score, mem, sum, faulty, bounds>>
       \/ FinishDefault
       \/ GiveUp("mark") /\ Fault
    /\ UNCHANGED evalFrame

PrepareChecker ==
    /\ fpc = "prepare"
    /\ \/ fpc' = "tests" /\ UNCHANGED <<status, rows, score, mem, sum, faulty, bounds>>
       \/ FinishDefault
       \/ GiveUp("mark") /\ Fault
    /\ UNCHANGED evalFrame

FetchTests ==
    /\ fpc = "tests"
    /\ \/ /\ mem' = DOMAIN rows[cur]
          /\ fpc' = "run"
          /\ UNCHANGED <<status, rows, score, sum, faulty, bounds>>
       \/ Fault /\ SetStatus(cur, "finished") /\ SetScore(cur, Default)
          /\ fpc' = "mark" /\ UNCHANGED <<rows, mem, sum, faulty>>
       \/ GiveUp("mark") /\ Fault
    /\ UNCHANGED evalFrame

\* A goroutine of handleClassicSubmission: the result goes to the row, if the
\* row is still there; an error is logged and the row stays as it is.
RunTest(r) ==
    /\ fpc = "run" /\ r \in mem
    /\ mem' = mem \ {r}
    /\ \/ /\ rows' = IF r \in DOMAIN rows[cur]
                     THEN [rows EXCEPT ![cur][r] = "graded"] ELSE rows
          /\ UNCHANGED <<faulty, bounds>>
       \/ Fault /\ faulty' = faulty \cup {cur} /\ UNCHANGED rows
    /\ UNCHANGED <<status, score, fpc, sum, evalFrame>>

\* Mutant of ReadScores: it does not wait for the goroutines of the tests.
ReadScoresEarly ==
    /\ fpc = "run"
    /\ sum' = Graded(cur)
    /\ fpc' = "write"
    /\ UNCHANGED <<status, rows, score, mem, faulty, bounds, evalFrame>>

\* scoreTests reads the rows and writes the score in two statements.
ReadScores ==
    /\ fpc = "run" /\ mem = {}
    /\ \/ /\ sum' = Graded(cur)
          /\ fpc' = "write"
          /\ UNCHANGED <<status, rows, score, mem, faulty, bounds>>
       \/ GiveUp("mark") /\ Fault
    /\ UNCHANGED evalFrame

WriteScore ==
    /\ fpc = "write"
    /\ \/ /\ SetStatus(cur, "finished") /\ SetScore(cur, SumOf(sum))
          /\ fpc' = "mark"
          /\ UNCHANGED <<rows, mem, sum, faulty, bounds>>
       \/ GiveUp("mark") /\ Fault
    /\ UNCHANGED evalFrame

\* markSubtestsDone, deferred: reads the rows, then updates those not done.
ReadUndone ==
    /\ fpc = "mark"
    /\ \/ /\ mem' = {r \in DOMAIN rows[cur] : rows[cur][r] = "new"}
          /\ fpc' = "marking"
          /\ UNCHANGED <<status, rows, score, sum, faulty, bounds>>
       \/ GiveUp("finish") /\ Fault
    /\ UNCHANGED evalFrame

MarkDone ==
    /\ fpc = "marking"
    /\ \E marked \in SUBSET mem :
          /\ rows' = [rows EXCEPT ![cur] =
                [r \in DOMAIN @ |-> IF r \in marked THEN "done" ELSE @[r]]]
          /\ \/ marked = mem /\ UNCHANGED <<faulty, bounds>>
             \/ marked # mem /\ Fault /\ faulty' = faulty \cup {cur}
    /\ mem' = {} /\ fpc' = "finish"
    /\ UNCHANGED <<status, score, sum, evalFrame>>

\* The outermost deferred function: finished, whatever happened.
Finish ==
    /\ fpc = "finish"
    /\ \/ SetStatus(cur, "finished") /\ UNCHANGED <<faulty, bounds>>
       \/ Fault /\ faulty' = faulty \cup {cur} /\ UNCHANGED status
    /\ fpc' = "next" /\ cur' = None /\ mem' = {} /\ sum' = {}
    /\ UNCHANGED <<rows, score, gen, webVars, wake, queueVars, touched, missed>>

-----------------------------------------------------------------------------
(* Crash and restart *)

Crash ==
    /\ Up /\ crashes < MaxCrashes
    /\ crashes' = crashes + 1
    /\ adm' = [at |-> "down", ids |-> {}] /\ serving' = FALSE
    /\ creator' = [s \in Sub |-> "none"] /\ waking' = 0
    /\ wake' = FALSE /\ fpc' = "off"
    /\ queue' = {} /\ reevals' = FALSE /\ rewake' = FALSE
    /\ cur' = None /\ mem' = {} /\ sum' = {}
    /\ missed' = TRUE
    /\ UNCHANGED <<dbVars, touched, faulty, ops, faults>>

\* Mutant of Restart: the process starts without resetting what was left.
RestartOnly ==
    /\ ~Up
    /\ adm' = Idle
    /\ serving' = TRUE
    /\ UNCHANGED <<dbVars, creator, waking, wake, fpc, queueVars, evalVars, histVars, bounds>>

Restart ==
    /\ ~Up
    /\ adm' = [adm EXCEPT !.at = "read"]
    /\ UNCHANGED <<dbVars, creator, serving, waking, wake, fpc, queueVars, evalVars, histVars, bounds>>

-----------------------------------------------------------------------------
Handlers ==
    \/ \E s \in Sub : \/ CheckLimits(s) \/ InsertSubmission(s) \/ InitSubmission(s)
                      \/ ResetSubmission(s) \/ DeleteSubmission(s)
    \/ ResetProblemSubmissions \/ RequestResetWaiting

Execute ==
    \/ Load \/ Compile \/ PrepareChecker \/ FetchTests
    \/ \E r \in mem : RunTest(r)
    \/ ReadScores \/ WriteScore \/ ReadUndone \/ MarkDone \/ Finish

Grader ==
    \/ StartGrader \/ ReceiveWake \/ Fetch \/ NextWaiting \/ NextReeval
    \/ EndOfWaiting \/ EndOfReevals \/ Begin \/ Execute

Next ==
    \/ Handlers \/ ReadWorking \/ ResetWorking \/ WakeGrader \/ Tick \/ Grader
    \/ Crash \/ Restart

Spec == Init /\ [][Next]_vars

(***************************************************************************)
(* The grader goroutine and the handlers are scheduled, sandboxes end at   *)
(* their wall time limit, the ticker ticks, and a process that crashed is  *)
(* started again.  That a user submits or an editor resets is not assumed. *)
(***************************************************************************)
FairSpec ==
    /\ Spec
    /\ WF_vars(Grader) /\ WF_vars(Tick)
    /\ WF_vars(ReadWorking \/ ResetWorking) /\ WF_vars(WakeGrader) /\ WF_vars(Restart)
    /\ \A s \in Sub : WF_vars(InitSubmission(s))

-----------------------------------------------------------------------------
(* Properties *)

DatabaseTypeOK ==
    /\ status \in [Sub -> Status] /\ gen \in [Sub -> Nat]
    /\ rows \in [Sub -> {rows[s] : s \in Sub}]
    /\ \A s \in Sub : rows[s] \in [DOMAIN rows[s] -> RowState] /\ DOMAIN rows[s] \subseteq Row
    /\ score \in [Sub -> [from : {"nothing", "default", "rows"}, of : SUBSET Row]]

ProcessTypeOK ==
    /\ creator \in [Sub -> {"none", "checked", "inserted"}]
    /\ adm \in [at : {"down", "read", "reset", "wake", "idle"}, ids : SUBSET Sub]
    /\ waking \in Nat /\ serving \in BOOLEAN /\ wake \in BOOLEAN /\ fpc \in FPC
    /\ queue \subseteq Sub /\ reevals \in BOOLEAN /\ rewake \in BOOLEAN
    /\ cur \in Sub \cup {None} /\ (AtSub => cur \in Sub)
    /\ mem \subseteq Row /\ sum \subseteq Row

TypeOK ==
    /\ DatabaseTypeOK /\ ProcessTypeOK
    /\ touched \subseteq Sub /\ faulty \subseteq Sub /\ missed \in BOOLEAN
    /\ ops \in 0..MaxOps /\ faults \in 0..MaxFaults /\ crashes \in 0..MaxCrashes

(***************************************************************************)
(* A submission is "working" only while the grader is at it, or a crash    *)
(* left it behind and the reset at the next start has yet to reach it, or  *)
(* the statement that should have finished or reset it failed.  Nothing    *)
(* else takes a "working" submission up again.                             *)
(***************************************************************************)
WorkingIsOwned ==
    \A s \in Sub : status[s] = "working" =>
        \/ s \in Busy
        \/ adm.at \in {"down", "read"} \/ s \in adm.ids
        \/ s \in faulty

(***************************************************************************)
(* The score of a finished submission is the one of the rows it has: the   *)
(* sum over exactly its graded rows, or the default points with no row     *)
(* graded, or unset after an error inside the grader; and without such an  *)
(* error a sum is over all its rows.  The exception is a submission that   *)
(* was reset while it was evaluated: the evaluation writes its status and  *)
(* score over those of the reset.  The queue the grader works through is   *)
(* stale, the process may crash anywhere, and a submission may be reset,   *)
(* deleted or marked for reevaluation at any time.                         *)
(***************************************************************************)
ScoreOfRows ==
    \A s \in Sub \ touched : status[s] = "finished" =>
        \/ score[s] = SumOf(Graded(s)) /\ (s \in faulty \/ Graded(s) = DOMAIN rows[s])
        \/ score[s] = Default /\ Graded(s) = {}
        \/ score[s] = Unset /\ s \in faulty

(***************************************************************************)
(* Every test counts once: submission_tests has one row per test of the    *)
(* problem, although initialisation only inserts and a reset may run       *)
(* before it.  It is the UNIQUE constraint on subtasks that ensures it.    *)
(***************************************************************************)
OneRowPerTest ==
    HasSubtasks => \A s \in Sub : \A q, r \in DOMAIN rows[s] : q[2] = r[2] => q = r

(***************************************************************************)
(* wakeChan holds one token and the token is taken before the database is  *)
(* read; handlers put it there after their commit, when the grader may     *)
(* have fetched their work, or have begun to wait.  Still, a grader that   *)
(* waits without a token has nothing to do, unless some handler is between *)
(* its commit and its call of WakeGrader, a wake-up came before            *)
(* RegisterGrader, or a database call failed: only for those two is the    *)
(* ticker of Handler.Start needed.                                         *)
(***************************************************************************)
Announcing == waking > 0 \/ adm.at = "wake"

NoForgottenWork ==
    fpc = "wait" /\ ~wake /\ ~missed /\ ~Announcing =>
        \A s \in Sub : status[s] \notin {"waiting", "reevaling"}

(***************************************************************************)
(* "Maximum number of unfinished submissions in the eval queue (for a      *)
(* single user)" (sudoapi/flags/backend_flags.go:86).                      *)
(***************************************************************************)
QueueLimit == Cardinality(Unfinished) <= WaitLimit

(***************************************************************************)
(* Whatever waits for evaluation or is being evaluated is finished in the  *)
(* end, over crashes and resets, or deleted.                               *)
(***************************************************************************)
EventuallyFinished ==
    \A s \in Sub :
        status[s] \in {"waiting", "working", "reevaling"} ~> status[s] \in {"finished", "deleted"}
=============================================================================
