# Kilonova in TLA+

Kilonova is a platform for programming contests: users submit solutions, a
grader compiles and runs them in sandboxes against the tests of a problem, and
the scores feed problem pages and contest leaderboards. This directory holds a
formal model of the parts in which concurrency, failure and ordering decide
whether that works, TLC configurations that check it on small instances, and
TLAPS proofs of what holds for every instance. Paths below are relative to
`src/`.

## 1. Inventory

| Component | State | Operations | Hard behaviour | Correct when |
|---|---|---|---|---|
| Sandbox scheduler, `eval/scheduler/manager.go` | semaphores `concSem` and `memSem`, channel `availableIDs` | `RunBox3`, `RunMultibox3`, `Close` | many goroutines; every step may fail or be given up; several sandboxes per request | no box number is used twice, weight and memory are conserved, requests return |
| Evaluation queue, `eval/grader/feeder.go` | `wakeChan`, the batch being worked through | `Wake`, `handle`, `runSubmission`, `Start`, `Close` | tokens against database reads, stale batches | no work is forgotten |
| Submission evaluation, `eval/grader/grader.go` | the submission in memory, its rows in the database | compile, prepare the checker, run tests, score, deferred clean-up | any call may fail, rows may be replaced meanwhile | the submission ends finished, with the score of its rows |
| Submission lifecycle, `sudoapi/submission.go`, `sudoapi/admin.go`, `db/submission.go`, `db/sub_reset.go` | tables `submissions`, `submission_tests`, `submission_subtasks` | create, initialise, reset, reevaluate a problem, reset at the start, delete | transactions of several handlers against the grader; crashes between them | every test counts once, nothing stays "working" unowned |
| Cached problem scores, `db/psql_schema/001.base.sql` | table `max_scores` | `reset_max_score`, called by triggers | READ COMMITTED snapshots, a row lock taken after the calculation | the cache is what recalculating gives |
| Scratch space and Box2 wrapper, `eval/scheduler/box2_wrapper.go`, `eval/scratch`, `internal/fsevict` | files named by UUID | convert, save, read, delete, clear, sweep | partial failures leave files, the sweep goes by age | what is left is explained, and in the end reclaimed |
| Remote grader RPC, `eval/scheduler/rpc_*.go` | none | the two calls of the scheduler | lost connections, a context that ends on one side | the same answer as a local call, or an error |
| Sandboxes, `eval/box` | directories, control groups | run a command with retries, copy files | an attempt that fails half-way | the statistics are those of the attempt that counts |
| Languages and tasks, `eval/language`, `eval/tasks`, `langmgr.go` | version cache | compile, execute, versions | merging of statistics, panics on missing ones | a verdict is earned |
| Checkers, `eval/checkers` | compiled checkers in a bucket | prepare, run | a stale compiled checker | the checker run is that of the current source |
| Data store, `domain/datastore` | files per bucket | write, read, remove, reset, evict | writing is not atomic | what was written is read |
| Contests, `sudoapi/contest*.go`, `db/contest*.go`, `999.views.sql` | settings, registrations, windows, invitations, submissions | register, start, submit, kick, invite, edit | checks apart from writes; one rule written in Go and in SQL | who may submit may see, nothing is shown early, limits hold up to races |
| Staff, `api/problem.go`, `api/contest.go`, `db` | `*_user_access` | add, demote, strip | two statements per change | an editor stays |
| Leaderboards, `db/contest.go`, `999.views.sql` | none | n+1 queries | results arrive between them | ranks by the rules, cells explain ranks |
| Users and sessions, `sudoapi/session.go`, `db/verif_session.go` | sessions, a cache of them | log in, extend, log out, edit, delete | a cache filled while the row changes | a cached user is current, but for named reasons |
| OpenID provider, `internal/auth` | tokens and requests | grant, renew, revoke, sign out | several statements and a foreign key | tokens are revoked together |
| Problems, tests, archives, `sudoapi/test.go`, `sudoapi/subtask.go`, `domain/archive/test` | rows and files | edit, delete, import | no transaction over rows and files | files and rows agree, an import is whole |
| Problem lists, `sudoapi/pblist.go`, `db/pblist.go` | two tables, two materialized views | edit, delete, unfold | lists nested in circles | page and count agree |
| Statements and renders, `sudoapi/attachment.go`, `api/assets.go` | attachment, file with its render | view, edit, rename, delete | a render of old data arrives late | the cached render is current, but for named reasons |
| Web, API, infrastructure | – | routing, rendering, telemetry | | |

How they interact. A web handler calls `sudoapi`, which checks and writes to the
database and then calls `WakeGrader`. That puts a token into `wakeChan`, unless
no grader is registered yet. The one goroutine of `Handler.handle` takes the
token, reads the waiting and then the reevaluated submissions, and evaluates
them one after another. An evaluation calls the sandbox scheduler once per
compilation and concurrently once per test of a classic submission; results go
to the database from those goroutines. Writing a score fires the triggers that
recalculate `max_scores`. Only the database outlives the process; at the next
start, submissions that were left "working" are reset, while the grader
goroutine is already running.

`PROJECT.json` lists every component, modelled or not, and under `hazards` what
is hard to test in this code, each at its line, with the property that would
catch it or the part of the plan it waits for.

## 2. Modules

    BoxPool            what the scheduler promises about box numbers (abstract)
    BoxManager         the scheduler; INSTANCEs BoxPool for the refinement
    TaskPromise        what a call promises about its commands (abstract)
    BoxTask            one task, from the scratch space to the verdict;
                       INSTANCEs TaskPromise for the refinement
    Submissions        lifecycle, queue and evaluation over one database
    Verdicts           classic and ICPC scores and verdicts of one submission
    MaxScores          cached scores under concurrent transactions
    Contests           settings, registrations, windows, submissions, visibility
    StaffAccess        editors and viewers of a problem or contest
    Leaderboard        the ICPC leaderboard, built in several queries
    Sessions           sessions and the cache of session users
    Tokens             OAuth tokens
    TestData           tests, subtasks, their files, archive imports
    TestScores         automatic scores of an archive's tests
    ProblemLists       nested lists and their materialized views
    Renders            the cached render of an attachment
    CheckerCache       the compiled checker in its bucket
    MC_Services        Verdicts and the ten modules from Contests on, side by side
    MC_<M>             the instances of <M> for TLC
    BoxManager_proofs, BoxTask_proofs, Submissions_proofs, MaxScores_proofs
                       theorems about the module of that name
    Access_proofs      theorems about Contests, StaffAccess, Tokens, Sessions
    Derived_proofs     theorems about Renders, CheckerCache, TestData, ProblemLists
    Results_proofs     theorems about Verdicts, Leaderboard, TestScores
    Sums_proofs        lemmas about sums, Max and Min, for the last three

Operators that start a comment with "Mutant of" are never part of a
specification: each is a plausible mistake in the definition that follows it,
and shows that a property notices it.

### BoxManager

A caller is a goroutine inside `RunBox3` or `RunMultibox3`; `pc` says where. The
semaphores are the first-come-first-served ones of `golang.org/x/sync`: `concQ`,
`memQ` are the waiters, `concFree`, `memFree` what is free. A request larger than
the size of a semaphore waits outside its queue until its context is done
(`"doomed"`), as that package does. `availableIDs` is a set, since the order of
numbers matters to nothing. The amounts that are out of a semaphore are counted as
sets of units (`WeightTaken`, `MemoryTaken`), one for each unit of weight or memory of each
holder. Steps of one caller:

| pc | action | code |
|---|---|---|
| idle | `Call` | the checks of `RunMultibox3`; `RunBox3` has none |
| conc | `AcquireConc`, `GiveUpConc` | `concSem.Acquire` |
| fifo | `MakeFifos` | making the FIFOs, which may fail |
| getBox | `GetBox` | the branch on `memQuota > 0` |
| mem, doomed | `AcquireMem`, `GiveUpMem` | `memSem.Acquire` |
| id | `DrawId` | the receive from `availableIDs`, which ignores the context |
| gen | `GenOk`, `GenFail` | the box generator |
| setup, run | `Setup`, `Run` | copying files; running, collecting |
| unwind, freeMem | `YieldId`, `FreeMem`, `ReleaseConc` | the deferred calls, in reverse order |

`BeginClose`, `CloseAcquired` and `CloseCtxDone` are `Close`. A send on the closed
channel takes the process down (`panicked`), after which nothing happens.

### Submissions

Every statement or transaction that reads or writes a status, a score or a row
of `submission_tests` is a step. Rows are named `<<initialisation, test>>`, so
that the grader's old rows and the new ones of a reset are different objects. A
score is abstracted to what it was computed from: unset, the default points, or
a set of graded rows. `creator` is the calls of `CreateSubmission`, `adm` that of
`ResetWaitingSubmissions`, and the rest of the process state is the grader
goroutine: `wake` the token, `fpc` the place, `queue` the batch, `cur` the
submission, `mem` the rows in memory. A handler that commits is counted in `waking`
(the call of `ResetWaitingSubmissions` is at "wake") until its `WakeGrader`, a step of
its own: the grader may meanwhile find the work, or miss it and begin to wait. Only the
reset of the reevaluation queue wakes in its own step, since the goroutine that makes it
is the one that takes the token. The goroutines of the tests are `RunTest(r)`
for each row in `mem`, in any order. History variables name the exceptions of the
properties: `touched` (rows inserted during an evaluation, or in two goes),
`faulty` (the last evaluation met an error), `missed` (a wake-up found no grader,
or a call failed). Evaluation is that of a classic submission, and
what a score is worth is in `Verdicts`.

### MaxScores

One user and one problem. A transaction is a function variable per connection:
`kind` and `sub` say what it changes, `own` the new score; `Calculate` takes the
snapshot and evaluates `max_score()`, `Upsert` waits for and takes the row lock,
`Commit` publishes all of it, `Abort` none. The snapshot is what is committed and
what the transaction itself wrote (`ScoresSeen`, `PartsSeen`): `max_score` is STABLE,
so in `reset_max_score` both its calls see the snapshot of the statement, which is
older than the wait for the lock. Rows of `submission_subtasks` disappear before
the trigger of a deletion (foreign keys cascade first) and after that of a reset
(`clearSubs` updates first). `late` and `behind` are history: what has happened since
a value was calculated.

### BoxTask

One task: a compilation, a batch test or a communication test, on a local or a
remote grader. Three processes share it. The wrapper (`wrap`) makes up the
requests file by file (`SaveInput`: `convertRequest`), sends them, receives the
answer, takes the outputs out of the scratch space (`TakeOutput`:
`convertResponse`), clears the inputs (`ClearInput`) and judges. The manager (`mgr`) takes boxes,
copies inputs, starts one goroutine per sandbox and joins them (`GetBox`,
`CopyInput`, `StartCommands`, `Collect`, `Respond`, `Join`). A goroutine (`gor`) is the
loop of `RunCommand`: `Launch`, `NoMetaFile`, `CommandEnds`, `CommandFails`. Statistics are
reduced to what is decided on: `"ok"`, `"RE"` (exit code or busy file), `"killed"` (limit or
interrupt), `"XX"` (isolate failed), `"empty"` (the context was done) and `"none"` (nil). The
faults are failing reads, saves, deletions and boxes, failing attempts, a lost
connection and the sweep (`Age`, `Sweep`), which goes by age alone and runs on a
remote grader only. What is not there: `cancelManager` never runs in the code, because
`userWg.Done` is never called, so no action ends the manager when the users end.

### Verdicts

One submission of one problem. `marks` and `pieces` are the rows of tests and subtasks,
`judge` what the evaluation holds; an editor (`EditRubric`) and a reset come in
between. Points count the last digit of the finest precision, so rounding
(`RoundedShare`) is exact integer arithmetic. `amiss` names what came in the way of the
last evaluation. `ResultFollows` restates, independently of the grader's loops, what
score and verdict the rows of an evaluation make.

### Contests, StaffAccess, Leaderboard

`Contests` has one contest with one problem. A request decides on what it reads
(`Register`, `AcceptInvitation`, `StartRegistration`, `Submit`, `Kick`) and writes later
(`WriteRegistration`, ...), as the code does; the checks exist twice, as the Go functions
of `contest.go` and `sudoapi` (strict comparisons) and as the SQL functions of
`999.views.sql` (`<=`, `RunningInSQL`), and are translated separately. `StaffAccess` has the
two statements of a change of rank. `Leaderboard` has the query that ranks
(`contest_icpc_view`) and one query per row for its cells, with judging, resets and time
in between. Both read `contest_max_scores`: the best submission of a problem, or the sum of its
best subtasks, which the grader scores one by one (`ScoreSubtask`), times the scale that a
submission took from its problem when it was initialised or reset. A problem is solved
there if that makes exactly 100, so with another scale a full solution does not count, or a
partial one does; `IcpcByTheRules` speaks of contestants whose submissions are scored whole
and out of 100 (`Plain`), `CellsExplainRow` of every way of scoring.

### Sessions, Tokens

`Sessions` has the loading cache, whose loader queries the database and stores
later, against logins, expiry, updates and invalidation one session at a time.
`Tokens` has the rows of `oauth_tokens` with the foreign key `from_token` as a guard
(`ParentExists`) and its cascade.

### TestData, TestScores, ProblemLists, Renders, CheckerCache

`TestData` has requests that each do one statement or write one file at a time; an
archive import is such a request under `testArchiveLock`, and `Unlocked`, which says that
nobody holds it, is no request. A file that cannot be removed is logged and the job goes on:
`PurgeTestData` leaves any part of what was there, and `halfway` remembers the test. `TestScores` is the pure algorithm of
`ProcessTestArchive`, its loop a recursive function of the number of tests seen, with scores
as integers; `Unscored` is the code's mark for a test without a score, minus one. `ProblemLists` computes the
recursive views round by round. A page is made by `ReadLists` (the list, all under it, their problems
and counts), one `ReadSublists` for each of them and `ReadProblems` (the problems that the viewer may see), with
edits in between (`edits` counts them), and `Hydrate` unfolds it along the path of lists it came
through. The property compares what is shown with the views. `Renders` and
`CheckerCache` have a bucket file that is created, filled and removed without a
lock, against views, edits and restarts.

## 3. Runs

All take less than five minutes with two workers.

| Run | Bounds | Shows |
|---|---|---|
| `box_mixed` | 3 callers, `count` 2, memory 3, four shapes of request, three generator failures | type, exclusive numbers, conservation of memory and weight, enough numbers, a clean `Close`, and that `BoxManager` implements `BoxPool` |
| `box_communication` | 3 callers, `count` 4, memory 4, batch and communication tests | the manager stops only while a `RunMultibox3` keeps sandboxes and queues for more memory beside another request; otherwise requests return |
| `box_deadlock` (violation) | 2 callers, both of `RunMultibox3` | two `RunMultibox3` block each other for ever |
| `box_close_ctx` (violation) | 2 callers | `Close` stops waiting while a sandbox is alive |
| `submissions_safety` | 2 submissions, 2 tests; 2 requests and a fault or a crash, or a fault and a crash | ownership of "working", scores of rows, one row per test, no forgotten work |
| `submissions_progress` | 2 submissions, 1 test, 1 request, 1 crash, no fault | everything queued is finished or deleted in the end |
| `submissions_limit` (violation) | 2 submissions, limit 1 | the limit on unfinished submissions is exceeded |
| `maxscores_cache` | 2 submissions, 2 subtasks, 2 connections, points 0 and 1 | the cache is right unless a named reason explains why not |
| `maxscores_overlap` (violation) | 2 submissions, 2 connections, strategy max | the cache is wrong after an overlap |
| `tasks` | 3 kinds of task, local and remote, 1 user sandbox, 2 tries, 2 faults | verdicts are earned, a panic needs a last attempt without statistics, leftovers are explained, reclaimed on a remote grader; every task ends; `BoxTask` implements `TaskPromise` |
| `services` | eleven services, see below | one or two properties of each |
| `renewal` (violation) | one owner, one grant | no renewal succeeds |

Why the bounds are enough to be interesting. In `box_mixed` two of the three
callers exhaust the weight, so the third queues behind, and memory 3 is less than
two batch tests; three failures exceed `count`, so the supply of numbers runs out. In
`box_communication` the weight admits two communication requests and the memory
does not, and a communication request whose next sandbox fits waits behind a batch test that
does not. Batches of one (40 and 5 in the code) make two submissions exceed a
batch, which is what `rewake` is for. Two submissions and one grader are enough for
every interleaving of an evaluation with a handler on the same and on another
submission; two tests give partly graded rows. The counters `MaxOps`, `MaxFaults`,
`MaxCrashes` and `MaxLost` bound requests, failing calls, crashes and generator
failures; in `submissions_safety` three of these events may happen in one run, but
not one of each kind (`ThreeEvents`; `Submissions_proofs` has no such bound), and while the grader evaluates a handler wakes right after its commit
(`WakesDuringEvaluation`). That leaves out only wake-ups for the submission under
evaluation that come when the grader waits again. `submissions_progress` has neither bound. `LeastFirst` draws the least box number, which loses no state up to renaming;
symmetry is used over callers, tests, submissions, subtasks and connections where
the specification does not order them, and in no liveness run. Deadlock is not
checked for `Spec` of `BoxManager`: after `Close` or a panic it does stop.

In `tasks` two faults are a failure and the failure of its cleaning up, and use up both
tries. `services` checks the services side by side: the first state chooses one, which
moves alone, so each is checked completely and independently of the others, and a property of one is trivially true of the others' states. Their bounds:

| Service | Bounds | Why enough |
|---|---|---|
| contest | 2 persons, one of them staff, 2 requests, 4 moments, one edit between an individual and a shared contest, `SmallContest` writes | every order of two requests' checks and writes, around start, window and end |
| staff | 3 accounts, one administrator, 2 requests | two editors against each other, and an administrator |
| tokens | 2 owners, 2 grants, 4 tokens | a sign-out between the two statements of a grant |
| sessions | 2 sessions, 1 allowed, 2 requests, 2 updates | the loader before and after an invalidation |
| renders, checker | 2 views or preparations, 2 edits or sources, 4 moments | a late writer after a removal, a change during a compilation |
| leaderboard | 1 contestant, 2 problems, one of them scored by 2 subtasks; 3 submissions scored whole and out of 100, or 2 with subtasks or scale 50 (`SmallBoard`); 3 minutes, a freeze; a board behind which a submission was reset is not followed further | attempts before, at and after the solution and the freeze; a sum of subtasks out of two submissions; rows and cells of different contestants do not interact |
| lists | 3 lists, 1 problem, 1 edit while a page is made (`MaxListEdits`) | every nesting of three lists, circles included, and every single edit between two queries |
| tests | 2 requests, 2 archives, 2 tests, 1 subtask | an import against an edit or a deletion, failures anywhere |
| scores | archives of up to 3 tests with and without scores, up to 40 with at most two scores; 0, 1 and 2 decimals | every remainder of the division of a hundred points, and of what large scores leave of them, by up to 40 |
| verdicts | 2 tests, 3 layouts of subtasks, 3 percentages, 2 precisions, one edit, one reset | an empty, a shared and a complete subtask; a reset or edit at every step |

Symmetry is over the names of the requests. In `TokenSpec` the branch of `Renew` that
succeeds is never taken, which is the finding of `renewal`.

Fairness. `OpenSpec` of `BoxManager` assumes that a step a caller can take is
taken: goroutines are scheduled, isolate ends a command at its wall time limit,
and the semaphores serve their queues in order. It assumes of no context that it
ends. `FairSpec` of `Submissions` assumes the grader goroutine, the ticker, the
reset at the start and calls in progress of `InitSubmission` go on, and that a
crashed process is started again; not that anyone submits, resets or deletes.
`FairSpec` of `BoxTask` assumes that calls return, that commands end at their wall time
limit, that boxes are granted in the end (`BoxManager` says when), that time passes and that
`PeriodicSweep` goes on; it does not assume that a connection breaks or a context ends.
`submissions_progress` has no failing calls, because one failure of the update to
"finished" does leave a submission "working" until the next start; that is an
exception of `WorkingIsOwned`, where faults are checked.

## 4. Where the code and its texts disagree

Five runs end in a counterexample; `findings` in `PROJECT.json` quotes both sides.

1. `Close` "waits for all boxes to finish running", but ignores the error of the
   `Acquire` that waits. With a context that is done it closes the channel that
   sandboxes alive will be sent back on. What holds instead is `CloseIsClean`.
2. `RunMultibox3` takes memory sandbox by sandbox, and two calls can block each
   other for ever. One call suffices beside a `RunBox3`: its next sandbox queues behind the
   `RunBox3`, for which there is room only when the call returns. What holds instead is `CallsReturnOrDeadlock` and
   `StuckOnlyByHoldAndWait`.
3. `user_max_waiting` is checked before, and apart from, the insertion.
4. `max_scores` can keep a stale score after two transactions overlapped. What
   holds instead is `CacheExplained`: only that, a change of the strategy, or (for
   sums of subtasks) a silent change of rows makes the cache wrong, and the next
   undisturbed recalculation repairs it.
5. No refresh token can be renewed: `CreateAccessAndRefreshTokens` inserts the access
   token, which refers to the new refresh token, before that one. What holds
   instead is `RevokedTogether`.

Smaller ones, met while modelling, that are in the models as the code has them:

* `CleanupSubTasks` (`db/subtask.go`) deletes nothing, whatever its comment says.
* Automatic scores: the comments promise ascending order and "keep the delta <= 1.0 points"
  (`archive.go:338`). A part is about a point, and what is left of the surplus is poured
  into the test after the last whole part, so a score can be more than a point below the
  others, and below zero: 99.5 points given and four tests without a score, at one decimal,
  make -0.1 and three times 0.2. What holds is `ScoresAddUp`. A score given as zero
  counts among the shares and is not filled in, so `ScoresAddUp` leaves it out; and given
  scores of more than a hundred points, by less than a point after rounding up, divide by zero
  (`DividesByZero`: `dif.Ceil()` is 0), which ends the import in a panic.
* `createTest` does not check an explicit visible id, and two requests can draw the same
  free one. Files written after the deletion of their test stay.
* `RegisterContestUser` refuses a registered user only if the look-up fails; the
  UNIQUE constraint does the work. `StartContestRegistration` dereferences a missing registration.
* `persistently_visible_pbs` does not ask for an official contest, `visible_pbs` does.
* A killed compiler that left an executable has compiled: `CompileTask` looks at the exit code
  only. `mergeStats` never yields a status, so user sandboxes never decide a verdict.
* `handleBatchSubTest` and `handleCommunicationSubTest` compare times with the limit of the problem
  and not with that of the language; after a timeout a communication test keeps its score.
* An ICPC evaluation in which every test met an internal error ends accepted.
* `PeriodicSweep` runs in `grader-serve` only; on the platform, orphans stay.
* `DeleteUser` and expiry do not invalidate cached session users, which stay for their twenty seconds.

## 5. Proofs

TLAPS checks every theorem for all values of the constants that satisfy the named
assumptions. Every safety invariant that a passing run checks is stated by a theorem, as are
the two refinements. The proofs are inductive: an invariant holds initially and is
kept by every action, one step per action.

| Module | Theorem | States |
|---|---|---|
| `BoxManager_proofs` | `TypeCorrect`, `NoSharedBox`, `ImplementsPool` | `TypeOK`, `ExclusiveIds`, `PoolSpec` |
| | `MemoryInBudget`, `ConcurrencyInBudget`, `NumbersAreEnough` | `MemoryBudget`, `ConcurrencyBudget`, `IdsSuffice` |
| | `CleanClose`, `StopsOnlyByHoldAndWait` | `CloseIsClean`, `StuckOnlyByHoldAndWait` |
| `BoxTask_proofs` | `TaskTypeCorrect`, `TasksScoredHonestly`, `PanicsOnlyAfterAllTries` | `TypeOK`, `ScoredHonestly`, `PanicOnlyAfterAllTries` |
| | `TaskLeavesNothingElse`, `TaskKeepsPromise` | `LeftoversExplained`, `PromiseSpec` |
| `Submissions_proofs` | `TypeCorrect`, `WorkingOwned`, `ScoresRight`, `OneRow`, `WorkNotForgotten` | `TypeOK`, `WorkingIsOwned`, `ScoreOfRows`, `OneRowPerTest`, `NoForgottenWork` |
| `MaxScores_proofs` | `TypesCorrect`, `CacheIsExplained` | `TypeOK`, `CacheExplained` |
| `Access_proofs` | `AllSubmittersSee`, `NobodyLooksEarly`, `LimitsHoldUpToRaces`, `EveryEntryOwned` | `SubmittersSee`, `NoEarlyLook`, `AtMostOnePerRequest`, `EntriesOwned` of `Contests` |
| | `EditorStays`, `TokensRevokedTogether`, `CacheAlwaysExplained` | `EditorKept`, `RevokedTogether`, `CacheExplained` of `Sessions` |
| `Derived_proofs` | `RendersExplained`, `CheckersExplained` | `RenderExplained`, `CheckerExplained` |
| | `FilesAlwaysExplained`, `ImportsAreWhole`, `PagesMatchCounts` | `FilesExplained`, `ImportIsWhole`, `PageMatchesCount` |
| `Results_proofs` | `ResultsFollow`, `ArchivesAddUp` | `ResultFollows`, `ScoresAddUp` |
| | `RowsByTheRules`, `CellsAlwaysExplain` | `IcpcByTheRules`, `CellsExplainRow` |

The arguments:

* **`BoxManager_proofs`.** `ExclusiveIds` is not inductive by itself: `PcInv` adds that a number
  is in hand exactly between `DrawId` and `GenOk` or `GenFail`, and `NoZero` that until `Close` every
  number is a real one, so that what goes back to the channel is what came out of it (`IInv`).
  `FullInv` adds how far each caller is and how many sandboxes it can have there (`PlaceInv`), that a
  caller is in a queue exactly once and exactly while its `pc` says so (`QueueInv`), the two
  balances (`ConcInv`, `MemoryInv`) and that no number goes missing (`PoolInv`). The
  balances add up a set of units per holder; a step adds or removes one holder's units, which
  lemmas on such sets count (`TakeUnits`, `ReturnUnits`). `IdsSuffice` maps each number in use to a unit
  of weight, one of which is not used while a caller waits for a number. For
  `StuckOnlyByHoldAndWait`: if nobody holds weight, the head of `concSem`'s queue can have its own; if
  one caller alone holds memory, what it needs next fits, which is what `RunMultibox3` checks
  first; else there is hold-and-wait. `ImplementsPool` is the refinement: `DrawId` maps to
  `Take`, `YieldId` to `Give`, `GenFail` to `Drop`, all else to a stutter, with `use[c]` the set of
  real numbers caller `c` holds.
* **`BoxTask_proofs`.** One invariant for all: where wrapper and manager may be at the same
  time (`PlacesFit`), when goroutines live and that commands start only with all inputs copied
  (`GoroutinesFit`), what the statistics of the main sandbox stand for (`StatisticsFit`), and which
  files each stage has still to take or clear (`LeftoversFit`). In the refinement `Launch` maps to
  `Start`, the end of an attempt to `Stop`, `Join` and `Refuse` to `Close`, the rest to a stutter.
* **`Submissions_proofs`.** One invariant: where the grader can be and what it then holds
  (`Places`), submissions not inserted yet have no rows (`Unborn`, `Uninitialised`), what each
  stage of an evaluation knows of the score to come (`ScoreInv`), rows come from one
  initialisation when the problem has subtasks (`RowsOfOneInit`), and which submissions the
  grader's present round, a token or a wake-up to come covers (`WorkRemembered`; a wake-up stays
  to come until it comes, `AnnouncedUntilWoken`). That `ResetWaitingSubmissions` wakes with nothing
  left to reset (`WakesDone`) is for `WorkingIsOwned`.
* **`MaxScores_proofs`.** The strengthening of `CacheExplained` is `Sound(t)`: a transaction
  that calculated and saw nothing of importance since is alone in flight, and its value is
  the one for the tables as it leaves them. Of `BestScore` only this is used: the best
  submission does not depend on the rows of subtasks.
* **`Access_proofs`.** `SubmittersSee` and `NoEarlyLook` follow from what the checks
  compute. `AtMostOnePerRequest` is strengthened to `Budget`, which adds to each count the requests
  that have decided and not yet written. `EditorKept` is inductive with `OwnRankUpOnly`: a
  request that still has to take a rank away takes its author's own only to make him an editor.
  `RevokedTogether` rests on `OneLink` (no access token comes from another token, since the
  foreign key refuses every renewal) and `GrantRemembers`. The cache of sessions needs that an
  entry is of a session that was drawn, so that a new session finds none.
* **`Derived_proofs`.** A compiled checker: a good file of an older checker is older than the
  present one (`GoodOrOlder`), and a good file not older than what was read is one of a code that was
  current since (`SinceRead`); so comparing two times is enough. Test data: a file is
  missing only while the job that made the row is about to write it (`MissingFiles`,
  `InputFirst`), a file of a deleted test is one still to be purged, or `halfway` has the test (`LeftFiles`), an undisturbed import
  has made all the tests there are (`ImportSoFar`). Problem lists: a problem comes to a list in
  the round after it came to a child, so it comes to different lists in different rounds; hence
  as many rounds as lists are enough, and following it back from a page goes in no circle,
  which is why cutting the circles on the page loses nothing. What a page has read is what the
  tables hold as long as no edit came since its first query (`edits = 0`).
* **`Results_proofs`.** `ResultFollows` needs what every stage of an undisturbed evaluation has
  done: which tests passed before the first that failed, and which shares are added up. The
  board is compared with what the queries would give now: the same if no score moved, no
  fewer solutions of a contestant who is `Plain` if nothing was taken back. The jury is a function that takes one submission
  at a time from a set; what it says of a set is what the rules say in one step (`RulesOf`), and the
  query's count and penalty are those, problem by problem, since the best submission of a solved
  problem is the first solution; it also needs that what has a compile error does not solve
  (`ErrorsUnsolved`). The loop over an archive's tests keeps `LoopInv`: what has been given,
  a share for each mark, and the surplus still to take, make up the sum.
* **`Sums_proofs`.** `SumFunctionOnSet` and `Max` and `Min` are folds, which choose an order of the
  elements. Since no prover here can use an induction theorem that takes an operator, these
  proofs, and those about the recursive functions `Filled`, `PbListTree`, `Hydrate` and `Jury`, take a
  counterexample of the smallest size, which `SmallestOf` provides, and refute it; that a
  recursive function is what its definition says is shown first, in the same way.

Stating the properties for all constants changed four of them or their models. The stop of the manager
was once said to need two `RunMultibox3`, which is false (above), and no automatic score
was said to be negative. The ties of equal submissions in the jury's order were open.
`Unlocked` has to differ from every request. TLC now checks the first two on instances that have the
case: a batch test that needs most of the memory in `box_communication`, large given scores in `scores`.

Only model-checked: liveness (`CallsReturnOrDeadlock`, `EventuallyFinished`, `TaskReturns`,
`OrphansReclaimed`), since TLAPS has no rule for fairness here. ENABLED is out of the provers'
reach as well; `StuckOnlyByHoldAndWait` therefore spells out in `Blocked` and `CloseBlocked` when no step
can be taken, and `CallsReturnOrDeadlock`, under fairness, would fail at a stop that these do
not see.

## 6. What is not modelled

* In the scheduler and the tasks: FIFOs, the command lines of isolate, control groups, which
  are I/O; in `BoxManager` a communication run is one step, its goroutines are in `BoxTask`.
* In an evaluation: purged tests, times and memory as numbers, compiled artefacts.
* In the lifecycle: pastes and statistics; filters on lists of submissions.
* In the cache of scores: deletion of subtasks, transactions on several submissions, other users.
* In contests: questions, announcements, MOSS, and the classic leaderboard: one query for the totals
  and one per row for its cells over `submissions` and `submission_subtasks`
  (`db/contest.go:273-416`), which repeats `contest_max_scores`.
* On the ICPC leaderboard: changes of a problem's strategy or subtasks; submissions in the same
  instant, which are told apart by the order of their creation; the transaction between a
  submission's creation and its initialisation; the subtasks of problems scored by the best submission;
  a problem whose default points alone are a full score, where a compile error would be a solution.
* On the pages of lists: solved counts, and a query that fails, after which there is no page. A
  deleted list is an empty one that nothing holds. In the import of tests: archives with several
  subtasks, or none.
* Accounts: registration, mail verification and passwords, each a check and a write without shared state beyond a row.
* Pages and templates (`web/`), generated code (`*_templ.go`, `eval/scheduler/proto`), telemetry, mail,
  command line tools, parsing of archives and of settings. They are about half of the
  Go code and hold no state of their own: they read, format and call the operations that are modelled. A
  model of them would restate them, which is why the share of mapped lines
  stays far below that of the core.
* The components marked `not_modelled` in `PROJECT.json`, with the reason given there.

## 7. Plan

1. `Handler.Close` and the shutdown order of `cmd/kn` as actions of `Submissions`, apart from a crash.
2. `Accounts`: verification and password requests, with their expiry and use-once checks.
3. The local cache eviction (`internal/fsevict`) of the data store as a process of its own beside `Renders` and `TestData`.
4. Proofs: a refinement of `Submissions` to an abstract queue, of `Sessions` and `Renders` to a cache that is
   filled and invalidated in one step but for the named causes, and the action properties behind the
   exceptions (which step alone may make `stale`, `late`, `amiss` or `halfway` grow).
