------------------------------ MODULE TestData ------------------------------
(***************************************************************************)
(* The tests and subtasks of one problem: rows of tests, subtasks and      *)
(* subtask_tests, and the files of the tests in the persistent bucket      *)
(* (sudoapi/test.go, sudoapi/subtask.go, api/test.go, api/subtasks.go,     *)
(* archive.go). Every job is a request that does one statement or writes   *)
(* one file at a time, with no transaction around them; archives are       *)
(* imported one at a time.                                                 *)
(***************************************************************************)
EXTENDS Naturals, FiniteSets

CONSTANTS Jobs,                 \* requests under way at the same time
          Archives,             \* the sets of visible ids of the tests of an archive
          MaxTests, MaxSubtasks \* bounds: rows inserted

Unlocked == [unlocked |-> TRUE]

ASSUME TestDataAssumption ==
    /\ MaxTests \in Nat /\ MaxSubtasks \in Nat /\ Unlocked \notin Jobs
    /\ \A vids \in Archives : vids # {} /\ vids \subseteq Nat /\ IsFiniteSet(vids)

VARIABLES
    vid,                \* rows of tests: visible ids by id
    files,              \* what the bucket holds for an id: of "in", "out"
    subtask,            \* rows of subtasks, each with its rows of subtask_tests
    lastTest, lastSubtask,  \* identities drawn so far
    archiveLock,        \* holder of testArchiveLock, or Unlocked
    job,                \* what each request is about to do
    halfway,            \* history: ids for which a removal failed, or a job broke off or came too late
    imported,           \* history: the last complete import: visible ids, tests
    touched             \* history: another job changed the rows since it began

testVars == <<vid, files, subtask, lastTest, lastSubtask, archiveLock, job,
              halfway, imported, touched>>

Both == {"in", "out"}
Tests == DOMAIN vid
NoImport == [vids |-> {}, tests |-> {}]
NoJob == [kind |-> "none", step |-> "none", test |-> 0, todo |-> {}, made |-> {}, purge |-> {}]

\* A function without or with one more argument.
Less(f, S) == [x \in DOMAIN f \ S |-> f[x]]
More(f, x, y) == [z \in DOMAIN f \cup {x} |-> IF z = x THEN y ELSE f[z]]
Smallest(S) == CHOOSE x \in S : \A y \in S : x <= y

\* ON DELETE CASCADE: the tests leave their subtasks.
Forget(S) == [s \in DOMAIN subtask |-> subtask[s] \ S]

At(j, step) == job[j].step = step
Goes(j, step) == job' = [job EXCEPT ![j].step = step]
Done(j) == /\ job' = [job EXCEPT ![j] = NoJob]
           /\ archiveLock' = IF archiveLock = j THEN Unlocked ELSE archiveLock
Others(j) == touched' = (touched \/ job[j].kind # "import")

-----------------------------------------------------------------------------
(* Requests.                                                               *)

\* Mutant of StartImport: there is no lock.
StartImportAtOnce(j, vids) ==
    /\ job[j] = NoJob
    /\ job' = [job EXCEPT ![j] = [NoJob EXCEPT !.kind = "import", !.step = "clear", !.todo = vids]]
    /\ UNCHANGED <<vid, files, subtask, lastTest, lastSubtask, archiveLock, halfway, imported, touched>>

\* processArchive; the archive has been read and its tests are complete.
StartImport(j, vids) ==
    /\ job[j] = NoJob /\ archiveLock = Unlocked
    /\ archiveLock' = j
    /\ job' = [job EXCEPT ![j] = [NoJob EXCEPT !.kind = "import", !.step = "clear", !.todo = vids]]
    /\ UNCHANGED <<vid, files, subtask, lastTest, lastSubtask, halfway, imported, touched>>

\* createTest with the visible id of NextVID.
StartCreate(j) ==
    /\ job[j] = NoJob
    /\ LET next == IF Tests = {} THEN 1
                   ELSE 1 + CHOOSE v \in {vid[t] : t \in Tests} : \A t \in Tests : vid[t] <= v IN
       job' = [job EXCEPT ![j] = [NoJob EXCEPT !.kind = "create", !.step = "row", !.todo = {next}]]
    /\ UNCHANGED <<vid, files, subtask, lastTest, lastSubtask, archiveLock, halfway, imported, touched>>

\* saveTestData (what = "input"), deleteTest and bulkDeleteTests (what = "delete").
StartOn(j, t, what) ==
    /\ job[j] = NoJob /\ t \in Tests
    /\ job' = [job EXCEPT ![j] = [NoJob EXCEPT !.kind = what, !.step = what, !.test = t]]
    /\ UNCHANGED <<vid, files, subtask, lastTest, lastSubtask, archiveLock, halfway, imported, touched>>

\* createSubTask with tests that exist now.
StartSubtask(j, ts) ==
    /\ job[j] = NoJob /\ ts # {} /\ ts \subseteq Tests
    /\ job' = [job EXCEPT ![j] = [NoJob EXCEPT !.kind = "subtask", !.step = "subtask", !.made = ts]]
    /\ UNCHANGED <<vid, files, subtask, lastTest, lastSubtask, archiveLock, halfway, imported, touched>>

-----------------------------------------------------------------------------
(* Steps.                                                                  *)

\* DeleteTests: DELETE ... RETURNING id.
DeleteTests(j) ==
    /\ At(j, "clear")
    /\ vid' = Less(vid, Tests) /\ subtask' = Forget(Tests)
    /\ job' = [job EXCEPT ![j].purge = Tests, ![j].step = IF Tests = {} THEN "row" ELSE "purge"]
    /\ imported' = NoImport /\ touched' = FALSE
    /\ UNCHANGED <<files, lastTest, lastSubtask, archiveLock, halfway>>

DeleteTest(j) ==
    /\ At(j, "delete")
    /\ vid' = Less(vid, {job[j].test}) /\ subtask' = Forget({job[j].test})
    /\ job' = [job EXCEPT ![j].purge = {job[j].test}, ![j].step = "purge"]
    /\ Others(j)
    /\ UNCHANGED <<files, lastTest, lastSubtask, archiveLock, halfway, imported>>

\* Mutant of PurgeTestData: only the input goes.
PurgeInput(j) ==
    /\ At(j, "purge")
    /\ \E t \in job[j].purge :
         /\ files' = [files EXCEPT ![t] = @ \ {"in"}]
         /\ IF job[j].purge # {t}
              THEN job' = [job EXCEPT ![j].purge = @ \ {t}] /\ UNCHANGED archiveLock
              ELSE IF job[j].kind = "import"
                THEN job' = [job EXCEPT ![j].purge = {}, ![j].step = "row"] /\ UNCHANGED archiveLock
                ELSE Done(j)
    /\ UNCHANGED <<vid, subtask, lastTest, lastSubtask, halfway, imported, touched>>

\* PurgeTestData of one test after the other. It tries both files; a removal that fails is
\* logged and the job goes on with what is left in the bucket. CleanupSubTasks, which
\* follows, looks for groups of rows of subtask_tests without rows and finds none: it
\* deletes nothing.
PurgeTestData(j) ==
    /\ At(j, "purge")
    /\ \E t \in job[j].purge : \E left \in SUBSET files[t] :
         /\ files' = [files EXCEPT ![t] = left]
         /\ halfway' = IF left = {} THEN halfway ELSE halfway \cup {t}
         /\ IF job[j].purge # {t}
              THEN job' = [job EXCEPT ![j].purge = @ \ {t}] /\ UNCHANGED archiveLock
              ELSE IF job[j].kind = "import"
                THEN job' = [job EXCEPT ![j].purge = {}, ![j].step = "row"] /\ UNCHANGED archiveLock
                ELSE Done(j)
    /\ UNCHANGED <<vid, subtask, lastTest, lastSubtask, imported, touched>>

CreateTest(j) ==
    /\ At(j, "row") /\ lastTest < MaxTests
    /\ lastTest' = lastTest + 1
    /\ vid' = More(vid, lastTest', Smallest(job[j].todo))
    /\ job' = [job EXCEPT ![j].test = lastTest', ![j].step = "input", ![j].made = @ \cup {lastTest'},
                          ![j].todo = @ \ {Smallest(@)}]
    /\ Others(j)
    /\ UNCHANGED <<files, subtask, lastSubtask, archiveLock, halfway, imported>>

\* The test may be gone by now: then its file stays in the bucket for good.
Saves(j, suffix) ==
    LET t == job[j].test IN
    /\ files' = [files EXCEPT ![t] = @ \cup {suffix}]
    /\ halfway' = IF t \in Tests THEN halfway ELSE halfway \cup {t}

SaveTestInput(j) ==
    /\ At(j, "input")
    /\ Saves(j, "in") /\ Goes(j, "output")
    /\ UNCHANGED <<vid, subtask, lastTest, lastSubtask, archiveLock, imported, touched>>

SaveTestOutput(j) ==
    /\ At(j, "output")
    /\ Saves(j, "out")
    /\ IF job[j].kind # "import" THEN Done(j)
       ELSE Goes(j, IF job[j].todo = {} THEN "drop" ELSE "row") /\ UNCHANGED archiveLock
    /\ UNCHANGED <<vid, subtask, lastTest, lastSubtask, imported, touched>>

DeleteSubTasks(j) ==
    /\ At(j, "drop")
    /\ subtask' = Less(subtask, DOMAIN subtask)
    /\ Goes(j, "subtask")
    /\ UNCHANGED <<vid, files, lastTest, lastSubtask, archiveLock, halfway, imported, touched>>

\* CreateSubTask: the row,
CreateSubTask(j) ==
    /\ At(j, "subtask") /\ lastSubtask < MaxSubtasks
    /\ lastSubtask' = lastSubtask + 1
    /\ subtask' = More(subtask, lastSubtask', {})
    /\ job' = [job EXCEPT ![j].test = lastSubtask', ![j].step = "members"]
    /\ Others(j)
    /\ UNCHANGED <<vid, files, lastTest, archiveLock, halfway, imported>>

\* and its tests, in a transaction that fails if the subtask or a test is gone. With it
\* the import is complete.
UpdateSubTaskTests(j) ==
    /\ At(j, "members")
    /\ LET s == job[j].test
           holds == s \in DOMAIN subtask /\ job[j].made \subseteq Tests IN
       /\ subtask' = IF holds THEN [subtask EXCEPT ![s] = job[j].made] ELSE subtask
       /\ imported' = IF holds /\ job[j].kind = "import"
                        THEN [tests |-> job[j].made, vids |-> {vid[t] : t \in job[j].made}]
                        ELSE imported
    /\ Done(j) /\ Others(j)
    /\ UNCHANGED <<vid, files, lastTest, lastSubtask, halfway>>

\* A step fails or the process ends: what was done stays. At "purge" only the end of the
\* process keeps the job from the tests that it has not tried to purge yet.
JobFails(j) ==
    /\ job[j] # NoJob
    /\ halfway' = halfway \cup job[j].purge
                  \cup IF job[j].step \in {"input", "output"} THEN {job[j].test} ELSE {}
    /\ Done(j)
    /\ UNCHANGED <<vid, files, subtask, lastTest, lastSubtask, imported, touched>>

TestDataInit ==
    /\ vid = <<>> /\ subtask = <<>>
    /\ files = [t \in 1..MaxTests |-> {}]
    /\ lastTest = 0 /\ lastSubtask = 0
    /\ archiveLock = Unlocked
    /\ job = [j \in Jobs |-> NoJob]
    /\ halfway = {} /\ imported = NoImport /\ touched = FALSE

TestDataNext ==
    \E j \in Jobs :
        \/ \E vids \in Archives : StartImport(j, vids)
        \/ StartCreate(j)
        \/ \E t \in 1..MaxTests, what \in {"input", "delete"} : StartOn(j, t, what)
        \/ \E ts \in SUBSET Tests : StartSubtask(j, ts)
        \/ DeleteTests(j) \/ DeleteTest(j) \/ PurgeTestData(j) \/ CreateTest(j)
        \/ SaveTestInput(j) \/ SaveTestOutput(j) \/ DeleteSubTasks(j)
        \/ CreateSubTask(j) \/ UpdateSubTaskTests(j) \/ JobFails(j)

TestDataSpec == TestDataInit /\ [][TestDataNext]_testVars

-----------------------------------------------------------------------------
\* The bucket agrees with the table: no files of a test that is gone, and both files of
\* every test that is there, except while a job is at it, and for the tests of which a
\* file could not be removed or whose job broke off or wrote its file after the deletion.
FilesExplained ==
    \A t \in 1..MaxTests \ halfway :
        /\ t \notin Tests /\ files[t] # {} => \E j \in Jobs : t \in job[j].purge
        /\ t \in Tests /\ files[t] # Both =>
             \E j \in Jobs : job[j].kind \in {"create", "import"} /\ t \in job[j].made

\* Archives are imported whole: when an import is complete, and unless some other request
\* changed tests or subtasks since it began, the problem has the archive's tests and no
\* others, with the archive's visible ids, and the one subtask that holds them all.
ImportIsWhole ==
    imported # NoImport /\ ~touched =>
        /\ Tests = imported.tests
        /\ {vid[t] : t \in Tests} = imported.vids /\ imported.vids \in Archives
        /\ \E s \in DOMAIN subtask : subtask = [x \in {s} |-> imported.tests]
=============================================================================
