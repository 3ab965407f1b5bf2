------------------------------ MODULE BoxTask ------------------------------
(***************************************************************************)
(* One task of the evaluation: a compilation (CompileTask), a batch test   *)
(* (ExecuteBatch) or a communication test (ExecuteCommunication), from the *)
(* files Box2Wrapper puts into the scratch space to the verdict.           *)
(*                                                                         *)
(* Two processes share the scratch space: the wrapper on the platform and  *)
(* the manager (BoxManager.RunBox3, RunMultibox3), in this process or on a *)
(* remote grader, with one goroutine per sandbox. What admits requests and *)
(* hands out boxes is module BoxManager; here a box is there or refused.   *)
(***************************************************************************)
EXTENDS Naturals, FiniteSets

CONSTANTS Main,         \* the sandbox whose answer counts (the manager's of a test)
          Users,        \* the user sandboxes of a communication test
          Tries,        \* runErrRetries
          MaxFaults     \* bound on failing calls

ASSUME TaskAssumption ==
    /\ Main \notin Users
    /\ Tries \in Nat \ {0}
    /\ MaxFaults \in Nat

VARIABLES
    task, remote,       \* which task, and where the manager is
    wrap,               \* place of the wrapper and of the task above it
    requests,           \* input files of the Box3Requests made so far
    outcome,            \* what the manager's answer came to
    got,                \* output files taken out of the scratch space
    verdict,
    scratch, old,       \* files in the scratch space; those older than the TTL
    undeleted,          \* history: files whose deletion failed
    mgr,                \* place of the manager
    held, copied,       \* boxes taken; input files copied into them
    gor, left, meta,    \* per party: its goroutine, attempts left, last statistics
    wrote,              \* output files in the main sandbox
    resp,               \* output files named by the response
    failed,             \* an error is in errChan
    cancelled,          \* the context of the call is done
    faults

wrapVars == <<wrap, requests, outcome, got, verdict>>
fileVars == <<scratch, old, undeleted>>
runVars == <<gor, left, meta, wrote, resp, failed>>
mgrVars == <<mgr, held, copied>>
vars == <<task, remote, wrapVars, fileVars, mgrVars, runVars, cancelled, faults>>

Everyone == {Main} \cup Users
Parties == IF task = "communication" THEN Everyone ELSE {Main}

(***************************************************************************)
(* Files. The main sandbox has two inputs (test and executable, or code    *)
(* and headers), a user sandbox one. The first output is the product: the  *)
(* score, the output of the test, or the executable.                       *)
(***************************************************************************)
InputsOf(p) == IF p = Main THEN {<<p, "in", 1>>, <<p, "in", 2>>} ELSE {<<p, "in", 1>>}
Inputs == UNION {InputsOf(p) : p \in Parties}
Product == <<Main, "out", 1>>
Outputs == IF task = "batch" THEN {Product} ELSE {Product, <<Main, "out", 2>>}
AllFiles == (UNION {InputsOf(p) : p \in Everyone}) \cup {Product, <<Main, "out", 2>>}

Fault == faults < MaxFaults /\ faults' = faults + 1
NoFault == UNCHANGED faults

\* The request of p is made up: its files are cleared when the call returns.
Converted(p) == InputsOf(p) \subseteq requests

\* Sandboxes are taken in order, the main one first.
Turn(p, finished) == p \notin finished /\ (p = Main \/ Main \in finished)

-----------------------------------------------------------------------------
(* The wrapper: convertRequest for each sandbox in turn.                   *)

\* p is the sandbox being converted, f the next of its files.
Converting(p, f) ==
    /\ wrap = "convert"
    /\ Turn(p, {q \in Parties : Converted(q)})
    /\ \A q \in Parties \ {p} : Converted(q) \/ InputsOf(q) \cap requests = {}
    /\ f \in InputsOf(p) \ requests

SaveInput(p, f) ==
    /\ Converting(p, f)
    /\ scratch' = scratch \cup {f}
    /\ requests' = requests \cup {f}
    /\ NoFault
    /\ UNCHANGED <<task, remote, wrap, outcome, got, verdict, old, undeleted,
                   mgrVars, runVars, cancelled>>

\* Reading the bucket or saving fails; what was sent may be there all the same.
SaveInputFails(p, f) ==
    /\ Converting(p, f)
    /\ Fault
    /\ scratch' \in {scratch, scratch \cup {f}}
    /\ wrap' = "clear"
    /\ outcome' = "error"
    /\ UNCHANGED <<task, remote, requests, got, verdict, old, undeleted,
                   mgrVars, runVars, cancelled>>

Send ==
    /\ wrap = "convert"
    /\ \A p \in Parties : Converted(p)
    /\ wrap' = "waiting"
    /\ mgr' = "setup"
    /\ NoFault
    /\ UNCHANGED <<task, remote, requests, outcome, got, verdict, fileVars,
                   held, copied, runVars, cancelled>>

-----------------------------------------------------------------------------
(* The manager: a box and its files for each sandbox, in turn.             *)

GetBox(p) ==
    /\ mgr = "setup"
    /\ Turn(p, held)
    /\ \A q \in held : InputsOf(q) \subseteq copied
    /\ held' = held \cup {p}
    /\ NoFault
    /\ UNCHANGED <<task, remote, wrapVars, fileVars, mgr, copied, runVars, cancelled>>

CopyInput(p, f) ==
    /\ mgr = "setup"
    /\ p \in held
    /\ f \in (InputsOf(p) \ copied) \cap scratch
    /\ copied' = copied \cup {f}
    /\ NoFault
    /\ UNCHANGED <<task, remote, wrapVars, fileVars, mgr, held, runVars, cancelled>>

\* The request does not fit, its context ends, a FIFO, a box or a copy fails, or
\* an input is gone: the deferred calls return the boxes.
Refuse ==
    /\ mgr = "setup"
    /\ \/ Fault
       \/ NoFault /\ (cancelled \/ \E p \in held : ~((InputsOf(p) \ copied) \subseteq scratch))
    /\ mgr' = "error"
    /\ held' = {}
    /\ UNCHANGED <<task, remote, wrapVars, fileVars, copied, runVars, cancelled>>

StartCommands ==
    /\ mgr = "setup"
    /\ held = Parties
    /\ Inputs \subseteq copied
    /\ mgr' = "run"
    /\ gor' = [p \in Everyone |-> IF p \in Parties THEN "ready" ELSE "off"]
    /\ NoFault
    /\ UNCHANGED <<task, remote, wrapVars, fileVars, held, copied,
                   left, meta, wrote, resp, failed, cancelled>>

-----------------------------------------------------------------------------
(* The goroutines: IsolateBox.RunCommand, at most Tries attempts. It never *)
(* returns an error. Statistics: "none" (nil), "empty" (the context was    *)
(* done before the command started), or how the command ended.             *)

\* userCtx ends when the manager's response is there.
Cancelled(p) == cancelled \/ (p # Main /\ gor[Main] = "done" /\ ~failed)

\* What RunCommand does after an attempt that gave no usable statistics.
Again(p, n) == gor' = [gor EXCEPT ![p] = IF n = 0 THEN "ended" ELSE "ready"]

\* The command of the last attempt may have left any of the output files.
Leaves(p) == IF p = Main THEN wrote' \in {wrote \cup F : F \in SUBSET Outputs}
                         ELSE UNCHANGED wrote

Launch(p) ==
    /\ gor[p] = "ready"
    /\ left' = [left EXCEPT ![p] = @ - 1]
    /\ IF Cancelled(p)
         THEN /\ gor' = [gor EXCEPT ![p] = "ended"]
              /\ meta' = [meta EXCEPT ![p] = "empty"]
         ELSE /\ gor' = [gor EXCEPT ![p] = "exec"]
              /\ UNCHANGED meta
    /\ NoFault
    /\ UNCHANGED <<task, remote, wrapVars, fileVars, mgrVars, wrote, resp, failed, cancelled>>

\* Mutant of NoMetaFile: the attempt is not counted before the test for the last one.
NoMetaFileOneMore(p) ==
    /\ gor[p] = "ready"
    /\ Fault
    /\ left' = [left EXCEPT ![p] = @ - 1]
    /\ Again(p, left[p])
    /\ UNCHANGED <<task, remote, wrapVars, fileVars, mgrVars,
                   meta, wrote, resp, failed, cancelled>>

\* No file for the statistics: the attempt is lost and the statistics stay.
NoMetaFile(p) ==
    /\ gor[p] = "ready"
    /\ Fault
    /\ left' = [left EXCEPT ![p] = @ - 1]
    /\ Again(p, left'[p])
    /\ UNCHANGED <<task, remote, wrapVars, fileVars, mgrVars,
                   meta, wrote, resp, failed, cancelled>>

\* By itself, with an error, or killed: by a limit, or interrupted.
CommandEnds(p) ==
    /\ gor[p] = "exec"
    /\ \E s \in {"ok", "RE", "killed"} : meta' = [meta EXCEPT ![p] = s]
    /\ gor' = [gor EXCEPT ![p] = "ended"]
    /\ Leaves(p)
    /\ NoFault
    /\ UNCHANGED <<task, remote, wrapVars, fileVars, mgrVars, left, resp, failed, cancelled>>

\* Mutant of CommandFails: no retry.
CommandFailsAtOnce(p) ==
    /\ gor[p] = "exec"
    /\ Fault
    /\ \E s \in {"XX", "none", "RE"} : meta' = [meta EXCEPT ![p] = s]
    /\ Again(p, 0)
    /\ Leaves(p)
    /\ UNCHANGED <<task, remote, wrapVars, fileVars, mgrVars, left, resp, failed, cancelled>>

\* isolate failed ("XX"), could not be run ("none"), or found the file busy ("RE").
CommandFails(p) ==
    /\ gor[p] = "exec"
    /\ Fault
    /\ \E s \in {"XX", "none", "RE"} : meta' = [meta EXCEPT ![p] = s]
    /\ Again(p, left[p])
    /\ Leaves(p)
    /\ UNCHANGED <<task, remote, wrapVars, fileVars, mgrVars, left, resp, failed, cancelled>>

UserDone(p) ==
    /\ p # Main
    /\ gor[p] = "ended"
    /\ gor' = [gor EXCEPT ![p] = "done"]
    /\ NoFault
    /\ UNCHANGED <<task, remote, wrapVars, fileVars, mgrVars,
                   left, meta, wrote, resp, failed, cancelled>>

\* collectResponse saves the output files that exist, one by one.
Collect(f) ==
    /\ gor[Main] = "ended"
    /\ f \in wrote \ resp
    /\ scratch' = scratch \cup {f}
    /\ resp' = resp \cup {f}
    /\ NoFault
    /\ UNCHANGED <<task, remote, wrapVars, old, undeleted, mgrVars,
                   gor, left, meta, wrote, failed, cancelled>>

\* It gives up at the first that fails, and the error goes to errChan.
CollectFails(f) ==
    /\ gor[Main] = "ended"
    /\ f \in wrote \ resp
    /\ Fault
    /\ scratch' \in {scratch, scratch \cup {f}}
    /\ failed' = TRUE
    /\ gor' = [gor EXCEPT ![Main] = "done"]
    /\ UNCHANGED <<task, remote, wrapVars, old, undeleted, mgrVars,
                   left, meta, wrote, resp, cancelled>>

\* Mutant of Respond: respChan has no buffer, and its reader waits for wg first.
RespondUnbuffered ==
    /\ gor[Main] = "ended"
    /\ wrote \subseteq resp
    /\ mgr # "run"
    /\ gor' = [gor EXCEPT ![Main] = "done"]
    /\ NoFault
    /\ UNCHANGED <<task, remote, wrapVars, fileVars, mgrVars,
                   left, meta, wrote, resp, failed, cancelled>>

\* The response goes to respChan, and the user commands are cancelled.
Respond ==
    /\ gor[Main] = "ended"
    /\ wrote \subseteq resp
    /\ gor' = [gor EXCEPT ![Main] = "done"]
    /\ NoFault
    /\ UNCHANGED <<task, remote, wrapVars, fileVars, mgrVars,
                   left, meta, wrote, resp, failed, cancelled>>

\* Mutant of Join: wg counts the main sandbox only.
JoinMain ==
    /\ mgr = "run"
    /\ gor[Main] = "done"
    /\ mgr' = IF failed THEN "error" ELSE "answer"
    /\ held' = {}
    /\ NoFault
    /\ UNCHANGED <<task, remote, wrapVars, fileVars, copied, runVars, cancelled>>

\* wg.Wait, the two channels, and the deferred calls.
Join ==
    /\ mgr = "run"
    /\ \A p \in Parties : gor[p] = "done"
    /\ mgr' = IF failed THEN "error" ELSE "answer"
    /\ held' = {}
    /\ NoFault
    /\ UNCHANGED <<task, remote, wrapVars, fileVars, copied, runVars, cancelled>>

-----------------------------------------------------------------------------
(* The wrapper again: the answer, convertResponse, clearInput, the verdict. *)

Receive ==
    /\ wrap = "waiting"
    /\ mgr \in {"answer", "error"}
    /\ wrap' = IF mgr = "answer" THEN "output" ELSE "clear"
    /\ outcome' = mgr
    /\ NoFault
    /\ UNCHANGED <<task, remote, requests, got, verdict, fileVars, mgrVars, runVars, cancelled>>

\* The connection to a remote grader breaks: an error here, there the context
\* of the request ends, now or later (Cancel).
LoseConnection ==
    /\ remote
    /\ wrap = "waiting"
    /\ Fault
    /\ wrap' = "clear"
    /\ outcome' = "error"
    /\ cancelled' \in {cancelled, TRUE}
    /\ UNCHANGED <<task, remote, requests, got, verdict, fileVars, mgrVars, runVars>>

\* readDeleteScratch, copyDeleteScratch: the file is deleted whether or not it
\* could be read, and the deletion may fail.
TakeOutput(f) ==
    /\ wrap = "output"
    /\ f \in (resp \ got) \cap scratch
    /\ got' = got \cup {f}
    /\ \/ NoFault /\ scratch' = scratch \ {f} /\ UNCHANGED undeleted
       \/ Fault /\ undeleted' = undeleted \cup {f} /\ UNCHANGED scratch
    /\ UNCHANGED <<task, remote, wrap, requests, outcome, verdict, old,
                   mgrVars, runVars, cancelled>>

\* convertResponse returns at the first file that cannot be read or stored.
TakeOutputFails(f) ==
    /\ wrap = "output"
    /\ f \in resp \ got
    /\ Fault \/ (NoFault /\ f \notin scratch)
    /\ scratch' = scratch \ {f}
    /\ wrap' = "clear"
    /\ outcome' = "error"
    /\ UNCHANGED <<task, remote, requests, got, verdict, old, undeleted,
                   mgrVars, runVars, cancelled>>

AllTaken ==
    /\ wrap = "output"
    /\ resp \subseteq got
    /\ wrap' = "clear"
    /\ NoFault
    /\ UNCHANGED <<task, remote, requests, outcome, got, verdict, fileVars,
                   mgrVars, runVars, cancelled>>

\* Mutant of ToClear: only the request of the main sandbox is cleared.
ToClearMain == InputsOf(Main)

\* The deferred clearInput of every request that was made up.
ToClear == UNION {InputsOf(p) : p \in {q \in Parties : Converted(q)}}

ClearInput ==
    /\ wrap = "clear"
    /\ wrap' = "verdict"
    /\ \/ NoFault /\ scratch' = scratch \ ToClear /\ UNCHANGED undeleted
       \/ /\ Fault
          /\ \E f \in ToClear :
                /\ undeleted' = undeleted \cup {f}
                /\ scratch' = scratch \ (ToClear \ {f})
    /\ UNCHANGED <<task, remote, requests, outcome, got, verdict, old,
                   mgrVars, runVars, cancelled>>

\* Mutant of TestVerdict: a sandbox error does not end the verdict.
TestVerdictLenient ==
    IF meta[Main] = "none" THEN "panic"
    ELSE IF meta[Main] \in {"RE", "killed"} THEN "failed"
    ELSE IF Product \in got THEN "scored" ELSE "failed"

\* ExecuteBatch, ExecuteCommunication: parseResponse of the main statistics, then
\* the product. The merged statistics of the user sandboxes (mergeStats) carry no
\* status, so they never decide.
TestVerdict ==
    IF meta[Main] = "none" THEN "panic"
    ELSE IF meta[Main] \in {"RE", "killed", "XX"} THEN "failed"
    ELSE IF Product \in got THEN "scored" ELSE "failed"

\* CompileTask looks at the exit code, which only "RE" has, and at the product.
CompileVerdict ==
    IF meta[Main] = "none" THEN "panic"
    ELSE IF meta[Main] = "RE" \/ Product \notin got THEN "failed"
    ELSE "scored"

Judge ==
    /\ wrap = "verdict"
    /\ verdict' = IF outcome = "error" THEN "internal error"
                  ELSE IF task = "compile" THEN CompileVerdict ELSE TestVerdict
    /\ wrap' = "done"
    /\ NoFault
    /\ UNCHANGED <<task, remote, requests, outcome, got, fileVars,
                   mgrVars, runVars, cancelled>>

-----------------------------------------------------------------------------
(* The environment.                                                        *)

\* The process shuts down, or the grader notices a broken connection.
Cancel ==
    /\ mgr \in {"setup", "run"}
    /\ ~cancelled
    /\ \/ wrap # "waiting" /\ NoFault
       \/ wrap = "waiting" /\ Fault
    /\ cancelled' = TRUE
    /\ UNCHANGED <<task, remote, wrapVars, fileVars, mgrVars, runVars>>

\* The time to live passes: commands are limited, but not the wait for a box,
\* and not the time after the task.
Age ==
    /\ mgr = "setup" \/ wrap = "done"
    /\ ~(scratch \subseteq old)
    /\ old' = scratch
    /\ UNCHANGED <<task, remote, wrapVars, scratch, undeleted, mgrVars, runVars,
                   cancelled, faults>>

\* Mutant of Sweep: the last file is kept.
SweepAllButOne ==
    /\ remote
    /\ Cardinality(old \cap scratch) > 1
    /\ NoFault
    /\ \E f \in old \cap scratch : scratch' = (scratch \ old) \cup {f}
    /\ UNCHANGED <<task, remote, wrapVars, old, undeleted, mgrVars, runVars, cancelled>>

\* PeriodicSweep, which only a remote grader runs, goes by age alone; it stops
\* at the first file it cannot remove.
Sweep ==
    /\ remote
    /\ old \cap scratch # {}
    /\ \/ NoFault /\ scratch' = scratch \ old
       \/ Fault /\ \E kept \in SUBSET (old \cap scratch) :
                      kept # {} /\ scratch' = (scratch \ old) \cup kept
    /\ UNCHANGED <<task, remote, wrapVars, old, undeleted, mgrVars, runVars, cancelled>>

-----------------------------------------------------------------------------
Init ==
    /\ task \in {"compile", "batch", "communication"}
    /\ remote \in BOOLEAN
    /\ wrap = "convert" /\ requests = {} /\ outcome = "none" /\ got = {} /\ verdict = "none"
    /\ scratch = {} /\ old = {} /\ undeleted = {}
    /\ mgr = "idle" /\ held = {} /\ copied = {}
    /\ gor = [p \in Everyone |-> "off"]
    /\ left = [p \in Everyone |-> Tries]
    /\ meta = [p \in Everyone |-> "none"]
    /\ wrote = {} /\ resp = {} /\ failed = FALSE
    /\ cancelled = FALSE
    /\ faults = 0

Wrapper ==
    \/ \E p \in Parties : \E f \in InputsOf(p) : SaveInput(p, f) \/ SaveInputFails(p, f)
    \/ Send \/ Receive \/ LoseConnection \/ AllTaken \/ ClearInput \/ Judge
    \/ \E f \in Outputs : TakeOutput(f) \/ TakeOutputFails(f)

Setup ==
    \/ \E p \in Parties : GetBox(p) \/ \E f \in InputsOf(p) : CopyInput(p, f)
    \/ Refuse \/ StartCommands

Goroutine(p) ==
    \/ Launch(p) \/ NoMetaFile(p) \/ CommandEnds(p) \/ CommandFails(p) \/ UserDone(p)

Answering ==
    \/ \E f \in Outputs : Collect(f) \/ CollectFails(f)
    \/ Respond \/ Join

Next ==
    \/ Wrapper \/ Setup \/ Answering
    \/ \E p \in Parties : Goroutine(p)
    \/ Cancel \/ Age \/ Sweep

Spec == Init /\ [][Next]_vars

\* Calls return, commands end at their wall time limit, boxes are granted in the
\* end (module BoxManager says when), and the sweep of a remote grader goes on.
FairSpec ==
    /\ Spec
    /\ WF_vars(Wrapper)
    /\ WF_vars(Setup \/ Answering)
    /\ \A p \in Everyone : WF_vars(p \in Parties /\ Goroutine(p))
    /\ WF_vars(Age)
    /\ WF_vars(Sweep)
-----------------------------------------------------------------------------
(* Properties.                                                             *)

Statistics == {"none", "empty", "ok", "RE", "killed", "XX"}

\* Every variable stays in its domain.
TypeOK ==
    /\ task \in {"compile", "batch", "communication"} /\ remote \in BOOLEAN
    /\ wrap \in {"convert", "waiting", "output", "clear", "verdict", "done"}
    /\ requests \subseteq AllFiles /\ got \subseteq AllFiles
    /\ outcome \in {"none", "answer", "error"}
    /\ verdict \in {"none", "scored", "failed", "internal error", "panic"}
    /\ scratch \subseteq AllFiles /\ old \subseteq AllFiles /\ undeleted \subseteq AllFiles
    /\ mgr \in {"idle", "setup", "run", "answer", "error"}
    /\ held \subseteq Everyone /\ copied \subseteq AllFiles
    /\ gor \in [Everyone -> {"off", "ready", "exec", "ended", "done"}]
    /\ left \in [Everyone -> 0..Tries]
    /\ meta \in [Everyone -> Statistics]
    /\ wrote \subseteq AllFiles /\ resp \subseteq AllFiles /\ failed \in BOOLEAN
    /\ cancelled \in BOOLEAN /\ faults \in 0..MaxFaults

\* A verdict that counts comes from the real inputs and from a main command that ended
\* by itself with its product, whatever failed, was swept or was retried on the way.
\* Two exceptions are in the code: CompileTask does not look at the status, so a compiler
\* that was killed with an executable on disk has compiled; and a retry that finds its
\* context done reports no status, so the product of the attempt before counts.
ScoredHonestly ==
    verdict = "scored" =>
        /\ Inputs \subseteq copied
        /\ Product \in got
        /\ \/ meta[Main] = "ok"
           \/ task = "compile" /\ meta[Main] \in {"killed", "XX"}
           \/ cancelled /\ meta[Main] = "empty"

\* Parse of nil statistics takes the process down: only after all attempts of the main
\* sandbox are used up, the last that ran isolate ended without any, and nothing
\* else of the call failed.
PanicOnlyAfterAllTries ==
    verdict = "panic" => /\ left[Main] = 0
                         /\ meta[Main] = "none"
                         /\ outcome = "answer" /\ ~failed

\* What a task leaves in the scratch space when wrapper and manager are done with it: an
\* input only if the request it belongs to was never made up or its deletion failed,
\* an output only if the call ended in an error or its deletion failed.
LeftoversExplained ==
    wrap = "done" /\ mgr \in {"idle", "answer", "error"} =>
        \A f \in scratch \ undeleted :
            IF f \in Inputs THEN ~Converted(f[1]) ELSE outcome = "error"

\* Commands run only between the request and the answer of the manager, and only in
\* boxes that are held: no goroutine outlives RunMultibox3.
Promise == INSTANCE TaskPromise WITH
    Party <- Everyone,
    running <- {p \in Everyone : gor[p] = "exec"},
    closed <- mgr \in {"answer", "error"}
PromiseSpec == Promise!Spec

\* Every task gets a verdict: no goroutine waits for another for ever.
TaskReturns == <>(wrap = "done")

\* On a remote grader a task leaves nothing in the scratch space for ever.
OrphansReclaimed == remote => <>[](scratch = {})
=============================================================================
