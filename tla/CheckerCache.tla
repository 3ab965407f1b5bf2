---------------------------- MODULE CheckerCache ----------------------------
(***************************************************************************)
(* The compiled checker of a problem, kept in the checkers bucket and      *)
(* reused while it is newer than its source (eval/checkers/custom.go,      *)
(* getAppropriateChecker of eval/grader/grader.go). An evaluation reads    *)
(* the attachment's row and then its data, decides by the file's time, and *)
(* compiles under a lock; editors change, rename and replace the source.   *)
(***************************************************************************)
EXTENDS Naturals

CONSTANTS Sources,          \* the problem's attachments that may bear the checker's name
          Checkings,        \* evaluations under way at the same time
          MaxTime           \* bound: changes and compilations

ASSUME CheckerAssumption == MaxTime \in Nat /\ Sources # {}

VARIABLES
    time,               \* of the last change or compilation: no two at the same time
    source,             \* attachments: what they hold, last_updated_at
    checker,            \* the attachment with the checker's name
    bin,                \* the file: compiled from what, when, why it may be wrong
    checking,           \* each evaluation: how far it is and what it has read
    preparing,          \* the holder of checkerPrepareMu's write lock, or Nobody
    current             \* history: what the checker was since each evaluation began

checkerVars == <<time, source, checker, bin, checking, preparing, current>>

NoCode == <<>>
NoBin == [of |-> NoCode, modtime |-> 0, flaw |-> "none"]
NotChecking == [step |-> "none", updated |-> 0, code |-> NoCode]
Nobody == [nobody |-> TRUE]
Code == source[checker].code

\* What is current from now on, for the evaluations under way.
Sees(code) == [k \in Checkings |-> current[k] \cup {code}]

-----------------------------------------------------------------------------
(* An evaluation.                                                          *)

\* ProblemAttByName.
ReadMetadata(k) ==
    /\ checking[k] = NotChecking
    /\ checking' = [checking EXCEPT ![k] =
            [step |-> "data", updated |-> source[checker].updated, code |-> NoCode]]
    /\ current' = [current EXCEPT ![k] = {Code}]
    /\ UNCHANGED <<time, source, checker, bin, preparing>>

\* ProblemAttDataByName, a second query.
ReadCode(k) ==
    /\ checking[k].step = "data"
    /\ checking' = [checking EXCEPT ![k].step = "prepare", ![k].code = Code]
    /\ UNCHANGED <<time, source, checker, bin, preparing, current>>

\* Prepare: modtime.Before(lastUpdatedAt), before the lock is taken.
\* Mutant of ShouldCompile: a checker that is there is good.
ShouldCompileMissing(k) == bin = NoBin
ShouldCompile(k) == bin = NoBin \/ bin.modtime < checking[k].updated

Prepare(k) ==
    /\ checking[k].step = "prepare"
    /\ checking' = [checking EXCEPT ![k].step = IF ShouldCompile(k) THEN "lock" ELSE "run"]
    /\ UNCHANGED <<time, source, checker, bin, preparing, current>>

Lock(k) ==
    /\ checking[k].step = "lock" /\ preparing = Nobody
    /\ preparing' = k
    /\ checking' = [checking EXCEPT ![k].step = "compile"]
    /\ UNCHANGED <<time, source, checker, bin, current>>

\* CompileTask. The file of the binary is truncated and then filled.
SaveBinary(k) ==
    /\ checking[k].step = "compile"
    /\ time' = time + 1
    /\ bin' = [of |-> NoCode, modtime |-> time', flaw |-> "cut"]
    /\ checking' = [checking EXCEPT ![k].step = "fill"]
    /\ UNCHANGED <<source, checker, preparing, current>>

\* What was compiled may no longer be the source, and is newer than the new one.
FillBinary(k) ==
    /\ checking[k].step = "fill"
    /\ bin' = IF bin = NoBin THEN NoBin
              ELSE [bin EXCEPT !.of = checking[k].code,
                        !.flaw = IF checking[k].code = Code THEN "none" ELSE "late"]
    /\ preparing' = Nobody
    /\ checking' = [checking EXCEPT ![k].step = "run"]
    /\ UNCHANGED <<time, source, checker, current>>

\* The compilation fails: the evaluation ends and the file stays as it was.
CompilationFails(k) ==
    /\ checking[k].step = "compile"
    /\ preparing' = Nobody
    /\ checking' = [checking EXCEPT ![k] = NotChecking]
    /\ UNCHANGED <<time, source, checker, bin, current>>

\* RunChecker, for every test, under the read lock; then the evaluation ends.
FinishChecking(k) ==
    /\ checking[k].step = "run" /\ preparing = Nobody
    /\ checking' = [checking EXCEPT ![k] = NotChecking]
    /\ UNCHANGED <<time, source, checker, bin, preparing, current>>

-----------------------------------------------------------------------------
(* Editors and administrators.                                             *)

\* Mutant of EditSource: last_updated_at stays.
EditUndated(a) ==
    /\ time' = time + 1
    /\ source' = [source EXCEPT ![a].code = <<a, time'>>]
    /\ current' = IF a = checker THEN Sees(<<a, time'>>) ELSE current
    /\ UNCHANGED <<checker, bin, checking, preparing>>

\* UpdateAttachmentData: data and last_updated_at = NOW().
EditSource(a) ==
    /\ time' = time + 1
    /\ source' = [source EXCEPT ![a] = [code |-> <<a, time'>>, updated |-> time']]
    /\ current' = IF a = checker THEN Sees(<<a, time'>>) ELSE current
    /\ UNCHANGED <<checker, bin, checking, preparing>>

\* Another attachment gets the name (a rename does not change last_updated_at), or
\* another one is named in the settings.
RenameChecker(a) ==
    /\ checker' = a
    /\ bin' = IF bin # NoBin /\ bin.of # source[a].code THEN [bin EXCEPT !.flaw = "renamed"]
                                                        ELSE bin
    /\ current' = Sees(source[a].code)
    /\ UNCHANGED <<time, source, checking, preparing>>

ResetCheckers ==
    /\ bin # NoBin
    /\ bin' = NoBin
    /\ UNCHANGED <<time, source, checker, checking, preparing, current>>

\* The process ends and starts again; its files stay as they are.
CheckerRestart ==
    /\ checking' = [k \in Checkings |-> NotChecking]
    /\ preparing' = Nobody
    /\ UNCHANGED <<time, source, checker, bin, current>>

CheckerInit ==
    /\ time = 1
    /\ source = [a \in Sources |-> [code |-> <<a, 1>>, updated |-> 1]]
    /\ checker \in Sources
    /\ bin = NoBin
    /\ checking = [k \in Checkings |-> NotChecking]
    /\ preparing = Nobody
    /\ current = [k \in Checkings |-> {}]

CheckerNext ==
    \/ \E k \in Checkings :
         \/ ReadMetadata(k) \/ ReadCode(k) \/ Prepare(k) \/ Lock(k) \/ FillBinary(k)
         \/ time < MaxTime /\ SaveBinary(k)
         \/ CompilationFails(k) \/ FinishChecking(k)
    \/ \E a \in Sources : (time < MaxTime /\ EditSource(a)) \/ RenameChecker(a)
    \/ ResetCheckers \/ CheckerRestart

CheckerSpec == CheckerInit /\ [][CheckerNext]_checkerVars

-----------------------------------------------------------------------------
\* An evaluation checks with a checker that was the problem's at some time since the
\* evaluation began: comparing two times, taken before the lock, is enough, unless the
\* file was compiled from a source that was replaced meanwhile, another attachment
\* became the checker, the file was removed, or a restart cut it off.
CheckerExplained ==
    \A k \in Checkings :
        checking[k].step = "run" /\ preparing = Nobody =>
            bin = NoBin \/ bin.flaw # "none" \/ bin.of \in current[k]
=============================================================================
