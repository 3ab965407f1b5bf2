--------------------------- MODULE BoxTask_proofs ---------------------------
(***************************************************************************)
(* A task keeps the promise of TaskPromise, panics only after all tries    *)
(* and scores honestly, for any number of user sandboxes, tries and        *)
(* faults. The inductive invariant says where wrapper and manager may be   *)
(* at the same time (PlacesFit), when goroutines live (GoroutinesFit) and  *)
(* what the statistics of the main sandbox stand for (StatisticsFit).      *)
(***************************************************************************)
EXTENDS BoxTask, TLAPS

PlacesFit ==
    /\ wrap = "convert" => mgr = "idle"
    /\ wrap \in {"convert", "waiting"} => outcome = "none"
    /\ wrap = "output" => outcome = "answer"
    /\ wrap \in {"clear", "verdict", "done"} => outcome # "none"
    /\ outcome = "answer" => mgr = "answer"
    /\ wrap # "done" => verdict = "none"
    /\ verdict \in {"scored", "panic"} => outcome = "answer"

GoroutinesFit ==
    /\ \A p \in Everyone : gor[p] \in {"ready", "exec", "ended"} => mgr = "run"
    /\ \A p \in Everyone \ Parties : gor[p] = "off"
    /\ mgr \in {"idle", "setup"} => \A p \in Everyone : gor[p] = "off"
    /\ mgr = "answer" => gor[Main] = "done" /\ ~failed
    /\ mgr \in {"run", "answer"} => Inputs \subseteq copied

StatisticsFit ==
    /\ \A p \in Everyone : /\ gor[p] = "off" => left[p] = Tries
                           /\ gor[p] = "ready" => left[p] # 0
    /\ meta[Main] = "none" /\ gor[Main] \in {"ended", "done"} => left[Main] = 0
    /\ meta[Main] = "empty" => cancelled

TaskInv ==
    /\ TypeOK /\ PlacesFit /\ GoroutinesFit /\ StatisticsFit
    /\ ScoredHonestly /\ PanicOnlyAfterAllTries

Verdicts == ScoredHonestly /\ PanicOnlyAfterAllTries

-----------------------------------------------------------------------------
\* Parties and files.
LEMMA FileFacts ==
    /\ Main \in Parties /\ Parties \subseteq Everyone
    /\ \A p \in Parties : InputsOf(p) \subseteq AllFiles
    /\ Outputs \subseteq AllFiles /\ Product \in Outputs
    /\ ToClear \subseteq AllFiles
<1>1. Main \in Parties /\ Parties \subseteq Everyone
    BY DEF Parties, Everyone
<1>2. \A p \in Parties : InputsOf(p) \subseteq AllFiles
    BY <1>1 DEF AllFiles
<1>3. Outputs \subseteq AllFiles /\ Product \in Outputs
    <2>1. Outputs \subseteq {Product, <<Main, "out", 2>>} /\ Product \in Outputs
        BY DEF Outputs
    <2> DEFINE U == UNION {InputsOf(p) : p \in Everyone}
    <2>2. AllFiles = U \cup {Product, <<Main, "out", 2>>}
        BY DEF AllFiles
    <2> HIDE DEF U
    <2> QED
        BY <2>1, <2>2
<1>4. ToClear \subseteq AllFiles
    BY <1>2 DEF ToClear
<1> QED
    BY <1>1, <1>2, <1>3, <1>4

\* What stays the same while the task does.
LEMMA TaskFixed ==
    ASSUME task' = task
    PROVE  Parties' = Parties /\ Inputs' = Inputs /\ Outputs' = Outputs
BY DEF Parties, Inputs, Outputs

LEMMA FaultsType ==
    ASSUME TaskInv, Fault \/ NoFault
    PROVE  faults' \in 0..MaxFaults
<1>1. faults \in 0..MaxFaults /\ MaxFaults \in Nat
    BY TaskAssumption DEF TaskInv, TypeOK, TaskAssumption
<1> QED
    BY <1>1 DEF Fault, NoFault

\* TypeOK in parts: what the wrapper, the scratch space, the manager and the
\* goroutines keep.
WrapperTypes ==
    /\ task \in {"compile", "batch", "communication"} /\ remote \in BOOLEAN
    /\ wrap \in {"convert", "waiting", "output", "clear", "verdict", "done"}
    /\ requests \subseteq AllFiles /\ got \subseteq AllFiles
    /\ outcome \in {"none", "answer", "error"}
    /\ verdict \in {"none", "scored", "failed", "internal error", "panic"}
FileTypes == scratch \subseteq AllFiles /\ old \subseteq AllFiles /\ undeleted \subseteq AllFiles
ManagerTypes ==
    /\ mgr \in {"idle", "setup", "run", "answer", "error"}
    /\ held \subseteq Everyone /\ copied \subseteq AllFiles
GoroutineTypes ==
    /\ gor \in [Everyone -> {"off", "ready", "exec", "ended", "done"}]
    /\ left \in [Everyone -> 0..Tries]
    /\ meta \in [Everyone -> Statistics]
AnswerTypes == wrote \subseteq AllFiles /\ resp \subseteq AllFiles /\ failed \in BOOLEAN

LEMMA TypeParts ==
    TypeOK <=> /\ WrapperTypes /\ FileTypes /\ ManagerTypes /\ GoroutineTypes /\ AnswerTypes
               /\ cancelled \in BOOLEAN /\ faults \in 0..MaxFaults
BY DEF TypeOK, WrapperTypes, FileTypes, ManagerTypes, GoroutineTypes, AnswerTypes

LEMMA TypePartsNext ==
    ASSUME WrapperTypes', FileTypes', ManagerTypes', GoroutineTypes', AnswerTypes',
           cancelled' \in BOOLEAN, faults' \in 0..MaxFaults
    PROVE  TypeOK'
BY DEF TypeOK, WrapperTypes, FileTypes, ManagerTypes, GoroutineTypes, AnswerTypes

LEMMA WrapperTypesKept ==
    ASSUME TaskInv, UNCHANGED <<task, remote, wrap, requests, outcome, got, verdict>>
    PROVE  WrapperTypes'
BY TypeParts DEF TaskInv, WrapperTypes

LEMMA FileTypesKept ==
    ASSUME TaskInv, UNCHANGED <<scratch, old, undeleted>>
    PROVE  FileTypes'
BY TypeParts DEF TaskInv, FileTypes

LEMMA ManagerTypesKept ==
    ASSUME TaskInv, UNCHANGED <<mgr, held, copied>>
    PROVE  ManagerTypes'
BY TypeParts DEF TaskInv, ManagerTypes

LEMMA GoroutineTypesKept ==
    ASSUME TaskInv, UNCHANGED <<gor, left, meta>>
    PROVE  GoroutineTypes'
BY TypeParts DEF TaskInv, GoroutineTypes

LEMMA AnswerTypesKept ==
    ASSUME TaskInv, UNCHANGED <<wrote, resp, failed>>
    PROVE  AnswerTypes'
BY TypeParts DEF TaskInv, AnswerTypes

-----------------------------------------------------------------------------
(* Frames: what a step keeps by leaving variables alone.                   *)

\* A step that leaves the goroutines and the manager alone.
LEMMA ManagerRests ==
    ASSUME TaskInv, UNCHANGED <<task, mgr, copied, gor, left, meta, failed>>,
           cancelled => cancelled'
    PROVE  GoroutinesFit' /\ StatisticsFit'
BY TaskFixed DEF TaskInv, GoroutinesFit, StatisticsFit

\* A step of the manager while it sets up or runs.
LEMMA WrapperRests ==
    ASSUME TaskInv, UNCHANGED <<task, wrap, outcome, got, verdict>>,
           mgr \in {"setup", "run"}, mgr' # "idle"
    PROVE  PlacesFit' /\ Verdicts'
<1>1. outcome # "answer" /\ wrap # "convert" /\ verdict \notin {"scored", "panic"}
    BY DEF TaskInv, PlacesFit
<1>2. PlacesFit'
    BY <1>1 DEF TaskInv, PlacesFit
<1>3. Verdicts'
    BY <1>1 DEF Verdicts, ScoredHonestly, PanicOnlyAfterAllTries
<1> QED
    BY <1>2, <1>3

\* A step of the wrapper before the verdict.
LEMMA NoVerdictYet ==
    ASSUME TaskInv, wrap # "done", UNCHANGED verdict
    PROVE  Verdicts'
BY DEF TaskInv, PlacesFit, Verdicts, ScoredHonestly, PanicOnlyAfterAllTries

-----------------------------------------------------------------------------
LEMMA WrapperStep ==
    ASSUME TaskInv, Wrapper
    PROVE  TaskInv'
<1> USE DEF wrapVars, fileVars, mgrVars, runVars
<1>1. ASSUME NEW p \in Parties, NEW f \in InputsOf(p), SaveInput(p, f)
      PROVE  TaskInv'
    <2>1. TypeOK'
        <3>1. faults' \in 0..MaxFaults
            BY <1>1, FaultsType DEF SaveInput
        <3>2. f \in AllFiles
            BY FileFacts
        <3>3. scratch' \subseteq AllFiles /\ requests' \subseteq AllFiles
            BY <1>1, <3>2 DEF SaveInput, TaskInv, TypeOK
        <3>4. WrapperTypes'
            BY <1>1, <3>3, TypeParts DEF SaveInput, TaskInv, WrapperTypes
        <3>5. FileTypes'
            BY <1>1, <3>3, TypeParts DEF SaveInput, TaskInv, FileTypes
        <3>6. ManagerTypes' /\ GoroutineTypes' /\ AnswerTypes'
            BY <1>1, ManagerTypesKept, GoroutineTypesKept, AnswerTypesKept DEF SaveInput
        <3>7. cancelled' \in BOOLEAN
            BY <1>1 DEF SaveInput, TaskInv, TypeOK
        <3> QED
            BY <3>1, <3>4, <3>5, <3>6, <3>7, TypePartsNext
    <2>2. PlacesFit'
        BY <1>1 DEF SaveInput, TaskInv, PlacesFit
    <2>3. GoroutinesFit' /\ StatisticsFit'
        BY <1>1, ManagerRests DEF SaveInput
    <2>4. Verdicts'
        BY <1>1, NoVerdictYet DEF SaveInput, Converting
    <2> QED
        BY <2>1, <2>2, <2>3, <2>4 DEF TaskInv, Verdicts
<1>2. ASSUME NEW p \in Parties, NEW f \in InputsOf(p), SaveInputFails(p, f)
      PROVE  TaskInv'
    <2>1. TypeOK'
        <3>1. faults' \in 0..MaxFaults
            BY <1>2, FaultsType DEF SaveInputFails
        <3> QED
            BY <1>2, FileFacts, <3>1 DEF SaveInputFails, TaskInv, TypeOK
    <2>2. PlacesFit'
        BY <1>2 DEF SaveInputFails, Converting, TaskInv, PlacesFit
    <2>3. GoroutinesFit' /\ StatisticsFit'
        BY <1>2, ManagerRests DEF SaveInputFails
    <2>4. Verdicts'
        BY <1>2, NoVerdictYet DEF SaveInputFails, Converting
    <2> QED
        BY <2>1, <2>2, <2>3, <2>4 DEF TaskInv, Verdicts
<1>3. ASSUME Send PROVE TaskInv'
    <2>1. TypeOK'
        <3>1. faults' \in 0..MaxFaults
            BY <1>3, FaultsType DEF Send
        <3> QED
            BY <1>3, <3>1 DEF Send, TaskInv, TypeOK
    <2>2. PlacesFit'
        BY <1>3 DEF Send, TaskInv, PlacesFit
    <2>3. GoroutinesFit' /\ StatisticsFit'
        BY <1>3, TaskFixed DEF Send, TaskInv, PlacesFit, GoroutinesFit, StatisticsFit
    <2>4. Verdicts'
        BY <1>3, NoVerdictYet DEF Send
    <2> QED
        BY <2>1, <2>2, <2>3, <2>4 DEF TaskInv, Verdicts
<1>4. ASSUME Receive PROVE TaskInv'
    <2>1. TypeOK'
        <3>1. faults' \in 0..MaxFaults
            BY <1>4, FaultsType DEF Receive
        <3> QED
            BY <1>4, <3>1 DEF Receive, TaskInv, TypeOK
    <2>2. PlacesFit'
        BY <1>4 DEF Receive, TaskInv, PlacesFit
    <2>3. GoroutinesFit' /\ StatisticsFit'
        BY <1>4, ManagerRests DEF Receive
    <2>4. Verdicts'
        BY <1>4, NoVerdictYet DEF Receive
    <2> QED
        BY <2>1, <2>2, <2>3, <2>4 DEF TaskInv, Verdicts
<1>5. ASSUME LoseConnection PROVE TaskInv'
    <2>1. TypeOK'
        <3>1. faults' \in 0..MaxFaults
            BY <1>5, FaultsType DEF LoseConnection
        <3> QED
            BY <1>5, <3>1 DEF LoseConnection, TaskInv, TypeOK
    <2>2. PlacesFit'
        BY <1>5 DEF LoseConnection, TaskInv, PlacesFit
    <2>3. GoroutinesFit' /\ StatisticsFit'
        <3>1. cancelled => cancelled'
            BY <1>5 DEF LoseConnection
        <3> QED
            BY <1>5, <3>1, ManagerRests DEF LoseConnection
    <2>4. Verdicts'
        BY <1>5, NoVerdictYet DEF LoseConnection
    <2> QED
        BY <2>1, <2>2, <2>3, <2>4 DEF TaskInv, Verdicts
<1>6. ASSUME AllTaken PROVE TaskInv'
    <2>1. TypeOK'
        <3>1. faults' \in 0..MaxFaults
            BY <1>6, FaultsType DEF AllTaken
        <3> QED
            BY <1>6, <3>1 DEF AllTaken, TaskInv, TypeOK
    <2>2. PlacesFit'
        BY <1>6 DEF AllTaken, TaskInv, PlacesFit
    <2>3. GoroutinesFit' /\ StatisticsFit'
        BY <1>6, ManagerRests DEF AllTaken
    <2>4. Verdicts'
        BY <1>6, NoVerdictYet DEF AllTaken
    <2> QED
        BY <2>1, <2>2, <2>3, <2>4 DEF TaskInv, Verdicts
<1>7. ASSUME ClearInput PROVE TaskInv'
    <2>1. TypeOK'
        <3>1. scratch' \subseteq scratch /\ undeleted' \subseteq undeleted \cup ToClear
              /\ (Fault \/ NoFault)
            BY <1>7 DEF ClearInput
        <3>2. faults' \in 0..MaxFaults
            BY <3>1, FaultsType
        <3>3. scratch' \subseteq AllFiles /\ undeleted' \subseteq AllFiles
            BY <3>1, FileFacts DEF TaskInv, TypeOK
        <3> QED
            BY <1>7, <3>2, <3>3 DEF ClearInput, TaskInv, TypeOK
    <2>2. PlacesFit'
        BY <1>7 DEF ClearInput, TaskInv, PlacesFit
    <2>3. GoroutinesFit' /\ StatisticsFit'
        BY <1>7, ManagerRests DEF ClearInput
    <2>4. Verdicts'
        BY <1>7, NoVerdictYet DEF ClearInput
    <2> QED
        BY <2>1, <2>2, <2>3, <2>4 DEF TaskInv, Verdicts
<1>8. ASSUME Judge PROVE TaskInv'
    <2>0. /\ wrap = "verdict" /\ wrap' = "done" /\ NoFault
          /\ UNCHANGED <<task, remote, requests, outcome, got, fileVars, mgrVars, runVars, cancelled>>
          /\ verdict' = IF outcome = "error" THEN "internal error"
                        ELSE IF task = "compile" THEN CompileVerdict ELSE TestVerdict
        BY <1>8 DEF Judge
    <2>1. TypeOK'
        <3>1. verdict' \in {"scored", "failed", "internal error", "panic"}
            BY <2>0 DEF CompileVerdict, TestVerdict
        <3>2. faults' \in 0..MaxFaults
            BY <2>0, FaultsType
        <3> QED
            BY <2>0, <3>1, <3>2 DEF TaskInv, TypeOK
    <2>2. outcome \in {"answer", "error"} /\ (outcome = "answer" => mgr = "answer")
        BY <2>0 DEF TaskInv, PlacesFit, TypeOK
    <2>3. PlacesFit'
        BY <2>0, <2>2 DEF PlacesFit
    <2>4. GoroutinesFit' /\ StatisticsFit'
        BY <2>0, ManagerRests
    <2>5. meta[Main] \in Statistics
        BY DEF TaskInv, TypeOK, Everyone
    <2>6. ScoredHonestly'
        <3> SUFFICES ASSUME verdict' = "scored" PROVE ScoredHonestly'
            BY DEF ScoredHonestly
        <3>1. outcome = "answer" /\ Inputs \subseteq copied
            BY <2>0, <2>2 DEF TaskInv, GoroutinesFit
        <3>2. /\ Product \in got
              /\ \/ meta[Main] \in {"ok", "empty"}
                 \/ task = "compile" /\ meta[Main] \in {"killed", "XX"}
            BY <2>0, <2>2, <2>5, <3>1 DEF CompileVerdict, TestVerdict, Statistics
        <3>3. meta[Main] = "empty" => cancelled
            BY DEF TaskInv, StatisticsFit
        <3> QED
            BY <2>0, <3>1, <3>2, <3>3, TaskFixed DEF ScoredHonestly
    <2>7. PanicOnlyAfterAllTries'
        <3> SUFFICES ASSUME verdict' = "panic" PROVE PanicOnlyAfterAllTries'
            BY DEF PanicOnlyAfterAllTries
        <3>1. outcome = "answer" /\ meta[Main] = "none"
            BY <2>0, <2>2 DEF CompileVerdict, TestVerdict
        <3>2. ~failed /\ gor[Main] = "done" /\ left[Main] = 0
            BY <2>2, <3>1 DEF TaskInv, GoroutinesFit, StatisticsFit
        <3> QED
            BY <2>0, <3>1, <3>2 DEF PanicOnlyAfterAllTries
    <2> QED
        BY <2>1, <2>3, <2>4, <2>6, <2>7 DEF TaskInv
<1>9. ASSUME NEW f \in Outputs, TakeOutput(f) PROVE TaskInv'
    <2>1. TypeOK'
        <3>1. faults' \in 0..MaxFaults
            BY <1>9, FaultsType DEF TakeOutput
        <3>2. f \in AllFiles
            BY FileFacts
        <3>3. /\ scratch' \subseteq AllFiles /\ undeleted' \subseteq AllFiles
              /\ got' \subseteq AllFiles
            BY <1>9, <3>2 DEF TakeOutput, TaskInv, TypeOK
        <3> QED
            BY <1>9, <3>1, <3>3 DEF TakeOutput, TaskInv, TypeOK
    <2>2. PlacesFit'
        BY <1>9 DEF TakeOutput, TaskInv, PlacesFit
    <2>3. GoroutinesFit' /\ StatisticsFit'
        BY <1>9, ManagerRests DEF TakeOutput
    <2>4. Verdicts'
        BY <1>9, NoVerdictYet DEF TakeOutput
    <2> QED
        BY <2>1, <2>2, <2>3, <2>4 DEF TaskInv, Verdicts
<1>10. ASSUME NEW f \in Outputs, TakeOutputFails(f) PROVE TaskInv'
    <2>1. TypeOK'
        <3>1. faults' \in 0..MaxFaults
            BY <1>10, FaultsType DEF TakeOutputFails
        <3> QED
            BY <1>10, FileFacts, <3>1 DEF TakeOutputFails, TaskInv, TypeOK
    <2>2. PlacesFit'
        BY <1>10 DEF TakeOutputFails, TaskInv, PlacesFit
    <2>3. GoroutinesFit' /\ StatisticsFit'
        BY <1>10, ManagerRests DEF TakeOutputFails
    <2>4. Verdicts'
        BY <1>10, NoVerdictYet DEF TakeOutputFails
    <2> QED
        BY <2>1, <2>2, <2>3, <2>4 DEF TaskInv, Verdicts
<1> QED
    BY <1>1, <1>2, <1>3, <1>4, <1>5, <1>6, <1>7, <1>8, <1>9, <1>10 DEF Wrapper

LEMMA SetupStep ==
    ASSUME TaskInv, Setup
    PROVE  TaskInv'
<1> USE DEF wrapVars, fileVars, mgrVars, runVars
<1>1. ASSUME NEW p \in Parties, GetBox(p) PROVE TaskInv'
    <2>1. TypeOK'
        <3>1. faults' \in 0..MaxFaults
            BY <1>1, FaultsType DEF GetBox
        <3> QED
            BY <1>1, FileFacts, <3>1 DEF GetBox, TaskInv, TypeOK
    <2>2. PlacesFit' /\ Verdicts'
        BY <1>1, WrapperRests DEF GetBox
    <2>3. GoroutinesFit' /\ StatisticsFit'
        BY <1>1, ManagerRests DEF GetBox
    <2> QED
        BY <2>1, <2>2, <2>3 DEF TaskInv, Verdicts
<1>2. ASSUME NEW p \in Parties, NEW f \in InputsOf(p), CopyInput(p, f) PROVE TaskInv'
    <2>1. TypeOK'
        <3>1. faults' \in 0..MaxFaults
            BY <1>2, FaultsType DEF CopyInput
        <3> QED
            BY <1>2, FileFacts, <3>1 DEF CopyInput, TaskInv, TypeOK
    <2>2. PlacesFit' /\ Verdicts'
        BY <1>2, WrapperRests DEF CopyInput
    <2>3. GoroutinesFit' /\ StatisticsFit'
        BY <1>2, TaskFixed DEF CopyInput, TaskInv, GoroutinesFit, StatisticsFit
    <2> QED
        BY <2>1, <2>2, <2>3 DEF TaskInv, Verdicts
<1>3. ASSUME Refuse PROVE TaskInv'
    <2>1. TypeOK'
        <3>1. Fault \/ NoFault
            BY <1>3 DEF Refuse
        <3>2. faults' \in 0..MaxFaults
            BY <3>1, FaultsType
        <3> QED
            BY <1>3, <3>2 DEF Refuse, TaskInv, TypeOK
    <2>2. PlacesFit' /\ Verdicts'
        BY <1>3, WrapperRests DEF Refuse
    <2>3. GoroutinesFit' /\ StatisticsFit'
        BY <1>3, TaskFixed DEF Refuse, TaskInv, GoroutinesFit, StatisticsFit
    <2> QED
        BY <2>1, <2>2, <2>3 DEF TaskInv, Verdicts
<1>4. ASSUME StartCommands PROVE TaskInv'
    <2>1. TypeOK'
        <3>1. faults' \in 0..MaxFaults
            BY <1>4, FaultsType DEF StartCommands
        <3> QED
            BY <1>4, <3>1 DEF StartCommands, TaskInv, TypeOK
    <2>2. PlacesFit' /\ Verdicts'
        BY <1>4, WrapperRests DEF StartCommands
    <2>3. GoroutinesFit'
        BY <1>4, TaskFixed DEF StartCommands, TaskInv, GoroutinesFit
    <2>4. StatisticsFit'
        <3>1. \A p \in Everyone : left'[p] = Tries /\ gor'[p] \in {"ready", "off"}
            BY <1>4 DEF StartCommands, TaskInv, GoroutinesFit, StatisticsFit
        <3>2. Main \in Everyone
            BY DEF Everyone
        <3> QED
            BY <1>4, <3>1, <3>2, TaskAssumption
               DEF StartCommands, TaskInv, StatisticsFit, TaskAssumption
    <2> QED
        BY <2>1, <2>2, <2>3, <2>4 DEF TaskInv, Verdicts
<1> QED
    BY <1>1, <1>2, <1>3, <1>4 DEF Setup

\* A step of the goroutine of p that leaves it alive or ended.
LEMMA OneGoroutine ==
    ASSUME TaskInv, NEW p \in Parties, NEW g \in {"ready", "exec", "ended"},
           gor[p] \in {"ready", "exec"}, gor' = [gor EXCEPT ![p] = g],
           UNCHANGED <<task, mgr, copied, failed>>
    PROVE  GoroutinesFit' /\ mgr = "run"
<1>1. p \in Everyone /\ mgr = "run" /\ gor'[p] = g
      /\ \A q \in Everyone : q # p => gor'[q] = gor[q]
    BY FileFacts DEF TaskInv, GoroutinesFit, TypeOK
<1> QED
    BY <1>1, TaskFixed DEF TaskInv, GoroutinesFit

LEMMA GoroutineStep ==
    ASSUME TaskInv, NEW p \in Parties, Goroutine(p)
    PROVE  TaskInv'
<1> USE DEF wrapVars, fileVars, mgrVars, runVars
<1>0. p \in Everyone /\ Main \in Everyone /\ left[p] \in 0..Tries /\ Tries \in Nat \ {0}
    BY FileFacts, TaskAssumption DEF TaskInv, TypeOK, TaskAssumption, Everyone
<1>1. ASSUME Launch(p) PROVE TaskInv'
    <2>1. left[p] # 0 /\ left[p] - 1 \in 0..Tries
        BY <1>0, <1>1 DEF Launch, TaskInv, StatisticsFit
    <2>2. PICK g \in {"exec", "ended"} :
             /\ gor' = [gor EXCEPT ![p] = g]
             /\ \/ g = "exec" /\ UNCHANGED meta
                \/ g = "ended" /\ Cancelled(p) /\ meta' = [meta EXCEPT ![p] = "empty"]
        BY <1>1 DEF Launch
    <2>3. GoroutinesFit' /\ mgr = "run"
        BY <1>1, <2>2, OneGoroutine DEF Launch
    <2>4. TypeOK'
        <3>1. faults' \in 0..MaxFaults
            BY <1>0, <1>1, <2>1, <2>2, FaultsType DEF Launch
        <3>2. gor' \in [Everyone -> {"off", "ready", "exec", "ended", "done"}]
            BY <2>2 DEF TaskInv, TypeOK
        <3>3. meta' \in [Everyone -> Statistics]
            BY <2>2 DEF TaskInv, TypeOK, Statistics
        <3>4. left' \in [Everyone -> 0..Tries]
            BY <1>1, <2>1 DEF Launch, TaskInv, TypeOK
        <3>5. WrapperTypes' /\ FileTypes' /\ ManagerTypes' /\ AnswerTypes'
            BY <1>1, WrapperTypesKept, FileTypesKept, ManagerTypesKept, AnswerTypesKept DEF Launch
        <3>6. GoroutineTypes'
            BY <3>2, <3>3, <3>4 DEF GoroutineTypes
        <3>7. cancelled' \in BOOLEAN
            BY <1>1 DEF Launch, TaskInv, TypeOK
        <3> QED
            BY <3>1, <3>5, <3>6, <3>7, TypePartsNext
    <2>5. StatisticsFit'
        <3>1. p = Main /\ Cancelled(p) => cancelled
            BY DEF Cancelled
        <3>2. left' = [left EXCEPT ![p] = left[p] - 1] /\ UNCHANGED cancelled
            BY <1>1 DEF Launch
        <3>3. \A q \in Everyone : /\ gor'[q] = "off" => left'[q] = Tries
                                  /\ gor'[q] = "ready" => left'[q] # 0
            BY <1>0, <2>2, <3>2 DEF TaskInv, StatisticsFit, TypeOK
        <3>4. meta'[Main] = "none" /\ gor'[Main] \in {"ended", "done"} => left'[Main] = 0
            BY <1>0, <2>2, <3>2 DEF TaskInv, StatisticsFit, TypeOK
        <3>5. meta'[Main] = "empty" => cancelled'
            BY <1>0, <2>2, <3>1, <3>2 DEF TaskInv, StatisticsFit, TypeOK
        <3> QED
            BY <3>3, <3>4, <3>5 DEF StatisticsFit
    <2>6. PlacesFit' /\ Verdicts'
        BY <1>1, <2>3, WrapperRests DEF Launch
    <2> QED
        BY <2>3, <2>4, <2>5, <2>6 DEF TaskInv, Verdicts
<1>2. ASSUME NoMetaFile(p) PROVE TaskInv'
    <2>1. left[p] # 0 /\ left[p] - 1 \in 0..Tries
        BY <1>0, <1>2 DEF NoMetaFile, TaskInv, StatisticsFit
    <2>2. left' = [left EXCEPT ![p] = left[p] - 1] /\ left'[p] = left[p] - 1 /\ Fault
          /\ gor' = [gor EXCEPT ![p] = IF left[p] - 1 = 0 THEN "ended" ELSE "ready"]
          /\ UNCHANGED <<meta, cancelled>>
        BY <1>0, <1>2 DEF NoMetaFile, Again, TaskInv, TypeOK
    <2>3. GoroutinesFit' /\ mgr = "run"
        <3>1. (IF left[p] - 1 = 0 THEN "ended" ELSE "ready") \in {"ready", "exec", "ended"}
            OBVIOUS
        <3> QED
            BY <1>2, <2>2, <3>1, OneGoroutine DEF NoMetaFile
    <2>4. TypeOK'
        <3>1. faults' \in 0..MaxFaults
            BY <1>0, <1>2, <2>1, <2>2, FaultsType DEF NoMetaFile
        <3>2. gor' \in [Everyone -> {"off", "ready", "exec", "ended", "done"}]
            BY <2>2 DEF TaskInv, TypeOK
        <3>3. left' \in [Everyone -> 0..Tries]
            BY <2>1, <2>2 DEF TaskInv, TypeOK
        <3>4. WrapperTypes' /\ FileTypes' /\ ManagerTypes' /\ AnswerTypes'
            BY <1>2, WrapperTypesKept, FileTypesKept, ManagerTypesKept, AnswerTypesKept
               DEF NoMetaFile
        <3>5. GoroutineTypes' /\ cancelled' \in BOOLEAN
            BY <2>2, <3>2, <3>3 DEF GoroutineTypes, TaskInv, TypeOK
        <3> QED
            BY <3>1, <3>4, <3>5, TypePartsNext
    <2>5. StatisticsFit'
        <3>1. \A q \in Everyone : /\ gor'[q] = "off" => left'[q] = Tries
                                  /\ gor'[q] = "ready" => left'[q] # 0
            BY <1>0, <2>2 DEF TaskInv, StatisticsFit, TypeOK
        <3>2. meta'[Main] = "none" /\ gor'[Main] \in {"ended", "done"} => left'[Main] = 0
            BY <1>0, <2>2 DEF TaskInv, StatisticsFit, TypeOK
        <3> QED
            BY <2>2, <3>1, <3>2 DEF TaskInv, StatisticsFit
    <2>6. PlacesFit' /\ Verdicts'
        BY <1>2, <2>3, WrapperRests DEF NoMetaFile
    <2> QED
        BY <2>3, <2>4, <2>5, <2>6 DEF TaskInv, Verdicts
<1>3. ASSUME CommandEnds(p) PROVE TaskInv'
    <2>1. PICK s \in {"ok", "RE", "killed"} : meta' = [meta EXCEPT ![p] = s]
        BY <1>3 DEF CommandEnds
    <2>2. gor' = [gor EXCEPT ![p] = "ended"] /\ UNCHANGED <<left, cancelled>>
        BY <1>3 DEF CommandEnds
    <2>3. GoroutinesFit' /\ mgr = "run"
        BY <1>3, <2>2, OneGoroutine DEF CommandEnds
    <2>4. wrote' \subseteq AllFiles
        BY <1>3, FileFacts DEF CommandEnds, Leaves, TaskInv, TypeOK
    <2>5. TypeOK'
        <3>1. faults' \in 0..MaxFaults
            BY <1>0, <1>3, <2>1, <2>2, <2>4, FaultsType DEF CommandEnds
        <3>2. gor' \in [Everyone -> {"off", "ready", "exec", "ended", "done"}]
            BY <2>2 DEF TaskInv, TypeOK
        <3>3. meta' \in [Everyone -> Statistics]
            BY <2>1 DEF TaskInv, TypeOK, Statistics
        <3>4. WrapperTypes' /\ FileTypes' /\ ManagerTypes'
            BY <1>3, WrapperTypesKept, FileTypesKept, ManagerTypesKept DEF CommandEnds
        <3>5. AnswerTypes'
            BY <1>3, <2>4 DEF CommandEnds, AnswerTypes, TaskInv, TypeOK
        <3>6. GoroutineTypes' /\ cancelled' \in BOOLEAN
            BY <2>2, <3>2, <3>3 DEF GoroutineTypes, TaskInv, TypeOK
        <3> QED
            BY <3>1, <3>4, <3>5, <3>6, TypePartsNext
    <2>6. StatisticsFit'
        BY <1>0, <2>1, <2>2 DEF TaskInv, StatisticsFit, TypeOK
    <2>7. PlacesFit' /\ Verdicts'
        BY <1>3, <2>3, WrapperRests DEF CommandEnds
    <2> QED
        BY <2>3, <2>5, <2>6, <2>7 DEF TaskInv, Verdicts
<1>4. ASSUME CommandFails(p) PROVE TaskInv'
    <2>1. PICK s \in {"XX", "none", "RE"} : meta' = [meta EXCEPT ![p] = s]
        BY <1>4 DEF CommandFails
    <2>2. gor' = [gor EXCEPT ![p] = IF left[p] = 0 THEN "ended" ELSE "ready"]
          /\ UNCHANGED <<left, cancelled>>
        BY <1>4 DEF CommandFails, Again
    <2>3. GoroutinesFit' /\ mgr = "run"
        <3>1. (IF left[p] = 0 THEN "ended" ELSE "ready") \in {"ready", "exec", "ended"}
            OBVIOUS
        <3> QED
            BY <1>4, <2>2, <3>1, OneGoroutine DEF CommandFails
    <2>4. wrote' \subseteq AllFiles
        BY <1>4, FileFacts DEF CommandFails, Leaves, TaskInv, TypeOK
    <2>5. TypeOK'
        <3>1. faults' \in 0..MaxFaults
            BY <1>0, <1>4, <2>1, <2>2, <2>4, FaultsType DEF CommandFails
        <3>2. gor' \in [Everyone -> {"off", "ready", "exec", "ended", "done"}]
            BY <2>2 DEF TaskInv, TypeOK
        <3>3. meta' \in [Everyone -> Statistics]
            BY <2>1 DEF TaskInv, TypeOK, Statistics
        <3>4. WrapperTypes' /\ FileTypes' /\ ManagerTypes'
            BY <1>4, WrapperTypesKept, FileTypesKept, ManagerTypesKept DEF CommandFails
        <3>5. AnswerTypes'
            BY <1>4, <2>4 DEF CommandFails, AnswerTypes, TaskInv, TypeOK
        <3>6. GoroutineTypes' /\ cancelled' \in BOOLEAN
            BY <2>2, <3>2, <3>3 DEF GoroutineTypes, TaskInv, TypeOK
        <3> QED
            BY <3>1, <3>4, <3>5, <3>6, TypePartsNext
    <2>6. StatisticsFit'
        BY <1>0, <2>1, <2>2 DEF TaskInv, StatisticsFit, TypeOK
    <2>7. PlacesFit' /\ Verdicts'
        BY <1>4, <2>3, WrapperRests DEF CommandFails
    <2> QED
        BY <2>3, <2>5, <2>6, <2>7 DEF TaskInv, Verdicts
<1>5. ASSUME UserDone(p) PROVE TaskInv'
    <2>1. gor' = [gor EXCEPT ![p] = "done"] /\ p # Main /\ mgr = "run"
          /\ UNCHANGED <<task, mgr, copied, left, meta, failed, cancelled>>
        BY <1>0, <1>5 DEF UserDone, TaskInv, GoroutinesFit
    <2>2. GoroutinesFit'
        BY <1>0, <2>1, TaskFixed DEF TaskInv, GoroutinesFit, TypeOK
    <2>3. TypeOK'
        <3>1. faults' \in 0..MaxFaults
            BY <1>0, <1>5, <2>1, FaultsType DEF UserDone
        <3> QED
            BY <1>0, <1>5, <2>1, <3>1 DEF UserDone, TaskInv, TypeOK
    <2>4. StatisticsFit'
        BY <1>0, <2>1 DEF TaskInv, StatisticsFit, TypeOK
    <2>5. PlacesFit' /\ Verdicts'
        BY <1>5, <2>1, WrapperRests DEF UserDone
    <2> QED
        BY <2>2, <2>3, <2>4, <2>5 DEF TaskInv, Verdicts
<1> QED
    BY <1>1, <1>2, <1>3, <1>4, <1>5 DEF Goroutine

LEMMA AnsweringStep ==
    ASSUME TaskInv, Answering
    PROVE  TaskInv'
<1> USE DEF wrapVars, fileVars, mgrVars, runVars
<1>0. Main \in Everyone /\ Main \in Parties
    BY FileFacts
<1>1. ASSUME NEW f \in Outputs, Collect(f) PROVE TaskInv'
    <2>1. TypeOK'
        <3>1. faults' \in 0..MaxFaults
            BY <1>1, FaultsType DEF Collect
        <3>2. f \in AllFiles
            BY FileFacts
        <3>3. scratch' \subseteq AllFiles /\ resp' \subseteq AllFiles
            BY <1>1, <3>2 DEF Collect, TaskInv, TypeOK
        <3>4. WrapperTypes' /\ ManagerTypes' /\ GoroutineTypes'
            BY <1>1, WrapperTypesKept, ManagerTypesKept, GoroutineTypesKept DEF Collect
        <3>5. FileTypes'
            BY <1>1, <3>3 DEF Collect, FileTypes, TaskInv, TypeOK
        <3>6. AnswerTypes' /\ cancelled' \in BOOLEAN
            BY <1>1, <3>3 DEF Collect, AnswerTypes, TaskInv, TypeOK
        <3> QED
            BY <3>1, <3>4, <3>5, <3>6, TypePartsNext
    <2>2. mgr = "run"
        BY <1>0, <1>1 DEF Collect, TaskInv, GoroutinesFit
    <2>3. PlacesFit' /\ Verdicts'
        BY <1>1, <2>2, WrapperRests DEF Collect
    <2>4. GoroutinesFit' /\ StatisticsFit'
        BY <1>1, ManagerRests DEF Collect
    <2> QED
        BY <2>1, <2>3, <2>4 DEF TaskInv, Verdicts
<1>2. ASSUME \/ \E f \in Outputs : CollectFails(f)
             \/ Respond
      PROVE  TaskInv'
    <2>1. /\ gor[Main] = "ended" /\ gor' = [gor EXCEPT ![Main] = "done"]
          /\ UNCHANGED <<task, remote, wrapVars, old, undeleted, mgrVars, left, meta, wrote, resp, cancelled>>
          /\ failed' \in BOOLEAN /\ scratch' \subseteq scratch \cup Outputs /\ (Fault \/ NoFault)
        BY <1>2 DEF CollectFails, Respond, TaskInv, TypeOK
    <2>2. mgr = "run" /\ mgr' = "run"
        BY <1>0, <2>1 DEF TaskInv, GoroutinesFit
    <2>3. TypeOK'
        <3>1. faults' \in 0..MaxFaults
            BY <1>0, <2>1, FaultsType
        <3>2. gor' \in [Everyone -> {"off", "ready", "exec", "ended", "done"}]
            BY <2>1 DEF TaskInv, TypeOK
        <3>3. scratch' \subseteq AllFiles
            BY <2>1, FileFacts DEF TaskInv, TypeOK
        <3>4. WrapperTypes' /\ ManagerTypes'
            BY <2>1, WrapperTypesKept, ManagerTypesKept
        <3>5. FileTypes'
            BY <2>1, <3>3 DEF FileTypes, TaskInv, TypeOK
        <3>6. GoroutineTypes'
            BY <2>1, <3>2 DEF GoroutineTypes, TaskInv, TypeOK
        <3>7. AnswerTypes' /\ cancelled' \in BOOLEAN
            BY <2>1 DEF AnswerTypes, TaskInv, TypeOK
        <3> QED
            BY <3>1, <3>4, <3>5, <3>6, <3>7, TypePartsNext
    <2>4. PlacesFit' /\ Verdicts'
        BY <2>1, <2>2, WrapperRests
    <2>5. GoroutinesFit'
        BY <1>0, <2>1, <2>2, TaskFixed DEF TaskInv, GoroutinesFit, TypeOK
    <2>6. StatisticsFit'
        BY <1>0, <2>1 DEF TaskInv, StatisticsFit, TypeOK
    <2> QED
        BY <2>3, <2>4, <2>5, <2>6 DEF TaskInv, Verdicts
<1>3. ASSUME Join PROVE TaskInv'
    <2>1. TypeOK'
        <3>1. faults' \in 0..MaxFaults
            BY <1>3, FaultsType DEF Join
        <3> QED
            BY <1>3, <3>1 DEF Join, TaskInv, TypeOK
    <2>2. PlacesFit' /\ Verdicts'
        BY <1>3, WrapperRests DEF Join
    <2>3. GoroutinesFit'
        <3>1. \A p \in Everyone : gor[p] \in {"done", "off"}
            BY <1>3 DEF Join, TaskInv, GoroutinesFit
        <3> QED
            BY <1>0, <1>3, <3>1, TaskFixed DEF Join, TaskInv, GoroutinesFit
    <2>4. StatisticsFit'
        BY <1>3 DEF Join, TaskInv, StatisticsFit
    <2> QED
        BY <2>1, <2>2, <2>3, <2>4 DEF TaskInv, Verdicts
<1> QED
    BY <1>1, <1>2, <1>3 DEF Answering

LEMMA EnvironmentStep ==
    ASSUME TaskInv, Cancel \/ Age \/ Sweep \/ UNCHANGED vars
    PROVE  TaskInv'
<1> USE DEF wrapVars, fileVars, mgrVars, runVars
<1>1. /\ UNCHANGED <<task, remote, wrapVars, undeleted, mgrVars, runVars>>
      /\ cancelled' \in {cancelled, TRUE}
      /\ scratch' \subseteq scratch /\ old' \in {old, scratch}
      /\ Fault \/ NoFault
    BY DEF Cancel, Age, Sweep, vars, NoFault
<1>2. cancelled => cancelled'
    BY <1>1
<1>3. TypeOK'
    <2>1. faults' \in 0..MaxFaults
        BY <1>1, FaultsType
    <2>2. scratch' \subseteq AllFiles /\ old' \subseteq AllFiles
        BY <1>1 DEF TaskInv, TypeOK
    <2>3. cancelled' \in BOOLEAN
        BY <1>1 DEF TaskInv, TypeOK
    <2>4. WrapperTypes' /\ ManagerTypes' /\ GoroutineTypes' /\ AnswerTypes'
        BY <1>1, WrapperTypesKept, ManagerTypesKept, GoroutineTypesKept, AnswerTypesKept
    <2>5. FileTypes'
        BY <1>1, <2>2 DEF FileTypes, TaskInv, TypeOK
    <2> QED
        BY <2>1, <2>3, <2>4, <2>5, TypePartsNext
<1>4. PlacesFit'
    BY <1>1 DEF TaskInv, PlacesFit
<1>5. GoroutinesFit' /\ StatisticsFit'
    BY <1>1, <1>2, ManagerRests
<1>6. ScoredHonestly'
    BY <1>1, <1>2, TaskFixed DEF TaskInv, ScoredHonestly
<1>7. PanicOnlyAfterAllTries'
    BY <1>1 DEF TaskInv, PanicOnlyAfterAllTries
<1> QED
    BY <1>3, <1>4, <1>5, <1>6, <1>7 DEF TaskInv

LEMMA TaskInvStep == TaskInv /\ [Next]_vars => TaskInv'
BY WrapperStep, SetupStep, GoroutineStep, AnsweringStep, EnvironmentStep DEF Next

LEMMA TaskInitInv == Init => TaskInv
<1> SUFFICES ASSUME Init PROVE TaskInv
    OBVIOUS
<1>1. TypeOK
    <2>1. Tries \in 0..Tries /\ 0 \in 0..MaxFaults
        BY TaskAssumption DEF TaskAssumption
    <2>2. /\ gor \in [Everyone -> {"off", "ready", "exec", "ended", "done"}]
          /\ left \in [Everyone -> 0..Tries] /\ meta \in [Everyone -> Statistics]
        BY <2>1 DEF Init, Statistics
    <2> QED
        BY <2>1, <2>2 DEF Init, TypeOK
<1>2. Main \in Everyone
    BY DEF Everyone
<1>3. PlacesFit /\ GoroutinesFit /\ StatisticsFit
    BY <1>2 DEF Init, PlacesFit, GoroutinesFit, StatisticsFit
<1>4. ScoredHonestly /\ PanicOnlyAfterAllTries
    BY DEF Init, ScoredHonestly, PanicOnlyAfterAllTries
<1> QED
    BY <1>1, <1>3, <1>4 DEF TaskInv

LEMMA TaskInvariant == Spec => []TaskInv
BY TaskInitInv, TaskInvStep, PTL DEF Spec

-----------------------------------------------------------------------------
\* Places, files, goroutines and attempts stay in their domains; attempts never fall
\* below zero.
THEOREM TaskTypeCorrect == Spec => []TypeOK
<1>1. TaskInv => TypeOK
    BY DEF TaskInv
<1> QED
    BY <1>1, TaskInvariant, PTL

\* A verdict that counts has its inputs, its product and a main command that ended by
\* itself, with the two exceptions of the code, for any sandboxes, tries and faults.
THEOREM TasksScoredHonestly == Spec => []ScoredHonestly
<1>1. TaskInv => ScoredHonestly
    BY DEF TaskInv
<1> QED
    BY <1>1, TaskInvariant, PTL

\* The parse of nil statistics is reached only when every attempt of the main sandbox is
\* used up and the call answered.
THEOREM PanicsOnlyAfterAllTries == Spec => []PanicOnlyAfterAllTries
<1>1. TaskInv => PanicOnlyAfterAllTries
    BY DEF TaskInv
<1> QED
    BY <1>1, TaskInvariant, PTL

-----------------------------------------------------------------------------
(* Files. While nothing has failed, the outputs in the scratch space are   *)
(* those the wrapper has still to take; a task that was answered took them *)
(* all; and clearInput left no input of a request that was made up.        *)
LeftoversFit ==
    /\ outcome = "none" => got = {}
    /\ outcome = "answer" /\ wrap \in {"clear", "verdict", "done"} => resp \subseteq got
    /\ outcome # "error" /\ ~failed => scratch \ (Inputs \cup undeleted) \subseteq resp \ got
    /\ wrap \in {"verdict", "done"} =>
          \A f \in (scratch \cap Inputs) \ undeleted : ~Converted(f[1])

LEMMA ClearedInputs ==
    /\ ToClear \subseteq Inputs
    /\ \A f \in Inputs : f[1] \in Parties /\ f \in InputsOf(f[1])
    /\ \A f \in Inputs : Converted(f[1]) => f \in ToClear
    /\ \A f \in Outputs : f \notin Inputs
<1>1. \A p \in Parties : \A f \in InputsOf(p) : f[1] = p /\ f[2] = "in"
    BY DEF InputsOf
<1>2. \A f \in Inputs : f[1] \in Parties /\ f \in InputsOf(f[1]) /\ f[2] = "in"
    BY <1>1 DEF Inputs
<1>3. \A f \in Outputs : f[2] = "out"
    BY DEF Outputs, Product
<1>4. ToClear \subseteq Inputs
    BY DEF ToClear, Inputs
<1>5. \A f \in Inputs : Converted(f[1]) => f \in ToClear
    BY <1>2 DEF ToClear
<1> QED
    BY <1>2, <1>3, <1>4, <1>5

LEMMA LeftoversStep ==
    ASSUME TaskInv, LeftoversFit, [Next]_vars
    PROVE  LeftoversFit'
<1> USE DEF wrapVars, fileVars, mgrVars, runVars, LeftoversFit
<1>1. \A p : requests' = requests => Converted(p)' = Converted(p)
    BY DEF Converted
<1>2. ASSUME NEW p \in Parties, NEW f \in InputsOf(p),
             SaveInput(p, f) \/ SaveInputFails(p, f)
      PROVE  LeftoversFit'
    <2>1. /\ wrap = "convert" /\ outcome = "none" /\ f \in Inputs
          /\ wrap' \in {"convert", "clear"} /\ outcome' \in {"none", "error"}
          /\ UNCHANGED <<task, got, undeleted, resp, failed>>
          /\ scratch' \subseteq scratch \cup {f}
        BY <1>2 DEF SaveInput, SaveInputFails, Converting, TaskInv, PlacesFit, Inputs
    <2> QED
        BY <2>1, TaskFixed
<1>3. CASE Send \/ Receive \/ LoseConnection \/ AllTaken \/ Judge
    <2>1. UNCHANGED <<task, got, undeleted, resp, failed, scratch, requests>>
        BY <1>3 DEF Send, Receive, LoseConnection, AllTaken, Judge
    <2>2. CASE Send \/ LoseConnection
        <3>1. wrap' \in {"waiting", "clear"} /\ outcome' \in {outcome, "error"}
              /\ outcome = "none"
            BY <2>2 DEF Send, LoseConnection, TaskInv, PlacesFit
        <3> QED
            BY <1>1, <2>1, <3>1, TaskFixed
    <2>3. CASE Receive
        <3>1. wrap' \in {"output", "clear"} /\ outcome' \in {"answer", "error"}
              /\ outcome = "none" /\ (outcome' = "answer" => wrap' = "output")
            BY <2>3 DEF Receive, TaskInv, PlacesFit
        <3> QED
            BY <1>1, <2>1, <3>1, TaskFixed
    <2>4. CASE AllTaken
        <3>1. wrap' = "clear" /\ outcome' = outcome /\ resp \subseteq got
            BY <2>4 DEF AllTaken
        <3> QED
            BY <1>1, <2>1, <3>1, TaskFixed
    <2>5. CASE Judge
        <3>1. wrap = "verdict" /\ wrap' = "done" /\ outcome' = outcome
            BY <2>5 DEF Judge
        <3> QED
            BY <1>1, <2>1, <3>1, TaskFixed
    <2> QED
        BY <1>3, <2>2, <2>3, <2>4, <2>5
<1>4. CASE ClearInput
    <2>1. /\ wrap = "clear" /\ wrap' = "verdict"
          /\ UNCHANGED <<task, got, outcome, resp, failed, requests>>
          /\ scratch' \subseteq scratch /\ undeleted \subseteq undeleted'
          /\ scratch' \cap ToClear \subseteq undeleted'
        BY <1>4 DEF ClearInput
    <2>2. \A f \in (scratch' \cap Inputs) \ undeleted' : ~Converted(f[1])
        BY <2>1, ClearedInputs
    <2> QED
        BY <1>1, <2>1, <2>2, TaskFixed
<1>5. ASSUME NEW f \in Outputs, TakeOutput(f) PROVE LeftoversFit'
    <2>1. /\ wrap = "output" /\ wrap' = wrap /\ outcome = "answer"
          /\ UNCHANGED <<task, outcome, resp, failed, requests>>
          /\ got' = got \cup {f}
          /\ \/ scratch' = scratch \ {f} /\ undeleted' = undeleted
             \/ scratch' = scratch /\ undeleted' = undeleted \cup {f}
        BY <1>5 DEF TakeOutput, TaskInv, PlacesFit
    <2> QED
        BY <2>1, TaskFixed
<1>6. ASSUME NEW f \in Outputs, TakeOutputFails(f) PROVE LeftoversFit'
    <2>1. wrap' = "clear" /\ outcome' = "error"
        BY <1>6 DEF TakeOutputFails
    <2> QED
        BY <2>1
<1>7. CASE Wrapper
    BY <1>2, <1>3, <1>4, <1>5, <1>6, <1>7 DEF Wrapper
<1>8. ASSUME UNCHANGED <<task, wrapVars, fileVars, resp, failed>> PROVE LeftoversFit'
    BY <1>1, <1>8, TaskFixed
<1>9. CASE Setup
    BY <1>8, <1>9 DEF Setup, GetBox, CopyInput, Refuse, StartCommands
<1>10. ASSUME NEW p \in Parties, Goroutine(p) PROVE LeftoversFit'
    BY <1>8, <1>10 DEF Goroutine, Launch, NoMetaFile, CommandEnds, CommandFails, UserDone
<1>11. CASE Answering
    <2>1. CASE Respond \/ Join
        BY <1>8, <2>1 DEF Respond, Join
    <2>2. ASSUME gor[Main] = "ended" PROVE outcome # "answer" /\ mgr = "run"
        BY <2>2, FileFacts DEF TaskInv, GoroutinesFit, PlacesFit
    <2>3. ASSUME NEW f \in Outputs, Collect(f) PROVE LeftoversFit'
        <3>1. /\ outcome # "answer"
              /\ UNCHANGED <<task, wrapVars, undeleted, failed>>
              /\ scratch' = scratch \cup {f} /\ resp' = resp \cup {f}
            BY <2>2, <2>3 DEF Collect
        <3>2. f \notin Inputs /\ Inputs' = Inputs
            BY <3>1, ClearedInputs, TaskFixed
        <3>3. outcome \in {"none", "error"}
            BY <3>1 DEF TaskInv, TypeOK
        <3> QED
            BY <1>1, <3>1, <3>2, <3>3
    <2>4. ASSUME NEW f \in Outputs, CollectFails(f) PROVE LeftoversFit'
        <3>1. /\ outcome # "answer"
              /\ UNCHANGED <<task, wrapVars, undeleted, resp>>
              /\ scratch' \subseteq scratch \cup {f} /\ failed'
            BY <2>2, <2>4 DEF CollectFails
        <3>2. f \notin Inputs /\ Inputs' = Inputs
            BY <3>1, ClearedInputs, TaskFixed
        <3> QED
            BY <1>1, <3>1, <3>2
    <2> QED
        BY <1>11, <2>1, <2>3, <2>4 DEF Answering
<1>12. CASE Cancel \/ Age \/ Sweep \/ UNCHANGED vars
    <2>1. UNCHANGED <<task, wrapVars, undeleted, resp, failed>> /\ scratch' \subseteq scratch
        BY <1>12 DEF Cancel, Age, Sweep, vars
    <2> QED
        BY <1>1, <2>1, TaskFixed
<1> QED
    BY <1>7, <1>9, <1>10, <1>11, <1>12 DEF Next

\* What is in the scratch space after a task is there for a reason: convertResponse and
\* the deferred clearInput took everything else, however the task ended.
THEOREM TaskLeavesNothingElse == Spec => []LeftoversExplained
<1>1. Init => LeftoversFit
    BY DEF Init, LeftoversFit
<1>2. TaskInv /\ LeftoversFit => LeftoversExplained
    <2> SUFFICES ASSUME TaskInv, LeftoversFit, wrap = "done",
                        NEW f \in scratch \ undeleted
                 PROVE  IF f \in Inputs THEN ~Converted(f[1]) ELSE outcome = "error"
        BY DEF LeftoversExplained
    <2>1. outcome \in {"answer", "error"}
        BY DEF TaskInv, PlacesFit, TypeOK
    <2>2. outcome = "answer" => ~failed
        BY DEF TaskInv, PlacesFit, GoroutinesFit
    <2> QED
        BY <2>1, <2>2 DEF LeftoversFit
<1> QED
    BY <1>1, <1>2, TaskInvariant, LeftoversStep, PTL DEF Spec
-----------------------------------------------------------------------------
(* The refinement of TaskPromise: running is the set of goroutines whose   *)
(* command runs, closed says that the manager has given its boxes back.    *)

Running == {p \in Everyone : gor[p] = "exec"}
Closed == mgr \in {"answer", "error"}

LEMMA Rests ==
    ASSUME Running' = Running, Closed' = Closed
    PROVE  [Promise!Next]_(Promise!promiseVars)
BY DEF Running, Closed, Promise!promiseVars

\* The goroutine of p goes from one place to another, and no command starts or ends.
LEMMA Elsewhere ==
    ASSUME NEW p \in Everyone, NEW g, g # "exec", gor[p] # "exec",
           gor \in [Everyone -> {"off", "ready", "exec", "ended", "done"}],
           gor' = [gor EXCEPT ![p] = g]
    PROVE  Running' = Running
BY DEF Running

\* While the manager runs or sets up, the call is open.
LEMMA ClosesNow ==
    ASSUME ~Closed, Closed', Running = {}, Running' = {}
    PROVE  [Promise!Next]_(Promise!promiseVars)
<1>1. Promise!Close
    BY DEF Promise!Close, Running, Closed
<1> QED
    BY <1>1 DEF Promise!Next

\* The command of p ends.
LEMMA StopsNow ==
    ASSUME TaskInv, NEW p \in Everyone, NEW g, g # "exec", gor[p] = "exec",
           gor' = [gor EXCEPT ![p] = g], UNCHANGED mgr
    PROVE  [Promise!Next]_(Promise!promiseVars)
<1>1. p \in Running /\ Running' = Running \ {p} /\ Closed' = Closed
    BY DEF Running, Closed, TaskInv, TypeOK
<1>2. Promise!Stop(p)
    BY <1>1 DEF Promise!Stop, Running, Closed
<1> QED
    BY <1>2 DEF Promise!Next

LEMMA KeepsPromise ==
    ASSUME TaskInv, [Next]_vars
    PROVE  [Promise!Next]_(Promise!promiseVars)
<1> USE DEF wrapVars, fileVars, mgrVars, runVars
<1>0. /\ gor \in [Everyone -> {"off", "ready", "exec", "ended", "done"}]
      /\ Main \in Everyone /\ Parties \subseteq Everyone
    BY FileFacts DEF TaskInv, TypeOK, Everyone
<1>1. ASSUME UNCHANGED <<gor, mgr>> PROVE Running' = Running /\ Closed' = Closed
    BY <1>1 DEF Running, Closed
<1>2. CASE Wrapper
    <2>1. CASE Send
        <3>1. Running' = Running /\ Closed' = Closed
            BY <2>1 DEF Send, Running, Closed, TaskInv, PlacesFit
        <3> QED
            BY <3>1, Rests
    <2>2. CASE ~Send
        <3>1. UNCHANGED <<gor, mgr>>
            BY <1>2, <2>2 DEF Wrapper, SaveInput, SaveInputFails, Receive, LoseConnection,
                              AllTaken, ClearInput, Judge, TakeOutput, TakeOutputFails
        <3> QED
            BY <1>1, <3>1, Rests
    <2> QED
        BY <2>1, <2>2
<1>3. CASE Setup
    <2>1. CASE \E p \in Parties : GetBox(p) \/ \E f \in InputsOf(p) : CopyInput(p, f)
        <3>1. UNCHANGED <<gor, mgr>>
            BY <2>1 DEF GetBox, CopyInput
        <3> QED
            BY <1>1, <3>1, Rests
    <2>2. ASSUME mgr = "setup" PROVE Running = {} /\ ~Closed
        BY <2>2 DEF Running, Closed, TaskInv, GoroutinesFit
    <2>3. CASE Refuse
        <3>1. mgr = "setup" /\ mgr' = "error" /\ UNCHANGED gor
            BY <2>3 DEF Refuse
        <3>2. Closed' /\ Running' = {}
            BY <2>2, <3>1 DEF Running, Closed
        <3> QED
            BY <2>2, <3>1, <3>2, ClosesNow
    <2>4. CASE StartCommands
        <3>1. mgr = "setup" /\ mgr' = "run" /\ \A p \in Everyone : gor'[p] # "exec"
            BY <2>4 DEF StartCommands
        <3>2. Running' = {} /\ Closed' = Closed
            BY <3>1 DEF Running, Closed
        <3> QED
            BY <2>2, <3>1, <3>2, Rests
    <2> QED
        BY <1>3, <2>1, <2>3, <2>4 DEF Setup
<1>4. ASSUME NEW p \in Parties, Goroutine(p) PROVE [Promise!Next]_(Promise!promiseVars)
    <2>0. p \in Everyone /\ UNCHANGED mgr /\ Closed' = Closed
        BY <1>0, <1>4 DEF Goroutine, Launch, NoMetaFile, CommandEnds, CommandFails, UserDone, Closed
    <2>1. CASE Launch(p)
        <3>1. CASE gor' = [gor EXCEPT ![p] = "exec"]
            <4>1. ~Closed
                BY <2>0, <2>1 DEF Launch, Closed, TaskInv, GoroutinesFit
            <4>2. p \notin Running /\ Running' = Running \cup {p}
                BY <1>0, <2>0, <2>1, <3>1 DEF Launch, Running
            <4>3. Promise!Start(p)
                BY <2>0, <4>1, <4>2 DEF Promise!Start, Running, Closed
            <4> QED
                BY <2>0, <4>3 DEF Promise!Next
        <3>2. CASE gor' = [gor EXCEPT ![p] = "ended"]
            <4>1. gor[p] = "ready"
                BY <2>1 DEF Launch
            <4> QED
                BY <1>0, <2>0, <3>2, <4>1, Elsewhere, Rests
        <3> QED
            BY <2>1, <3>1, <3>2 DEF Launch
    <2>2. CASE NoMetaFile(p)
        <3>1. gor[p] = "ready" /\ \E g \in {"ended", "ready"} : gor' = [gor EXCEPT ![p] = g]
            BY <2>2 DEF NoMetaFile, Again
        <3> QED
            BY <1>0, <2>0, <3>1, Elsewhere, Rests
    <2>3. CASE CommandEnds(p)
        <3>1. gor[p] = "exec" /\ gor' = [gor EXCEPT ![p] = "ended"]
            BY <2>3 DEF CommandEnds
        <3> QED
            BY <2>0, <3>1, StopsNow
    <2>4. CASE CommandFails(p)
        <3>1. gor[p] = "exec" /\ \E g \in {"ended", "ready"} : gor' = [gor EXCEPT ![p] = g]
            BY <2>4 DEF CommandFails, Again
        <3> QED
            BY <2>0, <3>1, StopsNow
    <2>5. CASE UserDone(p)
        <3>1. gor[p] = "ended" /\ gor' = [gor EXCEPT ![p] = "done"]
            BY <2>5 DEF UserDone
        <3> QED
            BY <1>0, <2>0, <3>1, Elsewhere, Rests
    <2> QED
        BY <1>4, <2>1, <2>2, <2>3, <2>4, <2>5 DEF Goroutine
<1>5. CASE Answering
    <2>1. CASE \E f \in Outputs : Collect(f)
        <3>1. UNCHANGED <<gor, mgr>>
            BY <2>1 DEF Collect
        <3> QED
            BY <1>1, <3>1, Rests
    <2>2. CASE Respond \/ \E f \in Outputs : CollectFails(f)
        <3>1. gor[Main] = "ended" /\ gor' = [gor EXCEPT ![Main] = "done"] /\ UNCHANGED mgr
            BY <2>2 DEF Respond, CollectFails
        <3>2. Closed' = Closed
            BY <3>1 DEF Closed
        <3> QED
            BY <1>0, <3>1, <3>2, Elsewhere, Rests
    <2>3. CASE Join
        <3>1. mgr = "run" /\ mgr' \in {"answer", "error"} /\ UNCHANGED gor
            BY <2>3 DEF Join
        <3>2. \A p \in Everyone : gor[p] # "exec"
            BY <2>3 DEF Join, TaskInv, GoroutinesFit
        <3>3. ~Closed /\ Closed' /\ Running = {} /\ Running' = {}
            BY <3>1, <3>2 DEF Running, Closed
        <3> QED
            BY <3>3, ClosesNow
    <2> QED
        BY <1>5, <2>1, <2>2, <2>3 DEF Answering
<1>6. CASE Cancel \/ Age \/ Sweep \/ UNCHANGED vars
    <2>1. UNCHANGED <<gor, mgr>>
        BY <1>6 DEF Cancel, Age, Sweep, vars
    <2> QED
        BY <1>1, <2>1, Rests
<1> QED
    BY <1>2, <1>3, <1>4, <1>5, <1>6 DEF Next

\* Commands run only while the call is open, and when RunBox3 or RunMultibox3 has
\* returned its boxes no command runs in them: every task implements TaskPromise.
THEOREM TaskKeepsPromise == Spec => PromiseSpec
<1>1. Init => Promise!Init
    BY DEF Init, Promise!Init
<1>2. TaskInv /\ [Next]_vars => [Promise!Next]_(Promise!promiseVars)
    BY KeepsPromise
<1> QED
    BY <1>1, <1>2, TaskInvariant, PTL DEF Spec, PromiseSpec, Promise!Spec
=============================================================================
