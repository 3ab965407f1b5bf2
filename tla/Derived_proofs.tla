--------------------------- MODULE Derived_proofs ---------------------------
(***************************************************************************)
(* What is stored beside what it is made from, for any number of requests: *)
(* renders (RenderExplained), compiled checkers (CheckerExplained), the    *)
(* files of the tests (FilesExplained, ImportIsWhole), and the problems of *)
(* nested lists (PageMatchesCount).                                        *)
(***************************************************************************)
EXTENDS Renders, CheckerCache, TestData, ProblemLists, Sums_proofs

-----------------------------------------------------------------------------
(* Renders. With the domains of the variables RenderExplained is inductive. *)

\* What opening, listing and removing do to the steps of views and changes.
LEMMA UnlinkType ==
    ASSUME RenderTypeOK
    PROVE  Unlink \in [Views -> [step : {"none", "save", "fill"}, read : Nat, linked : BOOLEAN]]
<1> DEFINE Unlinked(v) == [view[v] EXCEPT !.linked = FALSE]
<1>1. ASSUME NEW v \in Views
      PROVE  Unlinked(v) \in [step : {"none", "save", "fill"}, read : Nat, linked : BOOLEAN]
    <2>1. view[v] \in [step : {"none", "save", "fill"}, read : Nat, linked : BOOLEAN]
        BY DEF RenderTypeOK
    <2> QED
        BY <2>1
<1>2. Unlink = [v \in Views |-> Unlinked(v)]
    BY DEF Unlink
<1> HIDE DEF Unlinked
<1> QED
    BY <1>1, <1>2

LEMMA RenderTypeStep ==
    ASSUME RenderTypeOK, [RenderNext]_renderVars
    PROVE  RenderTypeOK'
<1>1. ASSUME NEW v \in Views, ReadData(v) PROVE RenderTypeOK'
    BY <1>1 DEF RenderTypeOK, ReadData
<1>2. ASSUME NEW v \in Views, OpenRender(v) PROVE RenderTypeOK'
    <2>1. view[v] \in [step : {"none", "save", "fill"}, read : Nat, linked : BOOLEAN]
        BY DEF RenderTypeOK
    <2>2. [view[v] EXCEPT !.step = "fill", !.linked = TRUE]
              \in [step : {"none", "save", "fill"}, read : Nat, linked : BOOLEAN]
        BY <2>1
    <2>3. view' \in [Views -> [step : {"none", "save", "fill"}, read : Nat, linked : BOOLEAN]]
        BY <1>2, <2>2 DEF OpenRender, RenderTypeOK
    <2>4. render' \in [of : Nat, whole : BOOLEAN] /\ flaw' \in {"none", "late"}
        BY <1>2, <2>1 DEF OpenRender, File, LateIf
    <2> QED
        BY <1>2, <2>3, <2>4 DEF OpenRender, RenderTypeOK
<1>3. ASSUME NEW v \in Views, FillRender(v) PROVE RenderTypeOK'
    <2>1. view[v].read \in Nat
        BY DEF RenderTypeOK
    <2>2. render' \in [of : Nat, whole : BOOLEAN] /\ flaw' \in {"none", "late", "mixed", "kept", "cut"}
        <3>1. /\ File(view[v].read, TRUE) \in [of : Nat, whole : BOOLEAN]
              /\ File(view[v].read, FALSE) \in [of : Nat, whole : BOOLEAN]
              /\ LateIf(view[v].read) \in {"none", "late"}
            BY <2>1 DEF File, LateIf
        <3>2. \/ UNCHANGED <<render, flaw>>
              \/ render' = File(view[v].read, TRUE) /\ flaw' = LateIf(view[v].read)
              \/ render' = File(view[v].read, FALSE) /\ flaw' = "mixed"
            BY <1>3 DEF FillRender
        <3> QED
            BY <3>1, <3>2 DEF RenderTypeOK
    <2>3. view' \in [Views -> [step : {"none", "save", "fill"}, read : Nat, linked : BOOLEAN]]
        BY <1>3 DEF FillRender, NoView, RenderTypeOK
    <2> QED
        BY <1>3, <2>2, <2>3 DEF FillRender, RenderTypeOK
<1>4. ASSUME NEW e \in Edits, UpdateAttachmentData(e) PROVE RenderTypeOK'
    BY <1>4 DEF RenderTypeOK, UpdateAttachmentData
<1>5. ASSUME NEW e \in Edits, UpdateAttachment(e) PROVE RenderTypeOK'
    BY <1>5 DEF RenderTypeOK, UpdateAttachment
<1>6. ASSUME NEW e \in Edits, ListRenders(e) PROVE RenderTypeOK'
    BY <1>6 DEF RenderTypeOK, ListRenders
<1>7. ASSUME NEW e \in Edits, RemoveRender(e) PROVE RenderTypeOK'
    BY <1>7, UnlinkType DEF RenderTypeOK, RemoveRender, NoFile
<1>8. ASSUME NEW e \in Edits, RemovalFails(e) PROVE RenderTypeOK'
    BY <1>8 DEF RenderTypeOK, RemovalFails
<1>9. ASSUME ResetCache PROVE RenderTypeOK'
    BY <1>9, UnlinkType DEF RenderTypeOK, ResetCache, NoFile
<1>10. ASSUME RenderRestart PROVE RenderTypeOK'
    BY <1>10 DEF RenderTypeOK, RenderRestart, NoView
<1>11. CASE UNCHANGED renderVars
    BY <1>11 DEF RenderTypeOK, renderVars
<1> QED
    BY <1>1, <1>2, <1>3, <1>4, <1>5, <1>6, <1>7, <1>8, <1>9, <1>10, <1>11 DEF RenderNext

LEMMA ExplainedStep ==
    ASSUME RenderTypeOK, RenderExplained, [RenderNext]_renderVars
    PROVE  RenderExplained'
<1>1. ASSUME NEW v \in Views, ReadData(v) PROVE RenderExplained'
    BY <1>1 DEF RenderExplained, ReadData
<1>2. ASSUME NEW v \in Views, OpenRender(v) PROVE RenderExplained'
    \* The file is being written, by v itself.
    <2>1. view'[v].step = "fill" /\ view'[v].linked
        BY <1>2 DEF OpenRender, RenderTypeOK
    <2> QED
        BY <2>1 DEF RenderExplained
<1>3. ASSUME NEW v \in Views, FillRender(v) PROVE RenderExplained'
    <2>1. CASE ~view[v].linked
        \* Whoever explained the file before is not v.
        <3>1. \A w \in Views : view[w].linked => view'[w] = view[w]
            BY <1>3, <2>1 DEF FillRender, RenderTypeOK
        <3> QED
            BY <1>3, <2>1, <3>1 DEF FillRender, RenderExplained, NoFile, File
    <2>2. CASE render' = File(view[v].read, TRUE) /\ flaw' = LateIf(view[v].read)
        BY <1>3, <2>2 DEF FillRender, RenderExplained, LateIf, File
    <2>3. CASE flaw' = "mixed"
        BY <2>3 DEF RenderExplained
    <2> QED
        BY <1>3, <2>1, <2>2, <2>3 DEF FillRender
<1>4. ASSUME NEW e \in Edits, UpdateAttachmentData(e) PROVE RenderExplained'
    <2>1. edit'[e] = "list"
        BY <1>4 DEF UpdateAttachmentData, RenderTypeOK
    <2> QED
        BY <2>1 DEF RenderExplained
<1>5. ASSUME NEW e \in Edits, UpdateAttachment(e) PROVE RenderExplained'
    <2>1. edit'[e] = "list"
        BY <1>5 DEF UpdateAttachment, RenderTypeOK
    <2> QED
        BY <2>1 DEF RenderExplained
<1>6. ASSUME NEW e \in Edits, ListRenders(e) PROVE RenderExplained'
    <2>1. CASE render = NoFile
        BY <1>6, <2>1 DEF ListRenders, RenderExplained, NoFile
    <2>2. CASE render # NoFile
        <3>1. edit'[e] = "remove"
            BY <1>6, <2>2 DEF ListRenders, RenderTypeOK
        <3> QED
            BY <3>1 DEF RenderExplained
    <2> QED
        BY <2>1, <2>2
<1>7. ASSUME NEW e \in Edits, RemoveRender(e) PROVE RenderExplained'
    BY <1>7 DEF RemoveRender, RenderExplained, NoFile
<1>8. ASSUME NEW e \in Edits, RemovalFails(e) PROVE RenderExplained'
    BY <1>8 DEF RemovalFails, RenderExplained
<1>9. ASSUME ResetCache PROVE RenderExplained'
    BY <1>9 DEF ResetCache, RenderExplained, NoFile
<1>10. ASSUME RenderRestart PROVE RenderExplained'
    BY <1>10 DEF RenderRestart, RenderExplained, NoFile, File
<1>11. CASE UNCHANGED renderVars
    BY <1>11 DEF renderVars, RenderExplained, NoFile, File
<1> QED
    BY <1>1, <1>2, <1>3, <1>4, <1>5, <1>6, <1>7, <1>8, <1>9, <1>10, <1>11 DEF RenderNext

LEMMA RenderInvariant == RenderSpec => [](RenderTypeOK /\ RenderExplained)
<1>1. RenderInit => RenderTypeOK /\ RenderExplained
    BY DEF RenderInit, RenderTypeOK, RenderExplained, NoView, NoFile
<1>2. (RenderTypeOK /\ RenderExplained) /\ [RenderNext]_renderVars
        => (RenderTypeOK /\ RenderExplained)'
    BY RenderTypeStep, ExplainedStep
<1> QED
    BY <1>1, <1>2, PTL DEF RenderSpec

\* The file, the views and the changes stay in their domains.
THEOREM RenderTypeCorrect == RenderSpec => []RenderTypeOK
BY RenderInvariant, PTL

\* However many pages are rendered while the attachment is changed: a render that is not
\* the present one is being written, about to be removed, or has a reason in flaw.
THEOREM RendersExplained == RenderSpec => []RenderExplained
BY RenderInvariant, PTL

-----------------------------------------------------------------------------
(* The compiled checker. Comparing the time of the file with the time read *)
(* from the attachment is enough because of two facts: a good file of an   *)
(* older checker is older than the present one (GoodOrOlder), and whoever  *)
(* finds a good file that is not older than what was read finds one of the *)
(* codes current since then (SinceRead).                                   *)

Codes == {NoCode} \cup (Sources \X Nat)
Flaws == {"none", "cut", "late", "renamed"}
CheckingSteps == {"none", "data", "prepare", "lock", "compile", "fill", "run"}

CheckerTypeOK ==
    /\ time \in Nat
    /\ source \in [Sources -> [code : Sources \X Nat, updated : Nat]]
    /\ checker \in Sources
    /\ bin \in [of : Codes, modtime : Nat, flaw : Flaws] /\ bin.modtime <= time
    /\ checking \in [Checkings -> [step : CheckingSteps, updated : Nat, code : Codes]]
    /\ current \in [Checkings -> SUBSET Codes]

GoodBin == bin # NoBin /\ bin.flaw = "none"

GoodOrOlder == GoodBin => bin.of = Code \/ bin.modtime < source[checker].updated

SeesCode == \A k \in Checkings : checking[k].step # "none" => Code \in current[k]

SinceRead ==
    \A k \in Checkings :
        /\ checking[k].step \in {"data", "prepare"} /\ GoodBin /\ bin.modtime >= checking[k].updated
             => bin.of \in current[k]
        /\ checking[k].step = "run" /\ GoodBin => bin.of \in current[k]

CheckerInv == CheckerTypeOK /\ GoodOrOlder /\ SeesCode /\ SinceRead

LEMMA RowsOfChecker ==
    ASSUME CheckerTypeOK
    PROVE  /\ Code \in Codes /\ source[checker].updated \in Nat
           /\ \A k \in Checkings : checking[k] \in [step : CheckingSteps, updated : Nat, code : Codes]
           /\ NotChecking \in [step : CheckingSteps, updated : Nat, code : Codes]
           /\ NoBin \in [of : Codes, modtime : Nat, flaw : Flaws]
           /\ Sources \X Nat \subseteq Codes
BY DEF CheckerTypeOK, Code, Codes, CheckingSteps, Flaws, NotChecking, NoBin

LEMMA CheckerTypeStep ==
    ASSUME CheckerTypeOK, [CheckerNext]_checkerVars
    PROVE  CheckerTypeOK'
<1> USE RowsOfChecker
<1> DEFINE Row == [step : CheckingSteps, updated : Nat, code : Codes]
<1>1. ASSUME NEW k \in Checkings, ReadMetadata(k) PROVE CheckerTypeOK'
    <2>1. [step |-> "data", updated |-> source[checker].updated, code |-> NoCode] \in Row
        BY DEF CheckingSteps, Codes
    <2>2. checking' \in [Checkings -> Row]
        BY <1>1, <2>1 DEF ReadMetadata, CheckerTypeOK
    <2> QED
        BY <1>1, <2>2 DEF ReadMetadata, CheckerTypeOK
<1>2. ASSUME NEW k \in Checkings, ReadCode(k) PROVE CheckerTypeOK'
    <2>1. [checking[k] EXCEPT !.step = "prepare", !.code = Code] \in Row
        BY DEF CheckingSteps
    <2>2. checking' = [checking EXCEPT ![k] = [checking[k] EXCEPT !.step = "prepare", !.code = Code]]
        BY <1>2 DEF ReadCode, CheckerTypeOK
    <2>3. checking' \in [Checkings -> Row]
        BY <2>1, <2>2 DEF CheckerTypeOK
    <2> QED
        BY <1>2, <2>3 DEF ReadCode, CheckerTypeOK
<1>3. ASSUME NEW k \in Checkings, NEW step \in CheckingSteps,
             checking' = [checking EXCEPT ![k].step = step]
      PROVE  checking' \in [Checkings -> Row]
    <2>1. [checking[k] EXCEPT !.step = step] \in Row
        OBVIOUS
    <2>2. checking' = [checking EXCEPT ![k] = [checking[k] EXCEPT !.step = step]]
        BY <1>3 DEF CheckerTypeOK
    <2> QED
        BY <2>1, <2>2 DEF CheckerTypeOK
<1>4. ASSUME NEW k \in Checkings, Prepare(k) PROVE CheckerTypeOK'
    <2>1. PICK step \in CheckingSteps : checking' = [checking EXCEPT ![k].step = step]
        BY <1>4 DEF Prepare, CheckingSteps
    <2>2. checking' \in [Checkings -> Row]
        BY <1>3, <2>1
    <2> QED
        BY <1>4, <2>2 DEF Prepare, CheckerTypeOK
<1>5. ASSUME NEW k \in Checkings, Lock(k) PROVE CheckerTypeOK'
    <2>1. checking' \in [Checkings -> Row]
        BY <1>3, <1>5 DEF Lock, CheckingSteps
    <2> QED
        BY <1>5, <2>1 DEF Lock, CheckerTypeOK
<1>6. ASSUME NEW k \in Checkings, SaveBinary(k) PROVE CheckerTypeOK'
    <2>1. checking' \in [Checkings -> Row]
        BY <1>3, <1>6 DEF SaveBinary, CheckingSteps
    <2>2. /\ time' \in Nat /\ time' = time + 1
          /\ bin' \in [of : Codes, modtime : Nat, flaw : Flaws] /\ bin'.modtime <= time'
        BY <1>6 DEF SaveBinary, CheckerTypeOK, Codes, Flaws
    <2> QED
        BY <1>6, <2>1, <2>2 DEF SaveBinary, CheckerTypeOK
<1>7. ASSUME NEW k \in Checkings, FillBinary(k) PROVE CheckerTypeOK'
    <2>1. checking' \in [Checkings -> Row]
        BY <1>3, <1>7 DEF FillBinary, CheckingSteps
    <2>2. bin' \in [of : Codes, modtime : Nat, flaw : Flaws] /\ bin'.modtime <= time
        <3>1. ASSUME NEW f \in Flaws
              PROVE  /\ [bin EXCEPT !.of = checking[k].code, !.flaw = f]
                            \in [of : Codes, modtime : Nat, flaw : Flaws]
                     /\ [bin EXCEPT !.of = checking[k].code, !.flaw = f].modtime = bin.modtime
            BY DEF CheckerTypeOK
        <3>2. \/ bin' = bin
              \/ \E f \in Flaws : bin' = [bin EXCEPT !.of = checking[k].code, !.flaw = f]
            BY <1>7 DEF FillBinary, Flaws
        <3> QED
            BY <3>1, <3>2 DEF CheckerTypeOK
    <2> QED
        BY <1>7, <2>1, <2>2 DEF FillBinary, CheckerTypeOK
<1>8. ASSUME NEW k \in Checkings, CompilationFails(k) PROVE CheckerTypeOK'
    BY <1>8 DEF CompilationFails, CheckerTypeOK
<1>9. ASSUME NEW k \in Checkings, FinishChecking(k) PROVE CheckerTypeOK'
    BY <1>9 DEF FinishChecking, CheckerTypeOK
<1>10. ASSUME NEW a \in Sources, EditSource(a) PROVE CheckerTypeOK'
    <2>1. time' \in Nat /\ bin.modtime <= time'
        BY <1>10 DEF EditSource, CheckerTypeOK
    <2>2. source' \in [Sources -> [code : Sources \X Nat, updated : Nat]]
        BY <1>10, <2>1 DEF EditSource, CheckerTypeOK
    <2>3. current' \in [Checkings -> SUBSET Codes]
        BY <1>10, <2>1 DEF EditSource, CheckerTypeOK, Sees, Codes
    <2> QED
        BY <1>10, <2>1, <2>2, <2>3 DEF EditSource, CheckerTypeOK
<1>11. ASSUME NEW a \in Sources, RenameChecker(a) PROVE CheckerTypeOK'
    <2>1. [bin EXCEPT !.flaw = "renamed"] \in [of : Codes, modtime : Nat, flaw : Flaws]
        BY DEF CheckerTypeOK, Flaws
    <2>2. bin' \in [of : Codes, modtime : Nat, flaw : Flaws] /\ bin'.modtime <= time
        BY <1>11, <2>1 DEF RenameChecker, CheckerTypeOK
    <2>3. current' \in [Checkings -> SUBSET Codes]
        BY <1>11 DEF RenameChecker, CheckerTypeOK, Sees, Codes
    <2> QED
        BY <1>11, <2>2, <2>3 DEF RenameChecker, CheckerTypeOK
<1>12. ASSUME ResetCheckers PROVE CheckerTypeOK'
    BY <1>12 DEF ResetCheckers, CheckerTypeOK, NoBin
<1>13. ASSUME CheckerRestart PROVE CheckerTypeOK'
    BY <1>13 DEF CheckerRestart, CheckerTypeOK
<1>14. CASE UNCHANGED checkerVars
    BY <1>14 DEF checkerVars, CheckerTypeOK
<1> QED
    BY <1>1, <1>2, <1>4, <1>5, <1>6, <1>7, <1>8, <1>9, <1>10, <1>11, <1>12, <1>13, <1>14
    DEF CheckerNext

\* A step of an evaluation that leaves the attachments and the file alone.
LEMMA OnlyEvaluates ==
    ASSUME CheckerInv, NEW k \in Checkings,
           UNCHANGED <<time, source, checker, bin>>,
           \A j \in Checkings \ {k} : checking'[j] = checking[j] /\ current'[j] = current[j],
           checking'[k].step # "none" => Code \in current'[k],
           checking'[k].step \in {"data", "prepare"} /\ GoodBin /\ bin.modtime >= checking'[k].updated
             => bin.of \in current'[k],
           checking'[k].step = "run" /\ GoodBin => bin.of \in current'[k]
    PROVE  GoodOrOlder' /\ SeesCode' /\ SinceRead'
<1>1. Code' = Code /\ (GoodBin' <=> GoodBin)
    BY DEF Code, GoodBin
<1>2. GoodOrOlder' /\ SeesCode'
    BY <1>1 DEF CheckerInv, GoodOrOlder, SeesCode
<1>3. SinceRead'
    BY <1>1 DEF CheckerInv, SinceRead
<1> QED
    BY <1>2, <1>3

LEMMA CheckerStep ==
    ASSUME CheckerInv, [CheckerNext]_checkerVars
    PROVE  GoodOrOlder' /\ SeesCode' /\ SinceRead'
<1> USE RowsOfChecker DEF CheckerInv
<1>1. ASSUME NEW k \in Checkings, ReadMetadata(k) PROVE GoodOrOlder' /\ SeesCode' /\ SinceRead'
    <2>1. /\ checking'[k].step = "data" /\ checking'[k].updated = source[checker].updated
          /\ current'[k] = {Code}
          /\ \A j \in Checkings \ {k} : checking'[j] = checking[j] /\ current'[j] = current[j]
        BY <1>1 DEF ReadMetadata, CheckerTypeOK
    <2>2. GoodBin /\ bin.modtime >= source[checker].updated => bin.of = Code
        BY DEF GoodOrOlder, CheckerTypeOK
    <2> QED
        BY <1>1, <2>1, <2>2, OnlyEvaluates DEF ReadMetadata
<1>2. ASSUME NEW k \in Checkings, ReadCode(k) PROVE GoodOrOlder' /\ SeesCode' /\ SinceRead'
    <2>1. /\ checking'[k].step = "prepare" /\ checking'[k].updated = checking[k].updated
          /\ current' = current
          /\ \A j \in Checkings \ {k} : checking'[j] = checking[j]
        BY <1>2 DEF ReadCode, CheckerTypeOK
    <2> QED
        BY <1>2, <2>1, OnlyEvaluates DEF ReadCode, SeesCode, SinceRead
<1>3. ASSUME NEW k \in Checkings, Prepare(k) PROVE GoodOrOlder' /\ SeesCode' /\ SinceRead'
    <2>1. /\ checking'[k].step = IF ShouldCompile(k) THEN "lock" ELSE "run"
          /\ current' = current
          /\ \A j \in Checkings \ {k} : checking'[j] = checking[j]
        BY <1>3 DEF Prepare, CheckerTypeOK
    <2>2. ~ShouldCompile(k) => bin.modtime >= checking[k].updated
        BY DEF ShouldCompile, CheckerTypeOK
    <2> QED
        BY <1>3, <2>1, <2>2, OnlyEvaluates DEF Prepare, SeesCode, SinceRead
<1>4. ASSUME NEW k \in Checkings, Lock(k) PROVE GoodOrOlder' /\ SeesCode' /\ SinceRead'
    <2>1. /\ checking'[k].step = "compile" /\ current' = current
          /\ \A j \in Checkings \ {k} : checking'[j] = checking[j]
        BY <1>4 DEF Lock, CheckerTypeOK
    <2> QED
        BY <1>4, <2>1, OnlyEvaluates DEF Lock, SeesCode
<1>5. ASSUME NEW k \in Checkings, SaveBinary(k) PROVE GoodOrOlder' /\ SeesCode' /\ SinceRead'
    <2>1. ~GoodBin'
        BY <1>5 DEF SaveBinary, GoodBin
    <2>2. SeesCode'
        BY <1>5 DEF SaveBinary, SeesCode, CheckerTypeOK, Code
    <2> QED
        BY <2>1, <2>2 DEF GoodOrOlder, SinceRead
<1>6. ASSUME NEW k \in Checkings, FillBinary(k) PROVE GoodOrOlder' /\ SeesCode' /\ SinceRead'
    <2>1. GoodBin' => bin'.of = Code
        BY <1>6 DEF FillBinary, GoodBin, CheckerTypeOK
    <2>2. Code' = Code /\ current' = current
        BY <1>6 DEF FillBinary, Code
    <2>3. \A j \in Checkings : checking'[j].step # "none" => checking[j].step # "none"
        BY <1>6 DEF FillBinary, CheckerTypeOK
    <2>4. SeesCode'
        BY <2>2, <2>3 DEF SeesCode
    <2> QED
        BY <2>1, <2>2, <2>4 DEF GoodOrOlder, SeesCode, SinceRead
<1>7. ASSUME NEW k \in Checkings, CompilationFails(k) PROVE GoodOrOlder' /\ SeesCode' /\ SinceRead'
    <2>1. /\ checking'[k].step = "none" /\ current' = current
          /\ \A j \in Checkings \ {k} : checking'[j] = checking[j]
        BY <1>7 DEF CompilationFails, CheckerTypeOK, NotChecking
    <2> QED
        BY <1>7, <2>1, OnlyEvaluates DEF CompilationFails
<1>8. ASSUME NEW k \in Checkings, FinishChecking(k) PROVE GoodOrOlder' /\ SeesCode' /\ SinceRead'
    <2>1. /\ checking'[k].step = "none" /\ current' = current
          /\ \A j \in Checkings \ {k} : checking'[j] = checking[j]
        BY <1>8 DEF FinishChecking, CheckerTypeOK, NotChecking
    <2> QED
        BY <1>8, <2>1, OnlyEvaluates DEF FinishChecking
<1>9. ASSUME NEW a \in Sources, EditSource(a) PROVE GoodOrOlder' /\ SeesCode' /\ SinceRead'
    <2>1. /\ checking' = checking /\ checker' = checker /\ bin' = bin /\ (GoodBin' <=> GoodBin)
          /\ source'[a] = [code |-> <<a, time'>>, updated |-> time'] /\ time' = time + 1
          /\ \A b \in Sources \ {a} : source'[b] = source[b]
        BY <1>9 DEF EditSource, CheckerTypeOK, GoodBin
    <2>2. \A k \in Checkings : current[k] \subseteq current'[k]
        BY <1>9 DEF EditSource, Sees
    <2>3. SinceRead'
        BY <2>1, <2>2 DEF SinceRead
    <2>4. CASE a = checker
        <3>1. Code' = <<a, time'>> /\ source'[checker'].updated = time' /\ bin.modtime < time'
            BY <2>1, <2>4 DEF Code, CheckerTypeOK
        <3>2. \A k \in Checkings : Code' \in current'[k]
            BY <1>9, <2>4, <3>1 DEF EditSource, Sees
        <3> QED
            BY <2>1, <2>3, <3>1, <3>2 DEF GoodOrOlder, SeesCode
    <2>5. CASE a # checker
        <3>1. source'[checker'] = source[checker] /\ Code' = Code
            BY <2>1, <2>5 DEF CheckerTypeOK, Code
        <3> QED
            BY <2>1, <2>2, <2>3, <3>1 DEF GoodOrOlder, SeesCode
    <2> QED
        BY <2>4, <2>5
<1>10. ASSUME NEW a \in Sources, RenameChecker(a) PROVE GoodOrOlder' /\ SeesCode' /\ SinceRead'
    <2>1. Code' = source[a].code /\ checking' = checking
        BY <1>10 DEF RenameChecker, Code
    <2>2. GoodBin' => GoodBin /\ bin' = bin /\ bin.of = Code'
        BY <1>10, <2>1 DEF RenameChecker, GoodBin, CheckerTypeOK
    <2>3. \A k \in Checkings : Code' \in current'[k] /\ current[k] \subseteq current'[k]
        BY <1>10, <2>1 DEF RenameChecker, Sees
    <2> QED
        BY <2>1, <2>2, <2>3 DEF GoodOrOlder, SeesCode, SinceRead
<1>11. ASSUME ResetCheckers PROVE GoodOrOlder' /\ SeesCode' /\ SinceRead'
    BY <1>11 DEF ResetCheckers, GoodOrOlder, SeesCode, SinceRead, GoodBin, Code
<1>12. ASSUME CheckerRestart PROVE GoodOrOlder' /\ SeesCode' /\ SinceRead'
    BY <1>12 DEF CheckerRestart, GoodOrOlder, SeesCode, SinceRead, GoodBin, Code, NotChecking
<1>13. CASE UNCHANGED checkerVars
    BY <1>13 DEF checkerVars, GoodOrOlder, SeesCode, SinceRead, GoodBin, Code
<1> QED
    BY <1>1, <1>2, <1>3, <1>4, <1>5, <1>6, <1>7, <1>8, <1>9, <1>10, <1>11, <1>12, <1>13
    DEF CheckerNext

LEMMA CheckerInvariant == CheckerSpec => []CheckerInv
<1>1. CheckerInit => CheckerInv
    <2> SUFFICES ASSUME CheckerInit PROVE CheckerInv
        OBVIOUS
    <2>1. CheckerTypeOK
        BY DEF CheckerInit, CheckerTypeOK, Codes, Flaws, CheckingSteps, NoBin, NotChecking
    <2>2. GoodOrOlder /\ SeesCode /\ SinceRead
        BY DEF CheckerInit, GoodOrOlder, SeesCode, SinceRead, GoodBin, NotChecking
    <2> QED
        BY <2>1, <2>2 DEF CheckerInv
<1>2. CheckerInv /\ [CheckerNext]_checkerVars => CheckerInv'
    BY CheckerTypeStep, CheckerStep DEF CheckerInv
<1> QED
    BY <1>1, <1>2, PTL DEF CheckerSpec

\* However many evaluations run while the source is edited, renamed and replaced: each
\* uses a checker that was the problem's since it began, unless the file says why not.
THEOREM CheckersExplained == CheckerSpec => []CheckerExplained
<1>1. CheckerInv => CheckerExplained
    BY DEF CheckerInv, SinceRead, GoodBin, CheckerExplained
<1> QED
    BY <1>1, CheckerInvariant, PTL

-----------------------------------------------------------------------------
(* Test data. A file is missing only while the job that made the row is    *)
(* about to write it (MissingFiles, InputFirst); a file of a deleted test  *)
(* is one to be purged (LeftFiles), and a purge finds no test again,       *)
(* because ids are not drawn twice. An import that nobody disturbed has    *)
(* made all the tests there are (ImportSoFar).                             *)

JobKinds == {"none", "import", "create", "input", "delete", "subtask"}
JobSteps == {"none", "clear", "delete", "purge", "row", "input", "output", "drop", "subtask", "members"}

Moment(kind, step) ==
    \/ kind = "none" /\ step = "none"
    \/ kind = "import" /\ step \in JobSteps \ {"none", "delete"}
    \/ kind = "create" /\ step \in {"row", "input", "output"}
    \/ kind = "input" /\ step \in {"input", "output"}
    \/ kind = "delete" /\ step \in {"delete", "purge"}
    \/ kind = "subtask" /\ step \in {"subtask", "members"}

JobRow == [kind : JobKinds, step : JobSteps, test : Nat, todo : SUBSET Nat, made : SUBSET Nat,
           purge : SUBSET Nat]

TestTypeOK ==
    /\ lastTest \in Nat /\ lastTest <= MaxTests /\ lastSubtask \in Nat
    /\ Tests \subseteq 1..lastTest /\ vid \in [Tests -> Nat]
    /\ files \in [1..MaxTests -> SUBSET Both]
    /\ DOMAIN subtask \subseteq Nat /\ subtask \in [DOMAIN subtask -> SUBSET Nat]
    /\ job \in [Jobs -> JobRow]
    /\ touched \in BOOLEAN

\* There is a largest visible id, as NextVID finds it.
NumbersBounded == \E bound \in Nat : \A t \in Tests : vid[t] <= bound

AboutToInsert(row) == row.kind \in {"create", "import"} /\ row.step \in {"clear", "purge", "row"}

JobsInStep ==
    \A j \in Jobs :
        /\ Moment(job[j].kind, job[j].step)
        /\ job[j].kind = "none" => job[j] = NoJob
        /\ job[j].purge # {} => job[j].step = "purge"
        /\ job[j].purge \subseteq (1..lastTest) \ Tests
        /\ job[j].step = "delete" => job[j].test \in 1..lastTest
        /\ AboutToInsert(job[j]) => job[j].todo # {}

\* A job that made a row and is about to write its files.
Writes(j) == job[j].kind \in {"create", "import"} /\ job[j].step \in {"input", "output"}

MissingFiles ==
    \A t \in (1..MaxTests) \ halfway :
        t \in Tests /\ files[t] # Both => \E j \in Jobs : Writes(j) /\ job[j].test = t

InputFirst ==
    \A j \in Jobs :
        Writes(j) =>
            /\ job[j].test \in job[j].made
            /\ job[j].test \in 1..lastTest
            /\ job[j].step = "output" /\ job[j].test \in Tests \ halfway => "in" \in files[job[j].test]

LeftFiles ==
    \A t \in (1..MaxTests) \ halfway :
        t \notin Tests /\ files[t] # {} => \E j \in Jobs : t \in job[j].purge

FilesInv == TestTypeOK /\ NumbersBounded /\ JobsInStep /\ MissingFiles /\ InputFirst /\ LeftFiles

SoFar(j) ==
    job[j].kind = "import" =>
        /\ archiveLock = j
        /\ job[j].step = "clear" => job[j].todo \in Archives /\ job[j].made = {}
        /\ job[j].step # "clear" =>
             /\ imported = NoImport
             /\ ~touched =>
                  /\ Tests = job[j].made
                  /\ job[j].todo \cup {vid[t] : t \in Tests} \in Archives
                  /\ job[j].step \in {"drop", "subtask", "members"} => job[j].todo = {}
                  /\ job[j].step = "subtask" => DOMAIN subtask = {}
                  /\ job[j].step = "members" => DOMAIN subtask = {job[j].test}

ImportSoFar == \A j \in Jobs : SoFar(j)

ImportInv == FilesInv /\ ImportSoFar /\ ImportIsWhole

\* Every set of naturals that is not empty has a smallest member.
LEMMA SmallestMember ==
    ASSUME NEW S \in SUBSET Nat, S # {}
    PROVE  Smallest(S) \in S /\ \A y \in S : Smallest(S) <= y
<1>1. PICK x \in S : \A y \in S : ~(<<y, x>> \in OpToRel(<, Nat))
    BY NatLessThanWellFounded, WFMin
<1>2. ASSUME NEW y \in S PROVE x <= y
    <2>1. ~(y < x)
        BY <1>1 DEF OpToRel
    <2> QED
        BY <2>1
<1> QED
    BY <1>2 DEF Smallest

\* And a largest one, if it is bounded.
LEMMA LargestMember ==
    ASSUME NEW S \in SUBSET Nat, S # {}, NEW bound \in Nat, \A y \in S : y <= bound
    PROVE  \E x \in S : \A y \in S : y <= x
<1> DEFINE U == {u \in Nat : \A y \in S : y <= u}
           m == Smallest(U)
<1>1. m \in Nat /\ (\A y \in S : y <= m) /\ \A u \in U : m <= u
    <2>1. U \in SUBSET Nat /\ bound \in U
        OBVIOUS
    <2> QED
        BY <2>1, SmallestMember
<1> HIDE DEF m
<1>2. ASSUME m \notin S PROVE FALSE
    <2>1. \A y \in S : y <= m - 1
        BY <1>1, <1>2
    <2>2. m # 0
        <3> PICK y \in S : TRUE
            OBVIOUS
        <3>1. y \in Nat /\ y <= m /\ y # m
            BY <1>1, <1>2
        <3> QED
            BY <1>1, <3>1
    <2>3. m - 1 \in U
        BY <1>1, <2>1, <2>2
    <2> QED
        BY <1>1, <2>3
<1> QED
    BY <1>1, <1>2

LEMMA RowOfJob ==
    ASSUME TestTypeOK, JobsInStep, NEW j \in Jobs
    PROVE  /\ job[j] \in JobRow /\ NoJob \in JobRow
           /\ NoJob.kind = "none" /\ NoJob.step = "none" /\ NoJob.purge = {} /\ NoJob.made = {}
           /\ NoJob.todo = {} /\ NoJob.test = 0
           /\ Moment(job[j].kind, job[j].step)
BY DEF TestTypeOK, JobsInStep, NoJob, JobRow, JobKinds, JobSteps

\* One job goes on.
Moves(j, row) == row \in JobRow /\ job'[j] = row /\ \A i \in Jobs \ {j} : job'[i] = job[i]

LEMMA JobMoves ==
    ASSUME TestTypeOK, NEW j \in Jobs, NEW row \in JobRow, job' = [job EXCEPT ![j] = row]
    PROVE  Moves(j, row) /\ job' \in [Jobs -> JobRow]
BY DEF TestTypeOK, Moves

RowFits(row) ==
    /\ row \in JobRow /\ Moment(row.kind, row.step)
    /\ row.kind = "none" => row = NoJob
    /\ row.purge # {} => row.step = "purge"
    /\ row.step = "delete" => row.test \in 1..lastTest
    /\ AboutToInsert(row) => row.todo # {}

\* A step of a job that leaves the tests and the files alone, and that gives up files
\* to be written or purged only to history.
LEMMA FilesAlone ==
    ASSUME FilesInv, NEW j \in Jobs, NEW row, RowFits(row),
           UNCHANGED <<vid, files, lastTest>>,
           lastSubtask' \in Nat, DOMAIN subtask' \subseteq Nat,
           subtask' \in [DOMAIN subtask' -> SUBSET Nat], touched' \in BOOLEAN,
           job' = [job EXCEPT ![j] = row],
           halfway \subseteq halfway',
           row.purge = {}, job[j].purge \subseteq halfway',
           ~(row.kind \in {"create", "import"} /\ row.step \in {"input", "output"}),
           Writes(j) => job[j].test \in halfway'
    PROVE  FilesInv'
<1> USE DEF FilesInv
<1>1. row \in JobRow /\ Moves(j, row) /\ job' \in [Jobs -> JobRow]
    BY JobMoves DEF RowFits
<1>2. TestTypeOK' /\ NumbersBounded'
    BY <1>1 DEF TestTypeOK, NumbersBounded, Tests
<1>3. JobsInStep'
    BY <1>1 DEF JobsInStep, Moves, RowFits, Tests, Moment
<1>4. \A i \in Jobs : Writes(i)' => i # j /\ Writes(i)
    BY <1>1 DEF Writes, Moves
<1>5. \A i \in Jobs \ {j} : (Writes(i)' <=> Writes(i)) /\ job'[i] = job[i]
    BY <1>1 DEF Writes, Moves
<1>6. MissingFiles'
    <2> SUFFICES ASSUME NEW t \in (1..MaxTests) \ halfway', t \in Tests, files[t] # Both
                 PROVE  \E i \in Jobs : Writes(i)' /\ job'[i].test = t
        BY DEF MissingFiles, Tests
    <2>1. PICK i \in Jobs : Writes(i) /\ job[i].test = t
        BY DEF MissingFiles
    <2>2. i # j
        BY <2>1
    <2> QED
        BY <1>5, <2>1, <2>2
<1>7. InputFirst'
    BY <1>4, <1>5 DEF InputFirst, Tests
<1>8. LeftFiles'
    <2> SUFFICES ASSUME NEW t \in (1..MaxTests) \ halfway', t \notin Tests, files[t] # {}
                 PROVE  \E i \in Jobs : t \in job'[i].purge
        BY DEF LeftFiles, Tests
    <2>1. PICK i \in Jobs : t \in job[i].purge
        BY DEF LeftFiles
    <2>2. i # j
        BY <2>1
    <2> QED
        BY <1>5, <2>1, <2>2
<1> QED
    BY <1>2, <1>3, <1>6, <1>7, <1>8

\* Tests are deleted; a job will purge their files.
LEMMA TestsGo ==
    ASSUME FilesInv, NEW j \in Jobs, NEW row, RowFits(row), NEW S \in SUBSET (1..lastTest),
           vid' = Less(vid, S), subtask' = Forget(S),
           UNCHANGED <<files, lastTest, lastSubtask, halfway>>, touched' \in BOOLEAN,
           job' = [job EXCEPT ![j] = row],
           row.purge = S, job[j].step \in {"clear", "delete"},
           ~(row.kind \in {"create", "import"} /\ row.step \in {"input", "output"})
    PROVE  FilesInv'
<1> USE DEF FilesInv
<1>1. row \in JobRow /\ Moves(j, row) /\ job' \in [Jobs -> JobRow]
    BY JobMoves DEF RowFits
<1>2. Tests' = Tests \ S /\ \A t \in Tests' : vid'[t] = vid[t]
    <2>1. /\ DOMAIN Less(vid, S) = DOMAIN vid \ S
          /\ \A t \in DOMAIN vid \ S : Less(vid, S)[t] = vid[t]
        BY DEF Less
    <2> QED
        BY <2>1 DEF Tests
<1>3. DOMAIN subtask' = DOMAIN subtask /\ subtask' \in [DOMAIN subtask' -> SUBSET Nat]
    BY DEF Forget, TestTypeOK
<1>4. vid' \in [Tests' -> Nat]
    BY <1>2 DEF Less, Tests, TestTypeOK
<1>5. TestTypeOK' /\ NumbersBounded'
    BY <1>1, <1>2, <1>3, <1>4 DEF TestTypeOK, NumbersBounded
<1>6. job[j].purge = {} /\ ~Writes(j)
    BY DEF JobsInStep, Writes
<1>7. \A i \in Jobs \ {j} : (Writes(i)' <=> Writes(i)) /\ job'[i] = job[i]
    BY <1>1 DEF Writes, Moves
<1>8. ~Writes(j)'
    BY <1>1 DEF Writes, Moves
<1>9. JobsInStep'
    BY <1>1, <1>2, <1>7 DEF JobsInStep, Moves, RowFits
<1>10. MissingFiles' /\ InputFirst'
    BY <1>2, <1>6, <1>7, <1>8 DEF MissingFiles, InputFirst
<1>11. LeftFiles'
    <2> SUFFICES ASSUME NEW t \in (1..MaxTests) \ halfway, t \notin Tests', files[t] # {}
                 PROVE  \E i \in Jobs : t \in job'[i].purge
        BY DEF LeftFiles
    <2>1. CASE t \in S
        BY <1>1, <2>1 DEF Moves
    <2>2. CASE t \notin S
        <3>1. PICK i \in Jobs : t \in job[i].purge
            BY <1>2, <2>2 DEF LeftFiles
        <3>2. i # j
            BY <1>6, <3>1
        <3> QED
            BY <1>7, <3>1, <3>2
    <2> QED
        BY <2>1, <2>2
<1> QED
    BY <1>5, <1>9, <1>10, <1>11

\* What a purge does to its job.
LEMMA PurgeMoves ==
    ASSUME TestTypeOK, JobsInStep, NEW j \in Jobs, PurgeTestData(j)
    PROVE  \E t \in job[j].purge : \E left \in SUBSET files[t], row \in JobRow :
             /\ files' = [files EXCEPT ![t] = left]
             /\ halfway' = IF left = {} THEN halfway ELSE halfway \cup {t}
             /\ job' = [job EXCEPT ![j] = row] /\ row.purge = job[j].purge \ {t}
             /\ \/ /\ row = NoJob /\ job[j].kind # "import"
                   /\ archiveLock' = IF archiveLock = j THEN Unlocked ELSE archiveLock
                \/ /\ row.kind = job[j].kind /\ row.todo = job[j].todo /\ row.made = job[j].made
                   /\ \/ row.step = "purge"
                      \/ row.kind = "import" /\ row.step = "row" /\ row.purge = {}
                   /\ UNCHANGED archiveLock
<1> USE RowOfJob DEF JobRow
<1>4. PICK t \in job[j].purge : \E left \in SUBSET files[t] :
        /\ files' = [files EXCEPT ![t] = left]
        /\ halfway' = IF left = {} THEN halfway ELSE halfway \cup {t}
        /\ IF job[j].purge # {t}
             THEN job' = [job EXCEPT ![j].purge = @ \ {t}] /\ UNCHANGED archiveLock
             ELSE IF job[j].kind = "import"
               THEN job' = [job EXCEPT ![j].purge = {}, ![j].step = "row"] /\ UNCHANGED archiveLock
               ELSE Done(j)
    BY DEF PurgeTestData
<1> PICK left \in SUBSET files[t] :
        /\ files' = [files EXCEPT ![t] = left]
        /\ halfway' = IF left = {} THEN halfway ELSE halfway \cup {t}
        /\ IF job[j].purge # {t}
             THEN job' = [job EXCEPT ![j].purge = @ \ {t}] /\ UNCHANGED archiveLock
             ELSE IF job[j].kind = "import"
               THEN job' = [job EXCEPT ![j].purge = {}, ![j].step = "row"] /\ UNCHANGED archiveLock
               ELSE Done(j)
    BY <1>4
<1>0. At(j, "purge")
    BY DEF PurgeTestData
<1>1. CASE job[j].purge # {t}
    <2> DEFINE row == [job[j] EXCEPT !.purge = @ \ {t}]
    <2>1. row \in JobRow /\ row.purge = job[j].purge \ {t} /\ row.step = "purge"
          /\ row.kind = job[j].kind /\ row.todo = job[j].todo /\ row.made = job[j].made
        BY <1>0 DEF At
    <2>2. job' = [job EXCEPT ![j] = row]
        BY <1>1 DEF TestTypeOK
    <2> QED
        BY <1>1, <2>1, <2>2
<1>2. CASE job[j].purge = {t} /\ job[j].kind = "import"
    <2> DEFINE row == [job[j] EXCEPT !.purge = {}, !.step = "row"]
    <2>1. row \in JobRow /\ row.purge = job[j].purge \ {t} /\ row.step = "row"
          /\ row.kind = job[j].kind /\ row.todo = job[j].todo /\ row.made = job[j].made
        BY <1>2 DEF JobSteps
    <2>2. job' = [job EXCEPT ![j] = row]
        BY <1>2 DEF TestTypeOK
    <2> QED
        BY <1>2, <2>1, <2>2
<1>3. CASE job[j].purge = {t} /\ job[j].kind # "import"
    BY <1>3 DEF Done
<1> QED
    BY <1>1, <1>2, <1>3

LEMMA PurgeFiles ==
    ASSUME FilesInv, NEW j \in Jobs, PurgeTestData(j)
    PROVE  FilesInv'
<1> USE DEF FilesInv
<1>1. PICK t \in job[j].purge : \E left \in SUBSET files[t], row \in JobRow :
             /\ files' = [files EXCEPT ![t] = left]
             /\ halfway' = IF left = {} THEN halfway ELSE halfway \cup {t}
             /\ job' = [job EXCEPT ![j] = row] /\ row.purge = job[j].purge \ {t}
             /\ \/ /\ row = NoJob /\ job[j].kind # "import"
                   /\ archiveLock' = IF archiveLock = j THEN Unlocked ELSE archiveLock
                \/ /\ row.kind = job[j].kind /\ row.todo = job[j].todo /\ row.made = job[j].made
                   /\ \/ row.step = "purge"
                      \/ row.kind = "import" /\ row.step = "row" /\ row.purge = {}
                   /\ UNCHANGED archiveLock
    BY PurgeMoves
<1>2. PICK left \in SUBSET files[t], row \in JobRow :
             /\ files' = [files EXCEPT ![t] = left]
             /\ halfway' = IF left = {} THEN halfway ELSE halfway \cup {t}
             /\ job' = [job EXCEPT ![j] = row] /\ row.purge = job[j].purge \ {t}
             /\ \/ row = NoJob
                \/ /\ row.kind = job[j].kind /\ row.todo = job[j].todo
                   /\ \/ row.step = "purge"
                      \/ row.kind = "import" /\ row.step = "row" /\ row.purge = {}
    BY <1>1
<1>3. Moves(j, row) /\ job' \in [Jobs -> JobRow]
    BY <1>2, JobMoves
<1>4. /\ job[j].step = "purge" /\ job[j].kind \in {"import", "delete"} /\ ~Writes(j) /\ ~Writes(j)'
      /\ UNCHANGED <<vid, subtask, lastTest, lastSubtask, imported, touched>>
    <2>1. job[j].step = "purge" /\ Moment(job[j].kind, job[j].step)
        BY RowOfJob DEF PurgeTestData, At
    <2> QED
        BY <1>2, <1>3, <2>1, RowOfJob DEF PurgeTestData, Moment, Writes, Moves
<1>5. \A i \in Jobs \ {j} : (Writes(i)' <=> Writes(i)) /\ job'[i] = job[i]
    BY <1>3 DEF Writes, Moves
<1>6. files' \in [1..MaxTests -> SUBSET Both]
    BY <1>2 DEF TestTypeOK, Both
<1>14. halfway \subseteq halfway'
    BY <1>2
<1>7. TestTypeOK' /\ NumbersBounded'
    BY <1>3, <1>4, <1>6, <1>14 DEF TestTypeOK, NumbersBounded, Tests
<1>8. RowFits(row)
    <2>1. job[j].kind = "import" => job[j].todo # {}
        BY <1>4 DEF JobsInStep, AboutToInsert
    <2>2. AboutToInsert(row) => row.todo # {}
        BY <1>2, <1>4, <2>1, RowOfJob DEF AboutToInsert
    <2> QED
        BY <1>2, <1>4, <2>2, RowOfJob DEF RowFits, Moment, JobSteps
<1>9. JobsInStep'
    BY <1>2, <1>3, <1>4, <1>5, <1>8, <1>14 DEF JobsInStep, Moves, RowFits, Tests
<1>10. t \notin Tests
    BY DEF JobsInStep
<1>11. \A u \in 1..MaxTests : u # t => files'[u] = files[u]
    BY <1>2 DEF TestTypeOK
<1>12. MissingFiles' /\ InputFirst'
    <2>1. MissingFiles'
        BY <1>4, <1>5, <1>10, <1>11, <1>14 DEF MissingFiles, Tests
    <2>2. InputFirst'
        <3>1. \A u \in Tests : files'[u] = files[u]
            BY <1>2, <1>10 DEF TestTypeOK
        <3> QED
            BY <1>4, <1>5, <1>14, <3>1 DEF InputFirst, Tests
    <2> QED
        BY <2>1, <2>2
<1>13. LeftFiles'
    <2> SUFFICES ASSUME NEW u \in (1..MaxTests) \ halfway', u \notin Tests, files'[u] # {}
                 PROVE  \E i \in Jobs : u \in job'[i].purge
        BY <1>4 DEF LeftFiles, Tests
    <2>1. u # t /\ files'[u] = files[u] /\ u \notin halfway
        BY <1>2, <1>11, <1>14 DEF TestTypeOK
    <2>2. PICK i \in Jobs : u \in job[i].purge
        BY <2>1 DEF LeftFiles
    <2> QED
        BY <1>2, <1>3, <1>5, <2>1, <2>2 DEF Moves
<1> QED
    BY <1>7, <1>9, <1>12, <1>13

\* What an insertion does.
LEMMA CreateMoves ==
    ASSUME TestTypeOK, JobsInStep, NEW j \in Jobs, CreateTest(j)
    PROVE  \E row \in JobRow, v \in job[j].todo :
             LET t == lastTest + 1 IN
             /\ job' = [job EXCEPT ![j] = row]
             /\ row.kind = job[j].kind /\ row.step = "input" /\ row.test = t
             /\ row.made = job[j].made \cup {t} /\ row.todo = job[j].todo \ {v} /\ row.purge = {}
             /\ Tests' = Tests \cup {t} /\ t \notin Tests
             /\ vid' \in [Tests' -> Nat] /\ vid'[t] = v /\ \A x \in Tests : vid'[x] = vid[x]
<1> DEFINE v == Smallest(job[j].todo)
           t == lastTest + 1
           row == [job[j] EXCEPT !.test = t, !.step = "input", !.made = @ \cup {t}, !.todo = @ \ {v}]
<1>1. job[j] \in JobRow /\ At(j, "row") /\ lastTest \in Nat /\ t \in Nat /\ job[j].purge = {}
    BY RowOfJob DEF CreateTest, TestTypeOK, JobsInStep, At
<1>2. v \in job[j].todo /\ v \in Nat
    <2>1. job[j].todo # {}
        BY <1>1, RowOfJob DEF JobsInStep, AboutToInsert, At, Moment
    <2> QED
        BY <1>1, <2>1, SmallestMember DEF JobRow
<1> HIDE DEF v
<1>3. /\ row \in JobRow /\ row.kind = job[j].kind /\ row.step = "input" /\ row.test = t
      /\ row.made = job[j].made \cup {t} /\ row.todo = job[j].todo \ {v} /\ row.purge = {}
    BY <1>1 DEF JobRow, JobSteps
<1>4. job' = [job EXCEPT ![j] = row]
    BY DEF CreateTest, TestTypeOK, v
<1>5. t \notin Tests
    BY <1>1 DEF TestTypeOK
<1>6. vid' = More(vid, t, v)
    BY DEF CreateTest, v
<1>7. Tests' = Tests \cup {t} /\ vid'[t] = v /\ \A x \in Tests : vid'[x] = vid[x]
    BY <1>5, <1>6 DEF More, Tests
<1>8. vid' \in [Tests' -> Nat]
    BY <1>2, <1>6, <1>7 DEF More, Tests, TestTypeOK
<1> HIDE DEF row, t
<1> QED
    BY <1>2, <1>3, <1>4, <1>5, <1>7, <1>8 DEF t

LEMMA CreateFiles ==
    ASSUME FilesInv, NEW j \in Jobs, CreateTest(j)
    PROVE  FilesInv'
<1> USE DEF FilesInv
<1> DEFINE t == lastTest + 1
<1>1. PICK row \in JobRow, v \in job[j].todo :
             /\ job' = [job EXCEPT ![j] = row]
             /\ row.kind = job[j].kind /\ row.step = "input" /\ row.test = t
             /\ row.made = job[j].made \cup {t} /\ row.purge = {}
             /\ Tests' = Tests \cup {t} /\ t \notin Tests
             /\ vid' \in [Tests' -> Nat] /\ vid'[t] = v /\ \A x \in Tests : vid'[x] = vid[x]
    BY CreateMoves
<1>2. Moves(j, row) /\ job' \in [Jobs -> JobRow]
    BY <1>1, JobMoves
<1>3. /\ job[j].step = "row" /\ lastTest' = t /\ job[j].purge = {} /\ touched' \in BOOLEAN
      /\ UNCHANGED <<files, subtask, lastSubtask, archiveLock, halfway, imported>>
    BY DEF CreateTest, At, Others, JobsInStep, TestTypeOK
<1>4. job[j].kind \in {"create", "import"}
    BY <1>3, RowOfJob DEF Moment
<1>5. lastTest \in Nat /\ t \in Nat /\ 1..lastTest \subseteq 1..t /\ t \in 1..t /\ t \notin 1..lastTest
    BY DEF TestTypeOK
<1> HIDE DEF t
<1>6. TestTypeOK'
    <2>1. lastTest' <= MaxTests
        BY TestDataAssumption DEF CreateTest, TestTypeOK, TestDataAssumption
    <2> QED
        BY <1>1, <1>2, <1>3, <1>5, <2>1 DEF TestTypeOK
<1>7. NumbersBounded'
    <2> PICK bound \in Nat : \A x \in Tests : vid[x] <= bound
        BY DEF NumbersBounded
    <2>1. v \in Nat
        BY RowOfJob DEF JobRow
    <2>2. \E b \in Nat : bound <= b /\ v <= b
        BY <2>1
    <2> PICK b \in Nat : bound <= b /\ v <= b
        BY <2>2
    <2>3. \A x \in Tests : vid[x] \in Nat
        BY DEF TestTypeOK
    <2>4. \A x \in Tests' : vid'[x] <= b
        BY <1>1, <2>3
    <2> QED
        BY <2>4 DEF NumbersBounded
<1>8. \A i \in Jobs \ {j} : (Writes(i)' <=> Writes(i)) /\ job'[i] = job[i]
    BY <1>2 DEF Writes, Moves
<1>9. Writes(j)' /\ ~Writes(j) /\ job'[j].test = t
    BY <1>1, <1>2, <1>3, <1>4 DEF Writes, Moves
<1>10. JobsInStep'
    <2>1. Moment(row.kind, row.step) /\ ~AboutToInsert(row) /\ row.kind # "none"
        <3>1. row.kind \in {"create", "import"} /\ row.step = "input"
            BY <1>1, <1>4
        <3> QED
            BY <3>1 DEF Moment, AboutToInsert, JobSteps
    <2>2. \A i \in Jobs \ {j} : job[i].purge \subseteq (1..t) \ Tests' /\ job[i].purge \subseteq (1..lastTest)
        BY <1>1, <1>5 DEF JobsInStep
    <2> QED
        BY <1>1, <1>2, <1>3, <1>5, <2>1, <2>2 DEF JobsInStep, Moves
<1>11. MissingFiles'
    BY <1>1, <1>3, <1>8, <1>9 DEF MissingFiles
<1>12. InputFirst'
    <2>1. ASSUME NEW i \in Jobs \ {j}, Writes(i)'
          PROVE  /\ job'[i].test \in job'[i].made /\ job'[i].test \in 1..t
                 /\ job'[i].step = "output" /\ job'[i].test \in Tests' \ halfway => "in" \in files[job'[i].test]
        <3>1. job[i].test # t
            BY <1>5, <1>8, <2>1 DEF InputFirst
        <3> QED
            BY <1>1, <1>5, <1>8, <2>1, <3>1 DEF InputFirst
    <2>2. job'[j].test \in job'[j].made /\ job'[j].test \in 1..t /\ job'[j].step # "output"
        BY <1>1, <1>2, <1>5 DEF Moves
    <2> QED
        BY <1>3, <2>1, <2>2 DEF InputFirst
<1>13. LeftFiles'
    BY <1>1, <1>3, <1>8 DEF LeftFiles
<1> QED
    BY <1>6, <1>7, <1>10, <1>11, <1>12, <1>13

\* A file is written: the first of a row, or the last, or one of a test that has both.
LEMMA SaveFiles ==
    ASSUME FilesInv, NEW j \in Jobs, NEW suffix \in Both, NEW row, RowFits(row),
           Saves(j, suffix), job' = [job EXCEPT ![j] = row],
           UNCHANGED <<vid, subtask, lastTest, lastSubtask, touched>>,
           job[j].step \in {"input", "output"}, row.purge = {},
           \/ /\ suffix = "in" /\ row.kind = job[j].kind /\ row.step = "output"
              /\ row.test = job[j].test /\ row.made = job[j].made
           \/ /\ suffix = "out" /\ job[j].step = "output"
              /\ ~(row.kind \in {"create", "import"} /\ row.step \in {"input", "output"})
    PROVE  FilesInv'
<1> USE DEF FilesInv
<1> DEFINE t == job[j].test
<1>1. /\ files' = [files EXCEPT ![t] = @ \cup {suffix}]
      /\ halfway \subseteq halfway' /\ (t \notin Tests => t \in halfway') /\ Tests' = Tests
      /\ halfway' \subseteq halfway \cup {t} /\ (t \in Tests => halfway' = halfway)
    BY DEF Saves, Tests
<1>2. row \in JobRow /\ Moves(j, row) /\ job' \in [Jobs -> JobRow] /\ job[j].purge = {}
    BY JobMoves DEF RowFits, JobsInStep
<1>3. files' \in [1..MaxTests -> SUBSET Both]
    BY <1>1 DEF TestTypeOK
<1>4. TestTypeOK' /\ NumbersBounded'
    BY <1>1, <1>2, <1>3 DEF TestTypeOK, NumbersBounded
<1>5. \A i \in Jobs \ {j} : (Writes(i)' <=> Writes(i)) /\ job'[i] = job[i]
    BY <1>2 DEF Writes, Moves
<1>6. JobsInStep'
    BY <1>1, <1>2, <1>5 DEF JobsInStep, Moves, RowFits
<1>7. \A u \in 1..MaxTests : /\ files[u] \subseteq files'[u] /\ files'[u] \subseteq Both
                             /\ u # t => files'[u] = files[u]
    BY <1>1, <1>3 DEF TestTypeOK
<1>8. t \in 1..MaxTests => files'[t] = files[t] \cup {suffix}
    BY <1>1 DEF TestTypeOK
<1>9. Tests \subseteq 1..lastTest
    BY DEF TestTypeOK
<1>10. MissingFiles'
    <2> SUFFICES ASSUME NEW u \in (1..MaxTests) \ halfway', u \in Tests, files'[u] # Both
                 PROVE  \E i \in Jobs : Writes(i)' /\ job'[i].test = u
        BY <1>1 DEF MissingFiles
    <2>1. files[u] # Both /\ u \notin halfway
        BY <1>1, <1>7
    <2>2. PICK i \in Jobs : Writes(i) /\ job[i].test = u
        BY <2>1 DEF MissingFiles
    <2>3. CASE i # j
        BY <1>5, <2>2, <2>3
    <2>4. CASE i = j /\ suffix = "in"
        <3>1. Writes(j)' /\ job'[j].test = u
            BY <1>2, <2>2, <2>4 DEF Writes, Moves
        <3> QED
            BY <3>1
    <2>5. CASE i = j /\ suffix = "out"
        <3>1. u = t /\ "in" \in files[t]
            BY <2>1, <2>2, <2>5 DEF InputFirst
        <3>2. files'[t] = Both
            BY <1>8, <1>7, <2>5, <3>1 DEF Both
        <3> QED
            BY <3>1, <3>2
    <2> QED
        BY <2>3, <2>4, <2>5 DEF Both
<1>11. InputFirst'
    <2>1. ASSUME NEW i \in Jobs \ {j}, Writes(i)'
          PROVE  /\ job'[i].test \in job'[i].made /\ job'[i].test \in 1..lastTest
                 /\ job'[i].step = "output" /\ job'[i].test \in Tests \ halfway'
                      => "in" \in files'[job'[i].test]
        <3>1. /\ job[i].test \in job[i].made /\ job[i].test \in 1..lastTest
              /\ job[i].step = "output" /\ job[i].test \in Tests \ halfway
                   => "in" \in files[job[i].test]
            BY <1>5, <2>1 DEF InputFirst
        <3>2. "in" \in files[job[i].test] => "in" \in files'[job[i].test]
            BY <1>1 DEF TestTypeOK
        <3> QED
            BY <1>1, <1>5, <3>1, <3>2
    <2>2. ASSUME Writes(j)'
          PROVE  /\ job'[j].test \in job'[j].made /\ job'[j].test \in 1..lastTest
                 /\ job'[j].step = "output" /\ job'[j].test \in Tests \ halfway'
                      => "in" \in files'[job'[j].test]
        <3>1. suffix = "in" /\ row.test = t /\ row.made = job[j].made /\ Writes(j)
            BY <1>2, <2>2 DEF Writes, Moves
        <3>2. t \in job[j].made /\ t \in 1..lastTest
            BY <3>1 DEF InputFirst
        <3>3. t \in 1..MaxTests
            BY <3>2, TestDataAssumption DEF TestTypeOK, TestDataAssumption
        <3>4. "in" \in files'[t]
            BY <1>8, <3>1, <3>3
        <3> QED
            BY <1>2, <3>1, <3>2, <3>4 DEF Moves
    <2> QED
        BY <1>1, <2>1, <2>2 DEF InputFirst
<1>12. LeftFiles'
    <2> SUFFICES ASSUME NEW u \in (1..MaxTests) \ halfway', u \notin Tests, files'[u] # {}
                 PROVE  \E i \in Jobs : u \in job'[i].purge
        BY <1>1 DEF LeftFiles
    <2>1. u # t /\ files[u] # {} /\ u \notin halfway
        BY <1>1, <1>7
    <2>2. PICK i \in Jobs : u \in job[i].purge
        BY <2>1 DEF LeftFiles
    <2>3. i # j
        BY <1>2, <2>2
    <2> QED
        BY <1>5, <2>2, <2>3
<1> QED
    BY <1>4, <1>6, <1>10, <1>11, <1>12

\* Nothing is lost when a job starts.
LEMMA StartFiles ==
    ASSUME FilesInv, NEW j \in Jobs, job[j] = NoJob, NEW row, RowFits(row), row.purge = {},
           job' = [job EXCEPT ![j] = row],
           ~(row.kind \in {"create", "import"} /\ row.step \in {"input", "output"}),
           UNCHANGED <<vid, files, subtask, lastTest, lastSubtask, halfway, touched>>
    PROVE  FilesInv'
<1>1. /\ lastSubtask \in Nat /\ DOMAIN subtask \subseteq Nat /\ touched \in BOOLEAN
      /\ subtask \in [DOMAIN subtask -> SUBSET Nat]
    BY DEF FilesInv, TestTypeOK
<1>2. job[j].purge = {} /\ ~Writes(j)
    BY DEF NoJob, Writes
<1> QED
    BY <1>1, <1>2, FilesAlone

\* The visible id of NextVID is a number.
LEMMA NextVid ==
    ASSUME FilesInv, Tests # {}
    PROVE  (CHOOSE v \in {vid[t] : t \in Tests} : \A t \in Tests : vid[t] <= v) \in Nat
<1> DEFINE S == {vid[t] : t \in Tests}
<1>1. S \in SUBSET Nat /\ S # {}
    BY DEF FilesInv, TestTypeOK
<1>2. PICK bound \in Nat : \A t \in Tests : vid[t] <= bound
    BY DEF FilesInv, NumbersBounded
<1>3. \A y \in S : y <= bound
    BY <1>2
<1> HIDE DEF S
<1>4. \E x \in S : \A y \in S : y <= x
    BY <1>1, <1>3, LargestMember
<1>5. \E x \in S : \A t \in Tests : vid[t] <= x
    BY <1>4 DEF S
<1> QED
    BY <1>1, <1>5 DEF S

LEMMA FilesStep ==
    ASSUME FilesInv, [TestDataNext]_testVars
    PROVE  FilesInv'
<1> USE DEF FilesInv
<1>1. ASSUME NEW j \in Jobs, NEW vids \in Archives, StartImport(j, vids) PROVE FilesInv'
    <2> DEFINE row == [NoJob EXCEPT !.kind = "import", !.step = "clear", !.todo = vids]
    <2>1. vids \in SUBSET Nat /\ vids # {}
        BY TestDataAssumption DEF TestDataAssumption
    <2>2. /\ row \in JobRow /\ row.kind = "import" /\ row.step = "clear" /\ row.todo = vids
          /\ row.purge = {}
        BY <2>1 DEF NoJob, JobRow, JobKinds, JobSteps
    <2>3. RowFits(row)
        BY <2>1, <2>2 DEF RowFits, Moment, JobSteps, AboutToInsert
    <2>4. job[j] = NoJob /\ job' = [job EXCEPT ![j] = row]
          /\ UNCHANGED <<vid, files, subtask, lastTest, lastSubtask, halfway, touched>>
        BY <1>1 DEF StartImport
    <2> HIDE DEF row
    <2> QED
        BY <2>2, <2>3, <2>4, StartFiles
<1>2. ASSUME NEW j \in Jobs, StartCreate(j) PROVE FilesInv'
    <2>1. PICK next \in Nat :
              job' = [job EXCEPT ![j] = [NoJob EXCEPT !.kind = "create", !.step = "row", !.todo = {next}]]
        <3>1. CASE Tests = {}
            BY <1>2, <3>1 DEF StartCreate
        <3>2. CASE Tests # {}
            <4> DEFINE v == CHOOSE v \in {vid[t] : t \in Tests} : \A t \in Tests : vid[t] <= v
            <4>1. v \in Nat
                BY <3>2, NextVid
            <4>2. job' = [job EXCEPT ![j] =
                            [NoJob EXCEPT !.kind = "create", !.step = "row", !.todo = {1 + v}]]
                BY <1>2, <3>2 DEF StartCreate
            <4> HIDE DEF v
            <4>3. 1 + v \in Nat
                BY <4>1
            <4> QED
                BY <4>2, <4>3
        <3> QED
            BY <3>1, <3>2
    <2> DEFINE row == [NoJob EXCEPT !.kind = "create", !.step = "row", !.todo = {next}]
    <2>2. /\ row \in JobRow /\ row.kind = "create" /\ row.step = "row" /\ row.todo = {next}
          /\ row.purge = {}
        BY DEF NoJob, JobRow, JobKinds, JobSteps
    <2>3. RowFits(row)
        BY <2>2 DEF RowFits, Moment, JobSteps, AboutToInsert
    <2>4. job[j] = NoJob /\ job' = [job EXCEPT ![j] = row]
          /\ UNCHANGED <<vid, files, subtask, lastTest, lastSubtask, halfway, touched>>
        BY <1>2, <2>1 DEF StartCreate
    <2> HIDE DEF row
    <2> QED
        BY <2>2, <2>3, <2>4, StartFiles
<1>3. ASSUME NEW j \in Jobs, NEW t \in 1..MaxTests, NEW what \in {"input", "delete"}, StartOn(j, t, what)
      PROVE  FilesInv'
    <2> DEFINE row == [NoJob EXCEPT !.kind = what, !.step = what, !.test = t]
    <2>1. t \in Tests /\ t \in 1..lastTest /\ t \in Nat
        BY <1>3 DEF StartOn, TestTypeOK
    <2>2. /\ row \in JobRow /\ row.kind = what /\ row.step = what /\ row.test = t
          /\ row.purge = {}
        BY <2>1 DEF NoJob, JobRow, JobKinds, JobSteps
    <2>3. RowFits(row)
        BY <2>1, <2>2 DEF RowFits, Moment, JobSteps, AboutToInsert
    <2>4. job[j] = NoJob /\ job' = [job EXCEPT ![j] = row]
          /\ UNCHANGED <<vid, files, subtask, lastTest, lastSubtask, halfway, touched>>
        BY <1>3 DEF StartOn
    <2> HIDE DEF row
    <2> QED
        BY <2>2, <2>3, <2>4, StartFiles
<1>4. ASSUME NEW j \in Jobs, NEW ts \in SUBSET Tests, StartSubtask(j, ts) PROVE FilesInv'
    <2> DEFINE row == [NoJob EXCEPT !.kind = "subtask", !.step = "subtask", !.made = ts]
    <2>1. ts \in SUBSET Nat
        BY DEF TestTypeOK
    <2>2. /\ row \in JobRow /\ row.kind = "subtask" /\ row.step = "subtask" /\ row.purge = {}
        BY <2>1 DEF NoJob, JobRow, JobKinds, JobSteps
    <2>3. RowFits(row)
        BY <2>2 DEF RowFits, Moment, JobSteps, AboutToInsert
    <2>4. job[j] = NoJob /\ job' = [job EXCEPT ![j] = row]
          /\ UNCHANGED <<vid, files, subtask, lastTest, lastSubtask, halfway, touched>>
        BY <1>4 DEF StartSubtask
    <2> HIDE DEF row
    <2> QED
        BY <2>2, <2>3, <2>4, StartFiles
<1>5. ASSUME NEW j \in Jobs, DeleteTests(j) PROVE FilesInv'
    <2> DEFINE row == [job[j] EXCEPT !.purge = Tests, !.step = IF Tests = {} THEN "row" ELSE "purge"]
    <2>1. job[j] \in JobRow /\ job[j].step = "clear" /\ job[j].kind = "import" /\ job[j].todo # {}
        BY <1>5, RowOfJob DEF DeleteTests, At, Moment, JobSteps, JobsInStep, AboutToInsert
    <2>2. /\ row \in JobRow /\ row.kind = "import" /\ row.todo = job[j].todo /\ row.purge = Tests
          /\ row.step = IF Tests = {} THEN "row" ELSE "purge"
        <3> DEFINE step == IF Tests = {} THEN "row" ELSE "purge"
        <3>1. step \in JobSteps /\ Tests \in SUBSET Nat
            BY DEF JobSteps, TestTypeOK
        <3>2. row = [job[j] EXCEPT !.purge = Tests, !.step = step]
            OBVIOUS
        <3> HIDE DEF step, row
        <3>3. /\ row \in JobRow /\ row.kind = job[j].kind /\ row.todo = job[j].todo
              /\ row.purge = Tests /\ row.step = step
            BY <2>1, <3>1, <3>2 DEF JobRow
        <3> QED
            BY <2>1, <3>3 DEF step
    <2>3. RowFits(row)
        BY <2>1, <2>2 DEF RowFits, Moment, JobSteps
    <2>4. job' = [job EXCEPT ![j] = row]
        BY <1>5 DEF DeleteTests, TestTypeOK
    <2>5. /\ vid' = Less(vid, Tests) /\ subtask' = Forget(Tests) /\ touched' \in BOOLEAN
          /\ UNCHANGED <<files, lastTest, lastSubtask, halfway>>
        BY <1>5 DEF DeleteTests
    <2>6. Tests \in SUBSET (1..lastTest)
        BY DEF TestTypeOK
    <2> HIDE DEF row
    <2> QED
        BY <2>1, <2>2, <2>3, <2>4, <2>5, <2>6, TestsGo
<1>6. ASSUME NEW j \in Jobs, DeleteTest(j) PROVE FilesInv'
    <2> DEFINE S == {job[j].test}
               row == [job[j] EXCEPT !.purge = S, !.step = "purge"]
    <2>1. job[j] \in JobRow /\ job[j].step = "delete" /\ job[j].kind = "delete" /\ S \in SUBSET (1..lastTest)
        BY <1>6, RowOfJob DEF DeleteTest, At, Moment, JobSteps, JobsInStep
    <2>2. row \in JobRow /\ row.kind = "delete" /\ row.purge = S /\ row.step = "purge"
        BY <2>1 DEF JobRow, JobSteps
    <2>3. RowFits(row)
        BY <2>1, <2>2 DEF RowFits, Moment, JobSteps, AboutToInsert
    <2>4. job' = [job EXCEPT ![j] = row]
        BY <1>6 DEF DeleteTest, TestTypeOK
    <2>5. /\ vid' = Less(vid, S) /\ subtask' = Forget(S) /\ touched' \in BOOLEAN
          /\ UNCHANGED <<files, lastTest, lastSubtask, halfway>>
        BY <1>6 DEF DeleteTest, Others
    <2> HIDE DEF row, S
    <2> QED
        BY <2>1, <2>2, <2>3, <2>4, <2>5, TestsGo
<1>7. ASSUME NEW j \in Jobs, PurgeTestData(j) PROVE FilesInv'
    BY <1>7, PurgeFiles
<1>8. ASSUME NEW j \in Jobs, CreateTest(j) PROVE FilesInv'
    BY <1>8, CreateFiles
<1>9. ASSUME NEW j \in Jobs, SaveTestInput(j) PROVE FilesInv'
    <2> DEFINE row == [job[j] EXCEPT !.step = "output"]
    <2>1. /\ job[j] \in JobRow /\ job[j].step = "input" /\ job[j].kind \in {"import", "create", "input"}
          /\ job[j].purge = {}
        BY <1>9, RowOfJob DEF SaveTestInput, At, Moment, JobSteps, JobsInStep
    <2>2. /\ row \in JobRow /\ row.kind = job[j].kind /\ row.step = "output" /\ row.test = job[j].test
          /\ row.made = job[j].made /\ row.purge = {}
        BY <2>1 DEF JobRow, JobSteps
    <2>3. RowFits(row)
        BY <2>1, <2>2 DEF RowFits, Moment, JobSteps, AboutToInsert
    <2>4. job' = [job EXCEPT ![j] = row] /\ Saves(j, "in") /\ "in" \in Both
          /\ UNCHANGED <<vid, subtask, lastTest, lastSubtask, touched>>
        BY <1>9 DEF SaveTestInput, Goes, TestTypeOK, Both
    <2> HIDE DEF row
    <2> QED
        BY <2>1, <2>2, <2>3, <2>4, SaveFiles
<1>10. ASSUME NEW j \in Jobs, SaveTestOutput(j) PROVE FilesInv'
    <2>1. /\ job[j] \in JobRow /\ job[j].step = "output" /\ job[j].kind \in {"import", "create", "input"}
          /\ job[j].purge = {}
        BY <1>10, RowOfJob DEF SaveTestOutput, At, Moment, JobSteps, JobsInStep
    <2>2. Saves(j, "out") /\ "out" \in Both /\ UNCHANGED <<vid, subtask, lastTest, lastSubtask, touched>>
        BY <1>10 DEF SaveTestOutput, Both
    <2>3. CASE job[j].kind # "import"
        <3>1. job' = [job EXCEPT ![j] = NoJob]
            BY <1>10, <2>3 DEF SaveTestOutput, Done
        <3>2. RowFits(NoJob) /\ NoJob.kind = "none" /\ NoJob.purge = {}
            BY RowOfJob DEF RowFits, Moment, AboutToInsert
        <3> QED
            BY <2>1, <2>2, <3>1, <3>2, SaveFiles
    <2>4. CASE job[j].kind = "import"
        <3> DEFINE row == [job[j] EXCEPT !.step = IF job[j].todo = {} THEN "drop" ELSE "row"]
        <3>1. /\ row \in JobRow /\ row.kind = "import" /\ row.purge = {} /\ row.todo = job[j].todo
              /\ row.step = IF job[j].todo = {} THEN "drop" ELSE "row"
            BY <2>1, <2>4 DEF JobRow, JobSteps
        <3>2. RowFits(row)
            BY <3>1 DEF RowFits, Moment, JobSteps, AboutToInsert
        <3>3. job' = [job EXCEPT ![j] = row]
            BY <1>10, <2>4 DEF SaveTestOutput, Goes, TestTypeOK
        <3> HIDE DEF row
        <3> QED
            BY <2>1, <2>2, <3>1, <3>2, <3>3, SaveFiles
    <2> QED
        BY <2>3, <2>4
<1>11. ASSUME NEW j \in Jobs, DeleteSubTasks(j) PROVE FilesInv'
    <2> DEFINE row == [job[j] EXCEPT !.step = "subtask"]
    <2>1. job[j] \in JobRow /\ job[j].step = "drop" /\ job[j].kind = "import" /\ job[j].purge = {} /\ ~Writes(j)
        BY <1>11, RowOfJob DEF DeleteSubTasks, At, Moment, JobSteps, JobsInStep, Writes
    <2>2. row \in JobRow /\ row.kind = "import" /\ row.step = "subtask" /\ row.purge = {}
        BY <2>1 DEF JobRow, JobSteps
    <2>3. RowFits(row)
        BY <2>2 DEF RowFits, Moment, JobSteps, AboutToInsert
    <2>4. job' = [job EXCEPT ![j] = row]
        BY <1>11 DEF DeleteSubTasks, Goes, TestTypeOK
    <2>5. /\ DOMAIN subtask' = {} /\ subtask' \in [DOMAIN subtask' -> SUBSET Nat] /\ lastSubtask' \in Nat
          /\ touched' \in BOOLEAN /\ UNCHANGED <<vid, files, lastTest, halfway>>
        BY <1>11 DEF DeleteSubTasks, Less, TestTypeOK
    <2> HIDE DEF row
    <2> QED
        BY <2>1, <2>2, <2>3, <2>4, <2>5, FilesAlone
<1>12. ASSUME NEW j \in Jobs, CreateSubTask(j) PROVE FilesInv'
    <2> DEFINE row == [job[j] EXCEPT !.test = lastSubtask + 1, !.step = "members"]
    <2>1. /\ job[j] \in JobRow /\ job[j].step = "subtask" /\ job[j].kind \in {"import", "subtask"}
          /\ job[j].purge = {} /\ ~Writes(j) /\ lastSubtask + 1 \in Nat
        BY <1>12, RowOfJob DEF CreateSubTask, At, Moment, JobSteps, JobsInStep, Writes, TestTypeOK
    <2>2. row \in JobRow /\ row.kind = job[j].kind /\ row.step = "members" /\ row.purge = {}
        BY <2>1 DEF JobRow, JobSteps
    <2>3. RowFits(row)
        BY <2>1, <2>2 DEF RowFits, Moment, JobSteps, AboutToInsert
    <2>4. job' = [job EXCEPT ![j] = row]
        BY <1>12 DEF CreateSubTask, TestTypeOK
    <2>5. /\ DOMAIN subtask' = DOMAIN subtask \cup {lastSubtask + 1}
          /\ subtask' \in [DOMAIN subtask' -> SUBSET Nat]
        BY <1>12 DEF CreateSubTask, More, TestTypeOK
    <2>6. /\ DOMAIN subtask' \subseteq Nat /\ lastSubtask' \in Nat
          /\ touched' \in BOOLEAN /\ UNCHANGED <<vid, files, lastTest, halfway>>
        BY <1>12, <2>1, <2>5 DEF CreateSubTask, Others, TestTypeOK
    <2> HIDE DEF row
    <2> QED
        BY <2>1, <2>2, <2>3, <2>4, <2>5, <2>6, FilesAlone
<1>13. ASSUME NEW j \in Jobs, UpdateSubTaskTests(j) PROVE FilesInv'
    <2>1. /\ job[j] \in JobRow /\ job[j].step = "members" /\ job[j].purge = {} /\ ~Writes(j)
        BY <1>13, RowOfJob DEF UpdateSubTaskTests, At, JobsInStep, Writes
    <2>2. RowFits(NoJob) /\ NoJob.kind = "none" /\ NoJob.purge = {}
        BY RowOfJob DEF RowFits, Moment, AboutToInsert
    <2>3. job' = [job EXCEPT ![j] = NoJob]
        BY <1>13 DEF UpdateSubTaskTests, Done
    <2>4. DOMAIN subtask' = DOMAIN subtask /\ subtask' \in [DOMAIN subtask' -> SUBSET Nat]
        <3>1. subtask' = subtask \/ subtask' = [subtask EXCEPT ![job[j].test] = job[j].made]
            BY <1>13 DEF UpdateSubTaskTests
        <3>2. job[j].made \in SUBSET Nat
            BY <2>1 DEF JobRow
        <3> QED
            BY <3>1, <3>2 DEF TestTypeOK
    <2>5. /\ DOMAIN subtask' \subseteq Nat /\ lastSubtask' \in Nat
          /\ touched' \in BOOLEAN /\ UNCHANGED <<vid, files, lastTest, halfway>>
        BY <1>13, <2>4 DEF UpdateSubTaskTests, Others, TestTypeOK
    <2> QED
        BY <2>1, <2>2, <2>3, <2>4, <2>5, FilesAlone
<1>14. ASSUME NEW j \in Jobs, JobFails(j) PROVE FilesInv'
    <2>1. RowFits(NoJob) /\ NoJob.kind = "none" /\ NoJob.purge = {}
        BY RowOfJob DEF RowFits, Moment, AboutToInsert
    <2>2. job' = [job EXCEPT ![j] = NoJob]
        BY <1>14 DEF JobFails, Done
    <2>3. /\ halfway \subseteq halfway' /\ job[j].purge \subseteq halfway'
          /\ Writes(j) => job[j].test \in halfway'
        BY <1>14 DEF JobFails, Writes
    <2>4. /\ DOMAIN subtask' \subseteq Nat /\ lastSubtask' \in Nat
          /\ subtask' \in [DOMAIN subtask' -> SUBSET Nat]
          /\ touched' \in BOOLEAN /\ UNCHANGED <<vid, files, lastTest>>
        BY <1>14 DEF JobFails, TestTypeOK
    <2> QED
        BY <2>1, <2>2, <2>3, <2>4, FilesAlone
<1>15. CASE UNCHANGED testVars
    BY <1>15 DEF testVars, TestTypeOK, NumbersBounded, JobsInStep, MissingFiles, InputFirst, LeftFiles,
                 Tests, Writes
<1> QED
    BY <1>1, <1>2, <1>3, <1>4, <1>5, <1>6, <1>7, <1>8, <1>9, <1>10, <1>11, <1>12, <1>13,
       <1>14, <1>15 DEF TestDataNext

\* Two imports do not run at the same time: what one does is not about another. What the
\* other jobs do to the rows is kept in touched.
LEMMA OthersSoFar ==
    ASSUME ImportInv, NEW j \in Jobs, NEW row, job' = [job EXCEPT ![j] = row],
           job[j].kind # "import" =>
               imported' = imported /\ (touched' = TRUE \/ UNCHANGED <<vid, subtask, touched>>),
           archiveLock' = archiveLock \/ archiveLock = j \/ archiveLock = Unlocked
    PROVE  \A i \in Jobs \ {j} : SoFar(i)'
<1> SUFFICES ASSUME NEW i \in Jobs \ {j}, job'[i].kind = "import" PROVE SoFar(i)'
    BY DEF SoFar
<1>1. job'[i] = job[i]
    BY DEF ImportInv, FilesInv, TestTypeOK
<1>2. SoFar(i) /\ archiveLock = i /\ i # Unlocked
    BY <1>1, TestDataAssumption DEF ImportInv, ImportSoFar, SoFar, TestDataAssumption
<1>3. job[j].kind # "import"
    BY <1>2 DEF ImportInv, ImportSoFar, SoFar
<1>4. archiveLock' = i
    BY <1>2
<1>5. CASE touched' = TRUE
    BY <1>1, <1>2, <1>3, <1>4, <1>5 DEF SoFar
<1>6. CASE UNCHANGED <<vid, subtask, touched>>
    BY <1>1, <1>2, <1>3, <1>4, <1>6 DEF SoFar, Tests
<1> QED
    BY <1>3, <1>5, <1>6

\* A step that leaves the rows and the last import alone.
LEMMA WholeAlone ==
    ASSUME ImportInv, UNCHANGED <<vid, subtask, imported, touched>>
    PROVE  ImportIsWhole'
BY DEF ImportInv, ImportIsWhole, Tests

\* A job that is no import takes its step.
LEMMA NoImportStep ==
    ASSUME ImportInv, NEW j \in Jobs, NEW row, job' = [job EXCEPT ![j] = row],
           job[j].kind # "import", row.kind # "import", imported' = imported,
           touched' = TRUE \/ UNCHANGED <<vid, subtask, touched>>,
           archiveLock' = archiveLock \/ archiveLock = j
    PROVE  ImportSoFar' /\ ImportIsWhole'
<1>1. job'[j] = row
    BY DEF ImportInv, FilesInv, TestTypeOK
<1>2. SoFar(j)'
    BY <1>1 DEF SoFar
<1>3. \A i \in Jobs \ {j} : SoFar(i)'
    BY OthersSoFar
<1>4. ImportIsWhole'
    <2>1. CASE touched' = TRUE
        BY <2>1 DEF ImportIsWhole
    <2>2. CASE UNCHANGED <<vid, subtask, touched>>
        BY <2>2, WholeAlone
    <2> QED
        BY <2>1, <2>2
<1> QED
    BY <1>2, <1>3, <1>4 DEF ImportSoFar

\* An import takes its step.
LEMMA AnImportStep ==
    ASSUME ImportInv, NEW j \in Jobs, NEW row, job' = [job EXCEPT ![j] = row],
           job[j].kind = "import", SoFar(j)'
    PROVE  ImportSoFar'
<1>1. archiveLock = j
    BY DEF ImportInv, ImportSoFar, SoFar
<1> QED
    BY <1>1, OthersSoFar DEF ImportSoFar

LEMMA ImportStep ==
    ASSUME ImportInv, [TestDataNext]_testVars
    PROVE  ImportSoFar' /\ ImportIsWhole'
<1> USE DEF ImportInv, FilesInv
<1>1. ASSUME NEW j \in Jobs, NEW vids \in Archives, StartImport(j, vids)
      PROVE  ImportSoFar' /\ ImportIsWhole'
    <2> DEFINE row == [NoJob EXCEPT !.kind = "import", !.step = "clear", !.todo = vids]
    <2>1. row.kind = "import" /\ row.step = "clear" /\ row.todo = vids /\ row.made = {}
        BY DEF NoJob
    <2>2. /\ job[j] = NoJob /\ job' = [job EXCEPT ![j] = row] /\ archiveLock = Unlocked
          /\ archiveLock' = j /\ UNCHANGED <<vid, subtask, imported, touched>>
        BY <1>1 DEF StartImport
    <2> HIDE DEF row
    <2>3. job'[j] = row
        BY <2>2 DEF TestTypeOK
    <2>4. SoFar(j)'
        BY <2>1, <2>2, <2>3 DEF SoFar
    <2>5. \A i \in Jobs \ {j} : SoFar(i)'
        BY <2>2, OthersSoFar
    <2> QED
        BY <2>2, <2>4, <2>5, WholeAlone DEF ImportSoFar
<1>2. ASSUME NEW j \in Jobs, StartCreate(j) PROVE ImportSoFar' /\ ImportIsWhole'
    <2>1. PICK row : job' = [job EXCEPT ![j] = row] /\ row.kind = "create"
        <3>1. PICK next : job' = [job EXCEPT ![j] = [NoJob EXCEPT !.kind = "create", !.step = "row",
                                                                 !.todo = next]]
            BY <1>2 DEF StartCreate
        <3>2. [NoJob EXCEPT !.kind = "create", !.step = "row", !.todo = next].kind = "create"
            BY DEF NoJob
        <3> QED
            BY <3>1, <3>2
    <2>2. job[j].kind # "import"
        BY <1>2, RowOfJob DEF StartCreate
    <2> QED
        BY <1>2, <2>1, <2>2, NoImportStep DEF StartCreate
<1>3. ASSUME NEW j \in Jobs, NEW t \in 1..MaxTests, NEW what \in {"input", "delete"}, StartOn(j, t, what)
      PROVE  ImportSoFar' /\ ImportIsWhole'
    <2> DEFINE row == [NoJob EXCEPT !.kind = what, !.step = what, !.test = t]
    <2>1. row.kind = what
        BY DEF NoJob
    <2>2. job' = [job EXCEPT ![j] = row] /\ job[j].kind # "import"
        BY <1>3, RowOfJob DEF StartOn
    <2> HIDE DEF row
    <2> QED
        BY <1>3, <2>1, <2>2, NoImportStep DEF StartOn
<1>4. ASSUME NEW j \in Jobs, NEW ts \in SUBSET Tests, StartSubtask(j, ts)
      PROVE  ImportSoFar' /\ ImportIsWhole'
    <2> DEFINE row == [NoJob EXCEPT !.kind = "subtask", !.step = "subtask", !.made = ts]
    <2>1. row.kind = "subtask"
        BY DEF NoJob
    <2>2. job' = [job EXCEPT ![j] = row] /\ job[j].kind # "import"
        BY <1>4, RowOfJob DEF StartSubtask
    <2> HIDE DEF row
    <2> QED
        BY <1>4, <2>1, <2>2, NoImportStep DEF StartSubtask
<1>5. ASSUME NEW j \in Jobs, DeleteTests(j) PROVE ImportSoFar' /\ ImportIsWhole'
    <2> DEFINE row == [job[j] EXCEPT !.purge = Tests, !.step = IF Tests = {} THEN "row" ELSE "purge"]
    <2>1. job[j] \in JobRow /\ job[j].step = "clear" /\ job[j].kind = "import"
        BY <1>5, RowOfJob DEF DeleteTests, At, Moment, JobSteps
    <2>2. job[j].todo \in Archives /\ job[j].made = {} /\ archiveLock = j
        BY <2>1 DEF ImportSoFar, SoFar
    <2>3. /\ row.kind = "import" /\ row.todo = job[j].todo /\ row.made = {}
          /\ row.step \in {"row", "purge"}
        BY <2>1, <2>2 DEF JobRow
    <2>4. job' = [job EXCEPT ![j] = row] /\ imported' = NoImport /\ UNCHANGED archiveLock
        BY <1>5 DEF DeleteTests, TestTypeOK
    <2>5. Tests' = {}
        BY <1>5 DEF DeleteTests, Less, Tests
    <2> HIDE DEF row
    <2>6. job'[j] = row
        BY <2>4 DEF TestTypeOK
    <2>7. {vid'[t] : t \in Tests'} = {}
        BY <2>5
    <2>8. SoFar(j)'
        BY <2>2, <2>3, <2>4, <2>5, <2>6, <2>7 DEF SoFar
    <2>9. ImportIsWhole'
        BY <2>4 DEF ImportIsWhole
    <2> QED
        BY <2>1, <2>4, <2>8, <2>9, AnImportStep
<1>6. ASSUME NEW j \in Jobs, DeleteTest(j) PROVE ImportSoFar' /\ ImportIsWhole'
    <2> DEFINE row == [job[j] EXCEPT !.purge = {job[j].test}, !.step = "purge"]
    <2>1. job[j] \in JobRow /\ job[j].kind = "delete"
        BY <1>6, RowOfJob DEF DeleteTest, At, Moment, JobSteps
    <2>2. row.kind = "delete"
        BY <2>1 DEF JobRow
    <2>3. job' = [job EXCEPT ![j] = row]
        BY <1>6 DEF DeleteTest, TestTypeOK
    <2>4. touched' = TRUE /\ imported' = imported /\ archiveLock' = archiveLock
        BY <1>6, <2>1 DEF DeleteTest, Others, TestTypeOK
    <2> HIDE DEF row
    <2> QED
        BY <2>1, <2>2, <2>3, <2>4, NoImportStep
<1>7. ASSUME NEW j \in Jobs, PurgeTestData(j) PROVE ImportSoFar' /\ ImportIsWhole'
    <2>1. PICK row \in JobRow :
             /\ job' = [job EXCEPT ![j] = row]
             /\ \/ /\ row = NoJob /\ job[j].kind # "import"
                   /\ archiveLock' = IF archiveLock = j THEN Unlocked ELSE archiveLock
                \/ /\ row.kind = job[j].kind /\ row.todo = job[j].todo /\ row.made = job[j].made
                   /\ row.step \in {"purge", "row"}
                   /\ UNCHANGED archiveLock
        BY <1>7, PurgeMoves
    <2>2. /\ UNCHANGED <<vid, subtask, imported, touched>>
          /\ job'[j] = row /\ job[j].step = "purge"
        BY <1>7, <2>1 DEF PurgeTestData, At, TestTypeOK
    <2>3. CASE job[j].kind # "import"
        BY <2>1, <2>2, <2>3, RowOfJob, NoImportStep
    <2>4. CASE job[j].kind = "import"
        <3>1. SoFar(j)'
            BY <2>1, <2>2, <2>4 DEF SoFar, ImportSoFar, Tests
        <3> QED
            BY <2>1, <2>2, <2>4, <3>1, AnImportStep, WholeAlone
    <2> QED
        BY <2>3, <2>4
<1>8. ASSUME NEW j \in Jobs, CreateTest(j) PROVE ImportSoFar' /\ ImportIsWhole'
    <2> DEFINE t == lastTest + 1
    <2>1. PICK row \in JobRow, v \in job[j].todo :
             /\ job' = [job EXCEPT ![j] = row]
             /\ row.kind = job[j].kind /\ row.step = "input"
             /\ row.made = job[j].made \cup {t} /\ row.todo = job[j].todo \ {v}
             /\ Tests' = Tests \cup {t} /\ t \notin Tests
             /\ vid'[t] = v /\ \A x \in Tests : vid'[x] = vid[x]
        BY <1>8, CreateMoves
    <2> HIDE DEF t
    <2>2. /\ job[j].step = "row" /\ UNCHANGED <<subtask, archiveLock, imported>>
          /\ touched' = (touched \/ job[j].kind # "import")
        BY <1>8 DEF CreateTest, At, Others
    <2>3. job'[j] = row
        BY <2>1 DEF TestTypeOK
    <2>4. CASE job[j].kind # "import"
        BY <2>1, <2>2, <2>4, NoImportStep DEF TestTypeOK
    <2>5. CASE job[j].kind = "import"
        <3>1. touched' = touched /\ imported = NoImport /\ archiveLock = j
            BY <2>2, <2>5 DEF SoFar, ImportSoFar, TestTypeOK
        <3>2. {vid'[x] : x \in Tests'} = {vid[x] : x \in Tests} \cup {v}
            BY <2>1
        <3>3. row.todo \cup {vid'[x] : x \in Tests'} = job[j].todo \cup {vid[x] : x \in Tests}
            BY <2>1, <3>2
        <3>4. ~touched => Tests = job[j].made /\ job[j].todo \cup {vid[x] : x \in Tests} \in Archives
            BY <2>2, <2>5 DEF SoFar, ImportSoFar
        <3>5. SoFar(j)'
            BY <2>1, <2>2, <2>3, <2>5, <3>1, <3>3, <3>4 DEF SoFar
        <3>6. ImportIsWhole'
            BY <2>2, <3>1 DEF ImportIsWhole
        <3> QED
            BY <2>1, <2>5, <3>5, <3>6, AnImportStep
    <2> QED
        BY <2>4, <2>5
<1>9. ASSUME NEW j \in Jobs, SaveTestInput(j) PROVE ImportSoFar' /\ ImportIsWhole'
    <2> DEFINE row == [job[j] EXCEPT !.step = "output"]
    <2>1. job[j] \in JobRow /\ job[j].step = "input"
        BY <1>9, RowOfJob DEF SaveTestInput, At
    <2>2. /\ row.kind = job[j].kind /\ row.step = "output"
          /\ row.made = job[j].made /\ row.todo = job[j].todo
        BY <2>1 DEF JobRow
    <2>3. /\ job' = [job EXCEPT ![j] = row]
          /\ UNCHANGED <<vid, subtask, archiveLock, imported, touched>>
        BY <1>9 DEF SaveTestInput, Goes, TestTypeOK
    <2> HIDE DEF row
    <2>4. job'[j] = row
        BY <2>3 DEF TestTypeOK
    <2>5. CASE job[j].kind # "import"
        BY <2>2, <2>3, <2>5, NoImportStep
    <2>6. CASE job[j].kind = "import"
        <3>1. SoFar(j)'
            BY <2>1, <2>2, <2>3, <2>4, <2>6 DEF SoFar, ImportSoFar, Tests
        <3> QED
            BY <2>3, <2>6, <3>1, AnImportStep, WholeAlone
    <2> QED
        BY <2>5, <2>6
<1>10. ASSUME NEW j \in Jobs, SaveTestOutput(j) PROVE ImportSoFar' /\ ImportIsWhole'
    <2>1. /\ job[j] \in JobRow /\ job[j].step = "output"
          /\ UNCHANGED <<vid, subtask, imported, touched>>
        BY <1>10, RowOfJob DEF SaveTestOutput, At
    <2>2. CASE job[j].kind # "import"
        <3>1. /\ job' = [job EXCEPT ![j] = NoJob]
              /\ archiveLock' = archiveLock \/ archiveLock = j
            BY <1>10, <2>2 DEF SaveTestOutput, Done
        <3> QED
            BY <2>1, <2>2, <3>1, RowOfJob, NoImportStep
    <2>3. CASE job[j].kind = "import"
        <3> DEFINE row == [job[j] EXCEPT !.step = IF job[j].todo = {} THEN "drop" ELSE "row"]
        <3>1. /\ row.kind = "import" /\ row.made = job[j].made /\ row.todo = job[j].todo
              /\ row.step = IF job[j].todo = {} THEN "drop" ELSE "row"
            BY <2>1, <2>3 DEF JobRow
        <3>2. job' = [job EXCEPT ![j] = row] /\ UNCHANGED archiveLock
            BY <1>10, <2>3 DEF SaveTestOutput, Goes, TestTypeOK
        <3> HIDE DEF row
        <3>3. job'[j] = row
            BY <3>2 DEF TestTypeOK
        <3>4. SoFar(j)'
            BY <2>1, <2>3, <3>1, <3>2, <3>3 DEF SoFar, ImportSoFar, Tests
        <3> QED
            BY <2>1, <2>3, <3>2, <3>4, AnImportStep, WholeAlone
    <2> QED
        BY <2>2, <2>3
<1>11. ASSUME NEW j \in Jobs, DeleteSubTasks(j) PROVE ImportSoFar' /\ ImportIsWhole'
    <2> DEFINE row == [job[j] EXCEPT !.step = "subtask"]
    <2>1. job[j] \in JobRow /\ job[j].step = "drop" /\ job[j].kind = "import"
        BY <1>11, RowOfJob DEF DeleteSubTasks, At, Moment, JobSteps
    <2>2. /\ row.kind = "import" /\ row.step = "subtask"
          /\ row.made = job[j].made /\ row.todo = job[j].todo
        BY <2>1 DEF JobRow
    <2>3. /\ job' = [job EXCEPT ![j] = row] /\ DOMAIN subtask' = {}
          /\ UNCHANGED <<vid, archiveLock, imported, touched>>
        BY <1>11 DEF DeleteSubTasks, Goes, TestTypeOK, Less
    <2> HIDE DEF row
    <2>4. job'[j] = row /\ imported = NoImport
        BY <2>1, <2>3 DEF TestTypeOK, SoFar, ImportSoFar
    <2>5. SoFar(j)'
        BY <2>1, <2>2, <2>3, <2>4 DEF SoFar, ImportSoFar, Tests
    <2>6. ImportIsWhole'
        BY <2>3, <2>4 DEF ImportIsWhole
    <2> QED
        BY <2>1, <2>3, <2>5, <2>6, AnImportStep
<1>12. ASSUME NEW j \in Jobs, CreateSubTask(j) PROVE ImportSoFar' /\ ImportIsWhole'
    <2> DEFINE row == [job[j] EXCEPT !.test = lastSubtask + 1, !.step = "members"]
    <2>1. job[j] \in JobRow /\ job[j].step = "subtask"
        BY <1>12, RowOfJob DEF CreateSubTask, At
    <2>2. /\ row.kind = job[j].kind /\ row.step = "members" /\ row.test = lastSubtask + 1
          /\ row.made = job[j].made /\ row.todo = job[j].todo
        BY <2>1 DEF JobRow
    <2>3. /\ job' = [job EXCEPT ![j] = row] /\ DOMAIN subtask' = DOMAIN subtask \cup {lastSubtask + 1}
          /\ UNCHANGED <<vid, archiveLock, imported>>
          /\ touched' = (touched \/ job[j].kind # "import")
        BY <1>12 DEF CreateSubTask, Others, TestTypeOK, More
    <2> HIDE DEF row
    <2>4. job'[j] = row
        BY <2>3 DEF TestTypeOK
    <2>5. CASE job[j].kind # "import"
        BY <2>2, <2>3, <2>5, NoImportStep
    <2>6. CASE job[j].kind = "import"
        <3>1. touched' = touched /\ imported = NoImport
            BY <2>1, <2>3, <2>6 DEF TestTypeOK, SoFar, ImportSoFar
        <3>2. SoFar(j)'
            BY <2>1, <2>2, <2>3, <2>4, <2>6, <3>1 DEF SoFar, ImportSoFar, Tests
        <3>3. ImportIsWhole'
            BY <2>3, <3>1 DEF ImportIsWhole
        <3> QED
            BY <2>3, <2>6, <3>2, <3>3, AnImportStep
    <2> QED
        BY <2>5, <2>6
<1>13. ASSUME NEW j \in Jobs, UpdateSubTaskTests(j) PROVE ImportSoFar' /\ ImportIsWhole'
    <2> DEFINE s == job[j].test
               made == job[j].made
               holds == s \in DOMAIN subtask /\ made \subseteq Tests
    <2>1. /\ job[j].step = "members" /\ UNCHANGED vid
          /\ job' = [job EXCEPT ![j] = NoJob]
          /\ archiveLock' = IF archiveLock = j THEN Unlocked ELSE archiveLock
          /\ touched' = (touched \/ job[j].kind # "import")
          /\ subtask' = IF holds THEN [subtask EXCEPT ![s] = made] ELSE subtask
          /\ imported' = IF holds /\ job[j].kind = "import"
                           THEN [tests |-> made, vids |-> {vid[t] : t \in made}]
                           ELSE imported
        BY <1>13 DEF UpdateSubTaskTests, At, Done, Others
    <2>2. job'[j] = NoJob /\ NoJob.kind # "import"
        BY <2>1, RowOfJob DEF TestTypeOK
    <2>3. CASE job[j].kind # "import"
        BY <2>1, <2>2, <2>3, NoImportStep
    <2>4. CASE job[j].kind = "import"
        <3>1. SoFar(j)'
            BY <2>2 DEF SoFar
        <3>2. touched' = touched /\ imported = NoImport
            BY <2>1, <2>4 DEF TestTypeOK, SoFar, ImportSoFar
        <3>3. ImportIsWhole'
            <4>1. CASE ~holds
                BY <2>1, <3>2, <4>1 DEF ImportIsWhole
            <4>2. CASE holds /\ touched
                BY <3>2, <4>2 DEF ImportIsWhole
            <4>3. CASE holds /\ ~touched
                <5>1. /\ Tests = made /\ job[j].todo = {} /\ DOMAIN subtask = {s}
                      /\ job[j].todo \cup {vid[t] : t \in Tests} \in Archives
                    BY <2>1, <2>4, <4>3 DEF SoFar, ImportSoFar
                <5>2. subtask' = [x \in {s} |-> made]
                    BY <2>1, <4>3, <5>1 DEF TestTypeOK
                <5>3. imported'.tests = made /\ imported'.vids = {vid[t] : t \in made}
                    BY <2>1, <2>4, <4>3
                <5>4. Tests' = Tests /\ vid' = vid
                    BY <2>1 DEF Tests
                <5>5. s \in DOMAIN subtask' /\ imported'.vids \in Archives
                    BY <5>1, <5>2, <5>3
                <5> HIDE DEF s, made, holds
                <5> QED
                    BY <5>1, <5>2, <5>3, <5>4, <5>5 DEF ImportIsWhole
            <4> QED
                BY <4>1, <4>2, <4>3
        <3> QED
            BY <2>1, <2>4, <3>1, <3>3, AnImportStep
    <2> QED
        BY <2>3, <2>4
<1>14. ASSUME NEW j \in Jobs, JobFails(j) PROVE ImportSoFar' /\ ImportIsWhole'
    <2>1. /\ job' = [job EXCEPT ![j] = NoJob]
          /\ archiveLock' = archiveLock \/ archiveLock = j
          /\ UNCHANGED <<vid, subtask, imported, touched>>
        BY <1>14 DEF JobFails, Done
    <2>2. job'[j] = NoJob /\ NoJob.kind # "import"
        BY <2>1, RowOfJob DEF TestTypeOK
    <2>3. SoFar(j)'
        BY <2>2 DEF SoFar
    <2>4. \A i \in Jobs \ {j} : SoFar(i)'
        BY <2>1, OthersSoFar
    <2> QED
        BY <2>1, <2>3, <2>4, WholeAlone DEF ImportSoFar
<1>15. CASE UNCHANGED testVars
    <2>1. ImportIsWhole'
        BY <1>15, WholeAlone DEF testVars
    <2>2. \A j \in Jobs : SoFar(j) => SoFar(j)'
        BY <1>15 DEF testVars, SoFar, Tests
    <2> QED
        BY <2>1, <2>2 DEF ImportSoFar
<1> QED
    BY <1>1, <1>2, <1>3, <1>4, <1>5, <1>6, <1>7, <1>8, <1>9, <1>10, <1>11, <1>12, <1>13,
       <1>14, <1>15 DEF TestDataNext

LEMMA ImportInvariant == TestDataSpec => []ImportInv
<1>1. TestDataInit => ImportInv
    <2> SUFFICES ASSUME TestDataInit PROVE ImportInv
        OBVIOUS
    <2>1. vid = <<>> /\ subtask = <<>> /\ Tests = {} /\ DOMAIN subtask = {}
        BY DEF TestDataInit, Tests
    <2>2. NoJob \in JobRow /\ NoJob.kind = "none" /\ NoJob.step = "none" /\ NoJob.purge = {}
        BY DEF NoJob, JobRow, JobKinds, JobSteps
    <2>3. vid \in [Tests -> Nat] /\ subtask \in [DOMAIN subtask -> SUBSET Nat]
        BY <2>1
    <2>4. TestTypeOK
        <3>1. files \in [1..MaxTests -> SUBSET Both] /\ job \in [Jobs -> JobRow] /\ touched \in BOOLEAN
            BY <2>2 DEF TestDataInit
        <3>2. lastTest = 0 /\ lastTest <= MaxTests /\ lastSubtask = 0
            BY TestDataAssumption DEF TestDataInit, TestDataAssumption
        <3> QED
            BY <2>1, <2>3, <3>1, <3>2 DEF TestTypeOK
    <2>5. NumbersBounded /\ MissingFiles /\ LeftFiles
        BY <2>1 DEF TestDataInit, NumbersBounded, MissingFiles, LeftFiles
    <2>6. JobsInStep /\ InputFirst /\ ImportSoFar
        BY <2>2 DEF TestDataInit, JobsInStep, InputFirst, ImportSoFar, SoFar, Writes, Moment, AboutToInsert
    <2>7. ImportIsWhole
        BY DEF TestDataInit, ImportIsWhole
    <2> QED
        BY <2>4, <2>5, <2>6, <2>7 DEF ImportInv, FilesInv
<1>2. ImportInv /\ [TestDataNext]_testVars => ImportInv'
    BY FilesStep, ImportStep DEF ImportInv
<1> QED
    BY <1>1, <1>2, PTL DEF TestDataSpec

\* Any number of requests that create, write and delete tests: a file that is missing is
\* about to be written, a file too many is about to be removed, unless a job broke off.
THEOREM FilesAlwaysExplained == TestDataSpec => []FilesExplained
<1>1. ImportInv => FilesExplained
    <2> SUFFICES ASSUME ImportInv, NEW t \in (1..MaxTests) \ halfway
                 PROVE  /\ t \notin Tests /\ files[t] # {} => \E j \in Jobs : t \in job[j].purge
                        /\ t \in Tests /\ files[t] # Both =>
                             \E j \in Jobs : job[j].kind \in {"create", "import"} /\ t \in job[j].made
        BY DEF FilesExplained
    <2>1. t \notin Tests /\ files[t] # {} => \E j \in Jobs : t \in job[j].purge
        BY DEF ImportInv, FilesInv, LeftFiles
    <2>2. t \in Tests /\ files[t] # Both =>
             \E j \in Jobs : job[j].kind \in {"create", "import"} /\ t \in job[j].made
        BY DEF ImportInv, FilesInv, MissingFiles, InputFirst, Writes
    <2> QED
        BY <2>1, <2>2
<1> QED
    BY <1>1, ImportInvariant, PTL

\* Imports are whole for any archives and any number of other requests: what an import
\* leaves is the archive, if no other request changed the rows since it began.
THEOREM ImportsAreWhole == TestDataSpec => []ImportIsWhole
<1>1. ImportInv => ImportIsWhole
    BY DEF ImportInv
<1> QED
    BY <1>1, ImportInvariant, PTL

-----------------------------------------------------------------------------
(* ProblemLists. The rounds of the query and the unfolding of the page are *)
(* recursive functions, which are shown to be what their definitions say.  *)
(* A problem comes to a list in the round after it came to a child of the  *)
(* list; so it comes to different lists in different rounds, and following *)
(* it back from a page goes in no circle.                                  *)

\* One round over a tree of problems, and the rounds of a query up to the m-th.
Round(children, last) == [l \in Lists |-> last[l] \cup UNION {last[c] : c \in children[l]}]
RoundsTo(m, own, children, tree) ==
    tree = [n \in 0..m |-> IF n = 0 THEN own ELSE Round(children, tree[n - 1])]
Families == [Lists -> SUBSET (ListedProblems \cup Lists)]
Nestings == [Lists -> SUBSET Lists]

\* The query's rounds exist, and what it makes is the last of them.
LEMMA TreeUnfolds ==
    ASSUME NEW own, NEW children
    PROVE  \E tree : /\ RoundsTo(Cardinality(Lists) + 1, own, children, tree)
                     /\ PbListTree(own, children) =
                            tree[CHOOSE n \in 0..Cardinality(Lists) : tree[n + 1] = tree[n]]
<1> DEFINE N == Cardinality(Lists)
           Step(f, n) == IF n = 0 THEN own ELSE Round(children, f[n - 1])
           Bad == {m \in Nat : ~ \E f : RoundsTo(m, own, children, f)}
<1>1. N \in Nat
    BY ListsAssumption, FS_CardinalityType
<1>2. Bad = {}
    <2>1. SUFFICES ASSUME Bad # {} PROVE FALSE
        OBVIOUS
    <2>2. PICK m \in Bad : \A k \in Bad : m <= k
        <3>1. Bad \in SUBSET Nat
            OBVIOUS
        <3> HIDE DEF Bad
        <3> QED
            BY <2>1, <3>1, SmallestOf
    <2>3. m \in Nat /\ \A k \in Nat : k < m => k \notin Bad
        <3>1. m \in Nat /\ Bad \subseteq Nat
            OBVIOUS
        <3> HIDE DEF Bad
        <3> QED
            BY <2>2, <3>1
    <2>4. CASE m = 0
        <3>1. RoundsTo(0, own, children, [n \in 0..0 |-> own])
            BY DEF RoundsTo
        <3> QED
            BY <2>4, <3>1
    <2>5. CASE m # 0
        <3>1. m - 1 \in Nat /\ m - 1 \notin Bad
            <4>1. m - 1 \in Nat /\ m - 1 < m
                BY <2>3, <2>5
            <4> HIDE DEF Bad
            <4> QED
                BY <2>3, <4>1
        <3>2. PICK f : RoundsTo(m - 1, own, children, f)
            BY <3>1
        <3> DEFINE h == [n \in 0..m |-> Step(f, n)]
        <3>3. \A n \in 0..(m - 1) : f[n] = h[n]
            BY <2>3, <3>2 DEF RoundsTo
        <3>4. \A n \in 0..m : Step(f, n) = Step(h, n)
            <4>1. \A n \in 0..m : n # 0 => n - 1 \in 0..(m - 1)
                BY <2>3
            <4> HIDE DEF h
            <4> QED
                BY <3>3, <4>1
        <3>5. h = [n \in 0..m |-> Step(h, n)]
            <4> HIDE DEF Step
            <4> DEFINE A(n) == Step(f, n)
            <4>1. h = [n \in 0..m |-> A(n)]
                OBVIOUS
            <4> HIDE DEF h
            <4> QED
                BY <3>4, <4>1
        <3>6. RoundsTo(m, own, children, h)
            <4> HIDE DEF h
            <4> QED
                BY <3>5 DEF RoundsTo
        <3> HIDE DEF h
        <3> QED
            BY <3>6
    <2> QED
        BY <2>4, <2>5
<1>3. \E f : RoundsTo(N + 1, own, children, f)
    <2>1. N + 1 \in Nat
        BY <1>1
    <2> QED
        BY <1>2, <2>1
<1> DEFINE tree == CHOOSE f : RoundsTo(N + 1, own, children, f)
<1>4. PbListTree(own, children) =
            tree[CHOOSE n \in 0..Cardinality(Lists) : tree[n + 1] = tree[n]]
    BY DEF PbListTree, RoundsTo, Round
<1> HIDE DEF tree
<1>5. RoundsTo(N + 1, own, children, tree)
    BY <1>3 DEF tree
<1> QED
    BY <1>4, <1>5

\* A problem comes to a list in one round.
Comes(tree, p, n, l) == p \in tree[n][l] /\ (n = 0 \/ p \notin tree[n - 1][l])

LEMMA RoundsGrow ==
    ASSUME NEW own \in Families, NEW children \in Nestings, NEW m \in Nat, NEW tree,
           RoundsTo(m, own, children, tree)
    PROVE  /\ tree[0] = own
           /\ \A n \in 1..m : tree[n] = Round(children, tree[n - 1])
           /\ \A n \in 0..m : tree[n] \in Families
           /\ \A n \in 0..m : \A k \in 0..n : \A l \in Lists : tree[k][l] \subseteq tree[n][l]
<1>1. tree[0] = own /\ \A n \in 1..m : tree[n] = Round(children, tree[n - 1])
    BY DEF RoundsTo
<1> DEFINE Good(n) == /\ tree[n] \in Families
                      /\ \A k \in 0..n : \A l \in Lists : tree[k][l] \subseteq tree[n][l]
           Bad == {n \in 0..m : ~Good(n)}
<1>2. SUFFICES ASSUME Bad # {} PROVE FALSE
    BY <1>1
<1>3. PICK n \in Bad : \A k \in Bad : n <= k
    <2>1. Bad \in SUBSET Nat
        OBVIOUS
    <2> HIDE DEF Bad
    <2> QED
        BY <1>2, <2>1, SmallestOf
<1>4. n \in 0..m /\ ~Good(n)
    OBVIOUS
<1>5. n # 0
    <2>1. Good(0)
        BY <1>1
    <2> HIDE DEF Good
    <2> QED
        BY <1>4, <2>1
<1>6. n - 1 \in 0..m /\ n \in 1..m /\ n - 1 \notin Bad
    <2>1. n - 1 \in 0..m /\ n \in 1..m /\ n - 1 < n /\ n - 1 \in Nat /\ n \in Nat
        BY <1>4, <1>5
    <2> HIDE DEF Bad
    <2> QED
        BY <1>3, <2>1
<1>7. Good(n - 1) /\ tree[n] = Round(children, tree[n - 1])
    BY <1>1, <1>6
<1>8. tree[n] \in Families
    BY <1>7 DEF Round, Families, Nestings
<1>9. \A l \in Lists : tree[n - 1][l] \subseteq tree[n][l]
    BY <1>7 DEF Round
<1>10. \A k \in 0..n : k = n \/ k \in 0..(n - 1)
    BY <1>4
<1>11. \A k \in 0..n : \A l \in Lists : tree[k][l] \subseteq tree[n][l]
    BY <1>7, <1>9, <1>10
<1> QED
    BY <1>4, <1>8, <1>11

\* What comes to a list after the first round comes from a child that got it just before.
LEMMA ComesFromChild ==
    ASSUME NEW own \in Families, NEW children \in Nestings, NEW m \in Nat, NEW tree,
           RoundsTo(m, own, children, tree),
           NEW n \in 1..m, NEW l \in Lists, NEW p, Comes(tree, p, n, l)
    PROVE  \E c \in children[l] : c \in Lists /\ Comes(tree, p, n - 1, c)
<1>1. tree[n] = Round(children, tree[n - 1]) /\ p \in tree[n][l] /\ p \notin tree[n - 1][l]
    <2>1. \A i \in 1..m : tree[i] = Round(children, tree[i - 1])
        BY DEF RoundsTo
    <2>2. tree[n] = Round(children, tree[n - 1])
        BY <2>1
    <2>3. n # 0
        OBVIOUS
    <2>4. p \in tree[n][l] /\ p \notin tree[n - 1][l]
        BY <2>3 DEF Comes
    <2> QED
        BY <2>2, <2>4
<1>2. PICK c \in children[l] : p \in tree[n - 1][c]
    BY <1>1 DEF Round
<1>3. c \in Lists
    BY DEF Nestings
<1>4. ASSUME n - 1 # 0 PROVE p \notin tree[n - 2][c]
    <2>1. n - 1 \in 1..m /\ (n - 1) - 1 = n - 2
        BY <1>4
    <2>2. tree[n - 1] = Round(children, tree[n - 2])
        <3>1. \A i \in 1..m : tree[i] = Round(children, tree[i - 1])
            BY DEF RoundsTo
        <3>2. tree[n - 1] = Round(children, tree[(n - 1) - 1])
            BY <2>1, <3>1
        <3> QED
            BY <2>1, <3>2
    <2> QED
        BY <1>1, <2>2 DEF Round
<1>5. (n - 1) - 1 = n - 2
    OBVIOUS
<1> QED
    BY <1>2, <1>3, <1>4, <1>5 DEF Comes

LEMMA EarlierRounds ==
    ASSUME NEW own \in Families, NEW children \in Nestings, NEW m \in Nat, NEW tree,
           RoundsTo(m, own, children, tree),
           NEW n \in 0..m, NEW l \in Lists, NEW p, Comes(tree, p, n, l)
    PROVE  \A k \in 0..n : \E c \in Lists : Comes(tree, p, k, c)
<1> DEFINE Bad == {j \in 0..n : ~ \E c \in Lists : Comes(tree, p, n - j, c)}
<1>1. Bad = {}
    <2>1. SUFFICES ASSUME Bad # {} PROVE FALSE
        OBVIOUS
    <2>2. PICK j \in Bad : \A k \in Bad : j <= k
        <3>1. Bad \in SUBSET Nat
            OBVIOUS
        <3> HIDE DEF Bad
        <3> QED
            BY <2>1, <3>1, SmallestOf
    <2>3. j \in 0..n /\ ~ \E c \in Lists : Comes(tree, p, n - j, c)
        OBVIOUS
    <2>4. j # 0
        BY <2>3
    <2>5. j - 1 \in 0..n /\ j - 1 \notin Bad
        <3>1. j - 1 \in 0..n /\ j - 1 < j /\ j \in Nat /\ j - 1 \in Nat
            BY <2>3, <2>4
        <3> HIDE DEF Bad
        <3> QED
            BY <2>2, <3>1
    <2>6. PICK d \in Lists : Comes(tree, p, n - (j - 1), d)
        BY <2>5
    <2>7. n - (j - 1) \in 1..m /\ (n - (j - 1)) - 1 = n - j
        BY <2>3, <2>4
    <2>8. \E c \in Lists : Comes(tree, p, (n - (j - 1)) - 1, c)
        <3> DEFINE i == n - (j - 1)
        <3>1. i \in 1..m /\ Comes(tree, p, i, d)
            BY <2>6, <2>7
        <3> HIDE DEF i
        <3>2. \E c \in Lists : Comes(tree, p, i - 1, c)
            BY <3>1, ComesFromChild
        <3> QED
            BY <3>2 DEF i
    <2> QED
        BY <2>3, <2>7, <2>8
<1>2. \A k \in 0..n : n - k \in 0..n /\ n - (n - k) = k
    OBVIOUS
<1> QED
    BY <1>1, <1>2

\* No more rounds than lists bring anything: a problem comes to different lists in
\* different rounds.
LEMMA TreeIsClosed ==
    ASSUME NEW own \in Families, NEW children \in Nestings, NEW tree,
           RoundsTo(Cardinality(Lists) + 1, own, children, tree)
    PROVE  \E n \in 0..Cardinality(Lists) : tree[n + 1] = tree[n]
<1> DEFINE N == Cardinality(Lists)
<1>1. N \in Nat /\ N + 1 \in Nat
    BY ListsAssumption, FS_CardinalityType
<1> HIDE DEF N
<1>2. RoundsTo(N + 1, own, children, tree)
    BY DEF N
<1>3. tree[N + 1] = tree[N]
    <2>1. SUFFICES ASSUME tree[N + 1] # tree[N] PROVE FALSE
        OBVIOUS
    <2>2. /\ tree[N + 1] \in Families /\ tree[N] \in Families
          /\ \A l \in Lists : tree[N][l] \subseteq tree[N + 1][l]
        <3>1. N + 1 \in 0..(N + 1) /\ N \in 0..(N + 1)
            BY <1>1
        <3> QED
            BY <1>1, <1>2, <3>1, RoundsGrow
    <2>3. PICK l \in Lists, p \in ListedProblems \cup Lists : p \in tree[N + 1][l] /\ p \notin tree[N][l]
        <3>1. /\ tree[N + 1] = [l \in Lists |-> tree[N + 1][l]]
              /\ tree[N] = [l \in Lists |-> tree[N][l]]
              /\ \A l \in Lists : tree[N + 1][l] \subseteq ListedProblems \cup Lists
            BY <2>2 DEF Families
        <3>2. PICK l \in Lists : tree[N + 1][l] # tree[N][l]
            BY <2>1, <3>1
        <3> QED
            BY <2>2, <3>1, <3>2
    <2>4. Comes(tree, p, N + 1, l)
        BY <1>1, <2>3 DEF Comes
    <2>5. \A k \in 0..(N + 1) : \E c \in Lists : Comes(tree, p, k, c)
        <3>1. N + 1 \in 0..(N + 1)
            BY <1>1
        <3> QED
            BY <1>1, <1>2, <2>4, <3>1, EarlierRounds
    <2> DEFINE f == [k \in 0..(N + 1) |-> CHOOSE c \in Lists : Comes(tree, p, k, c)]
    <2>6. /\ f \in [0..(N + 1) -> Lists]
          /\ \A k \in 0..(N + 1) : Comes(tree, p, k, f[k])
        BY <2>5
    <2> HIDE DEF f
    <2>7. PICK i, j \in 0..(N + 1) : i # j /\ f[i] = f[j]
        <3>1. IsFiniteSet(0..(N + 1)) /\ Cardinality(0..(N + 1)) = N + 2
            <4>1. 0 \in Int /\ N + 1 \in Int /\ ~(0 > N + 1) /\ (N + 1) - 0 + 1 = N + 2
                BY <1>1
            <4> QED
                BY <4>1, FS_Interval
        <3>2. IsFiniteSet(Lists) /\ Cardinality(Lists) < Cardinality(0..(N + 1))
            BY <1>1, <3>1, ListsAssumption DEF N
        <3> QED
            BY <2>6, <3>1, <3>2, FS_PigeonHole
    <2>8. ASSUME NEW a \in 0..(N + 1), NEW b \in 0..(N + 1), a < b, f[a] = f[b]
          PROVE  FALSE
        <3>1. b # 0 /\ b - 1 \in 0..(N + 1) /\ a \in 0..(b - 1)
            BY <1>1, <2>8
        <3>2. p \in tree[a][f[a]] /\ p \notin tree[b - 1][f[b]] /\ f[a] \in Lists
            BY <2>6, <3>1 DEF Comes
        <3>3. tree[a][f[a]] \subseteq tree[b - 1][f[a]]
            BY <1>1, <1>2, <3>1, <3>2, RoundsGrow
        <3> QED
            BY <2>8, <3>2, <3>3
    <2>9. i < j \/ j < i
        BY <1>1, <2>7
    <2> QED
        BY <2>7, <2>8, <2>9
<1>4. N \in 0..N
    BY <1>1
<1> QED
    BY <1>3, <1>4 DEF N

\* The tree is the last round: it is closed, and all in it came in some round.
LEMMA TreeFacts ==
    ASSUME NEW own \in Families, NEW children \in Nestings
    PROVE  \E tree :
             /\ RoundsTo(Cardinality(Lists) + 1, own, children, tree)
             /\ PbListTree(own, children) \in Families
             /\ \A l \in Lists :
                  /\ own[l] \subseteq PbListTree(own, children)[l]
                  /\ \A c \in children[l] :
                        PbListTree(own, children)[c] \subseteq PbListTree(own, children)[l]
                  /\ \A p \in PbListTree(own, children)[l] :
                        \E n \in 0..Cardinality(Lists) : Comes(tree, p, n, l)
<1> DEFINE N == Cardinality(Lists)
           T == PbListTree(own, children)
<1>1. N \in Nat /\ N + 1 \in Nat
    BY ListsAssumption, FS_CardinalityType
<1>2. PICK tree : /\ RoundsTo(N + 1, own, children, tree)
                  /\ T = tree[CHOOSE n \in 0..N : tree[n + 1] = tree[n]]
    BY TreeUnfolds
<1> DEFINE s == CHOOSE n \in 0..N : tree[n + 1] = tree[n]
<1>3. s \in 0..N /\ tree[s + 1] = tree[s] /\ T = tree[s]
    BY <1>2, TreeIsClosed
<1> HIDE DEF s, T, N
<1>4. /\ s \in 0..(N + 1) /\ s + 1 \in 1..(N + 1) /\ (s + 1) - 1 = s /\ 0 \in 0..s
    BY <1>1, <1>3
<1>5. T \in Families /\ T = Round(children, T) /\ tree[0] = own
    <2>1. /\ tree[0] = own
          /\ \A n \in 1..(N + 1) : tree[n] = Round(children, tree[n - 1])
          /\ \A n \in 0..(N + 1) : tree[n] \in Families
        <3> DEFINE m == N + 1
        <3>1. m \in Nat /\ RoundsTo(m, own, children, tree)
            BY <1>1, <1>2
        <3> HIDE DEF m
        <3>2. tree[0] = own /\ \A n \in 1..m : tree[n] = Round(children, tree[n - 1])
            BY <3>1 DEF RoundsTo
        <3>3. \A n \in 0..m : tree[n] \in Families
            BY <3>1, RoundsGrow
        <3> QED
            BY <3>2, <3>3 DEF m
    <2>2. tree[s + 1] = Round(children, tree[(s + 1) - 1])
        BY <1>4, <2>1
    <2> QED
        BY <1>3, <1>4, <2>1, <2>2
<1>6. \A l \in Lists : own[l] \subseteq T[l]
    <2>1. \A n \in 0..(N + 1) : \A k \in 0..n : \A l \in Lists : tree[k][l] \subseteq tree[n][l]
        BY <1>1, <1>2, RoundsGrow
    <2> QED
        BY <1>3, <1>4, <1>5, <2>1
<1>7. \A l \in Lists : \A c \in children[l] : T[c] \subseteq T[l]
    <2> SUFFICES ASSUME NEW l \in Lists, NEW c \in children[l] PROVE T[c] \subseteq T[l]
        OBVIOUS
    <2>1. Round(children, T)[l] = T[l] \cup UNION {T[d] : d \in children[l]}
        BY DEF Round
    <2> QED
        BY <1>5, <2>1
<1>8. ASSUME NEW l \in Lists, NEW p \in T[l]
      PROVE  \E n \in 0..N : Comes(tree, p, n, l)
    <2> DEFINE Has == {n \in 0..s : p \in tree[n][l]}
    <2>1. Has \in SUBSET Nat /\ s \in Has
        BY <1>3
    <2>2. PICK n \in Has : \A k \in Has : n <= k
        <3> HIDE DEF Has
        <3> QED
            BY <2>1, SmallestOf
    <2>3. n \in 0..N /\ p \in tree[n][l]
        BY <1>1, <1>3
    <2>4. ASSUME n # 0 PROVE p \notin tree[n - 1][l]
        <3>1. n - 1 \in 0..s /\ ~(n <= n - 1)
            BY <1>3, <2>4
        <3>2. n - 1 \notin Has
            <4> HIDE DEF Has
            <4> QED
                BY <2>2, <3>1
        <3> QED
            BY <3>1, <3>2
    <2> QED
        BY <2>3, <2>4 DEF Comes
<1> QED
    BY <1>2, <1>5, <1>6, <1>7, <1>8 DEF T, N

\* The page: what hydrateFullList makes of a list at the end of a path.
Under(kids, path, l, tree) == {tree[path \cup {c}][c] : c \in kids[l] \ path}
Page(own, kids, path, l, tree) ==
    [problems |-> own[l] \cup UNION {h.problems : h \in Under(kids, path, l, tree)},
     depth |-> 1 + Max({0} \cup {h.depth : h \in Under(kids, path, l, tree)})]

\* Unfolding ends, as the path grows with each level.
LEMMA HydrateUnfolds ==
    ASSUME NEW own, NEW kids \in Nestings
    PROVE  \A path \in SUBSET Lists : \A l \in Lists :
             Hydrate(own, kids)[path][l] = Page(own, kids, path, l, Hydrate(own, kids))
<1> DEFINE Left(path) == Cardinality(Lists \ path)
           Deep(n) == {path \in SUBSET Lists : Left(path) <= n}
           Step(f, path) == [l \in Lists |-> Page(own, kids, path, l, f)]
           Unfolding(S, f) == f = [path \in S |-> Step(f, path)]
           Bad == {n \in Nat : ~ \E f : Unfolding(Deep(n), f)}
<1>1. \A path \in SUBSET Lists : IsFiniteSet(Lists \ path) /\ Left(path) \in Nat
                                 /\ Left(path) <= Cardinality(Lists)
    <2>1. \A path \in SUBSET Lists : Lists \ path \in SUBSET Lists
        OBVIOUS
    <2> QED
        BY <2>1, ListsAssumption, FS_Subset, FS_CardinalityType
<1>2. ASSUME NEW path \in SUBSET Lists, NEW c \in Lists \ path
      PROVE  path \cup {c} \in SUBSET Lists /\ Left(path \cup {c}) = Left(path) - 1
    <2>1. Lists \ (path \cup {c}) = (Lists \ path) \ {c}
        OBVIOUS
    <2>2. Cardinality((Lists \ path) \ {c}) = Cardinality(Lists \ path) - 1
        BY <1>1, FS_RemoveElement
    <2> QED
        BY <2>1, <2>2
<1> HIDE DEF Left
<1>3. ASSUME NEW f, NEW h, NEW path \in SUBSET Lists,
             \A c \in Lists \ path : f[path \cup {c}] = h[path \cup {c}]
      PROVE  Step(f, path) = Step(h, path)
    <2>1. \A l \in Lists : Under(kids, path, l, f) = Under(kids, path, l, h)
        BY <1>3 DEF Under, Nestings
    <2>2. \A l \in Lists : Page(own, kids, path, l, f) = Page(own, kids, path, l, h)
        BY <2>1 DEF Page
    <2> QED
        BY <2>2
<1> HIDE DEF Step
<1>4. Bad = {}
    <2>1. SUFFICES ASSUME Bad # {} PROVE FALSE
        OBVIOUS
    <2>2. PICK n \in Bad : \A k \in Bad : n <= k
        <3>1. Bad \in SUBSET Nat
            OBVIOUS
        <3> HIDE DEF Bad
        <3> QED
            BY <2>1, <3>1, SmallestOf
    <2>3. n \in Nat
        OBVIOUS
    <2> DEFINE Before == IF n = 0 THEN {} ELSE Deep(n - 1)
    <2>4. PICK f : Unfolding(Before, f)
        <3>1. CASE n = 0
            <4>1. Unfolding({}, [path \in {} |-> 0])
                OBVIOUS
            <4> QED
                BY <3>1, <4>1
        <3>2. CASE n # 0
            <4>1. n - 1 \in Nat /\ ~(n <= n - 1)
                BY <2>3, <3>2
            <4>2. n - 1 \notin Bad
                <5> HIDE DEF Bad
                <5> QED
                    BY <2>2, <4>1
            <4> QED
                BY <3>2, <4>1, <4>2
        <3> QED
            BY <3>1, <3>2
    <2> DEFINE h == [path \in Deep(n) |-> Step(f, path)]
    <2>5. \A path \in Before : path \in Deep(n) /\ f[path] = h[path]
        <3>1. \A path \in Before : path \in Deep(n)
            <4>1. CASE n = 0
                BY <4>1
            <4>2. CASE n # 0
                <5> SUFFICES ASSUME NEW path \in SUBSET Lists, Left(path) <= n - 1
                             PROVE  Left(path) <= n
                    BY <4>2
                <5>1. Left(path) \in Nat
                    BY <1>1
                <5> QED
                    BY <2>3, <5>1
            <4> QED
                BY <4>1, <4>2
        <3>2. \A path \in Before : f[path] = Step(f, path)
            <4> HIDE DEF Before
            <4> QED
                BY <2>4
        <3> HIDE DEF Before, Deep
        <3> QED
            BY <3>1, <3>2
    <2>6. \A path \in Deep(n) : \A c \in Lists \ path : path \cup {c} \in Before
        <3> SUFFICES ASSUME NEW path \in Deep(n), NEW c \in Lists \ path
                     PROVE  path \cup {c} \in Before
            OBVIOUS
        <3>1. /\ path \cup {c} \in SUBSET Lists /\ Left(path \cup {c}) = Left(path) - 1
              /\ Left(path \cup {c}) \in Nat /\ Left(path) \in Nat
            BY <1>1, <1>2
        <3> QED
            BY <2>3, <3>1
    <2>7. \A path \in Deep(n) : Step(f, path) = Step(h, path)
        <3>1. \A path \in Deep(n) : path \in SUBSET Lists
            OBVIOUS
        <3> HIDE DEF Deep, Before, h
        <3> QED
            BY <1>3, <2>5, <2>6, <3>1
    <2>8. h = [path \in Deep(n) |-> Step(h, path)]
        <3> DEFINE A(path) == Step(f, path)
        <3>1. h = [path \in Deep(n) |-> A(path)]
            OBVIOUS
        <3> HIDE DEF h
        <3> QED
            BY <2>7, <3>1
    <2> HIDE DEF h
    <2> QED
        BY <2>8
<1>5. Cardinality(Lists) \in Nat /\ Deep(Cardinality(Lists)) = SUBSET Lists
    BY <1>1, ListsAssumption, FS_CardinalityType
<1>6. \E f : Unfolding(SUBSET Lists, f)
    <2>1. \A n \in Nat : \E f : Unfolding(Deep(n), f)
        <3> HIDE DEF Unfolding, Deep
        <3> QED
            BY <1>4
    <2> DEFINE N == Cardinality(Lists)
    <2>2. \E f : Unfolding(Deep(N), f)
        <3>1. N \in Nat
            BY <1>5
        <3> HIDE DEF N, Unfolding, Deep
        <3> QED
            BY <2>1, <3>1
    <2>3. Deep(N) = SUBSET Lists
        BY <1>5
    <2> HIDE DEF Unfolding, Deep
    <2> QED
        BY <2>2, <2>3
<1>7. Hydrate(own, kids) = CHOOSE f : Unfolding(SUBSET Lists, f)
    BY DEF Hydrate, Step, Page, Under
<1>8. Unfolding(SUBSET Lists, Hydrate(own, kids))
    <2> HIDE DEF Unfolding
    <2> QED
        BY <1>6, <1>7
<1>9. \A path \in SUBSET Lists : Hydrate(own, kids)[path] = Step(Hydrate(own, kids), path)
    BY <1>8
<1> QED
    BY <1>9 DEF Step

\* Induction on the lists that are not on the path.
LEMMA PageFacts ==
    ASSUME NEW own, NEW kids \in Nestings, NEW T,
           \A l \in Lists : /\ own[l] \subseteq T[l]
                            /\ \A c \in kids[l] : T[c] \subseteq T[l]
    PROVE  \A path \in SUBSET Lists : \A l \in Lists :
             /\ Hydrate(own, kids)[path][l].problems \subseteq T[l]
             /\ Hydrate(own, kids)[path][l].depth \in Nat
             /\ Hydrate(own, kids)[path][l].depth <= 1 + Cardinality(Lists \ path)
<1> DEFINE full == Hydrate(own, kids)
<1>0. \A path \in SUBSET Lists : \A l \in Lists : full[path][l] = Page(own, kids, path, l, full)
    BY HydrateUnfolds
<1> DEFINE Left(path) == Cardinality(Lists \ path)
           Good(path) == \A l \in Lists :
             /\ full[path][l].problems \subseteq T[l]
             /\ full[path][l].depth \in Nat
             /\ full[path][l].depth <= 1 + Left(path)
           Bad == {path \in SUBSET Lists : ~Good(path)}
           Sizes == {Left(path) : path \in Bad}
<1>1. \A path \in SUBSET Lists : IsFiniteSet(Lists \ path) /\ Left(path) \in Nat
    <2>1. \A path \in SUBSET Lists : Lists \ path \in SUBSET Lists
        OBVIOUS
    <2> QED
        BY <2>1, ListsAssumption, FS_Subset, FS_CardinalityType
<1>2. ASSUME NEW path \in SUBSET Lists, NEW c \in Lists \ path
      PROVE  path \cup {c} \in SUBSET Lists /\ Left(path \cup {c}) = Left(path) - 1
    <2>1. Lists \ (path \cup {c}) = (Lists \ path) \ {c}
        OBVIOUS
    <2>2. Cardinality((Lists \ path) \ {c}) = Cardinality(Lists \ path) - 1
        BY <1>1, FS_RemoveElement
    <2> QED
        BY <2>1, <2>2
<1> HIDE DEF Left
<1>3. SUFFICES ASSUME Bad # {} PROVE FALSE
    BY DEF Left
<1> HIDE DEF full
<1>4. PICK n \in Sizes : \A k \in Sizes : n <= k
    <2>1. Sizes \in SUBSET Nat /\ Sizes # {}
        BY <1>1, <1>3
    <2> HIDE DEF Sizes
    <2> QED
        BY <2>1, SmallestOf
<1>5. PICK path \in Bad : n = Left(path)
    OBVIOUS
<1>6. path \in SUBSET Lists /\ ~Good(path)
    BY <1>5
<1>7. ASSUME NEW c \in Lists \ path PROVE Good(path \cup {c})
    <2>1. path \cup {c} \in SUBSET Lists /\ ~(Left(path) <= Left(path \cup {c}))
        <3>1. Left(path) \in Nat
            BY <1>1, <1>6
        <3>2. path \cup {c} \in SUBSET Lists /\ Left(path \cup {c}) = Left(path) - 1
            BY <1>2, <1>6
        <3> QED
            BY <3>1, <3>2
    <2>2. path \cup {c} \notin Bad
        BY <1>4, <1>5, <2>1
    <2> QED
        BY <2>1, <2>2
<1>8. ASSUME NEW l \in Lists
      PROVE  /\ full[path][l].problems \subseteq T[l]
             /\ full[path][l].depth \in Nat
             /\ full[path][l].depth <= 1 + Left(path)
    <2> DEFINE under == Under(kids, path, l, full)
               levels == {0} \cup {h.depth : h \in under}
    <2>1. full[path][l] = Page(own, kids, path, l, full)
        BY <1>0, <1>6
    <2>2. ASSUME NEW h \in under
          PROVE  h.problems \subseteq T[l] /\ h.depth \in Nat /\ h.depth <= Left(path)
        <3>1. PICK c \in kids[l] \ path : h = full[path \cup {c}][c]
            BY DEF Under
        <3>2. c \in Lists \ path
            BY <3>1 DEF Nestings
        <3>3. /\ h.problems \subseteq T[c] /\ h.depth \in Nat
              /\ h.depth <= 1 + Left(path \cup {c})
            BY <1>7, <3>1, <3>2
        <3>4. Left(path \cup {c}) = Left(path) - 1 /\ Left(path) \in Nat
            BY <1>1, <1>2, <1>6, <3>2
        <3>5. h.depth <= Left(path)
            BY <3>3, <3>4
        <3> QED
            BY <3>1, <3>3, <3>5
    <2>3. Page(own, kids, path, l, full).problems \subseteq T[l]
        BY <2>2 DEF Page
    <2>4. Max(levels) \in levels
        <3>1. IsFiniteSet(under)
            <4>1. IsFiniteSet(kids[l] \ path)
                BY ListsAssumption, FS_Subset DEF Nestings
            <4> DEFINE below == [c \in kids[l] \ path |-> full[path \cup {c}][c]]
            <4>2. under = {below[c] : c \in kids[l] \ path}
                BY DEF Under
            <4> HIDE DEF below, under
            <4> QED
                BY <4>1, <4>2, ImageIsFinite
        <3>2. IsFiniteSet({h.depth : h \in under})
            <4> DEFINE depth == [h \in under |-> h.depth]
            <4>1. {h.depth : h \in under} = {depth[h] : h \in under}
                OBVIOUS
            <4> HIDE DEF depth, under
            <4> QED
                BY <3>1, <4>1, ImageIsFinite
        <3>3. IsFiniteSet(levels)
            <4>1. levels = {h.depth : h \in under} \cup {0}
                OBVIOUS
            <4> HIDE DEF levels, under
            <4> QED
                BY <3>2, <4>1, FS_AddElement
        <3>4. levels \in SUBSET Int /\ levels # {}
            BY <2>2
        <3> HIDE DEF levels
        <3> QED
            BY <3>3, <3>4, LargestOf
    <2>0. Left(path) \in Nat
        BY <1>1, <1>6
    <2>5. \A d \in levels : d \in Nat /\ d <= Left(path)
        <3>1. 0 <= Left(path)
            BY <2>0
        <3> QED
            BY <2>2, <3>1
    <2>6. Page(own, kids, path, l, full).depth = 1 + Max(levels)
        BY DEF Page
    <2> HIDE DEF levels
    <2>7. /\ Page(own, kids, path, l, full).depth \in Nat
          /\ Page(own, kids, path, l, full).depth <= 1 + Left(path)
        <3>1. Max(levels) \in Nat /\ Max(levels) <= Left(path)
            BY <2>4, <2>5
        <3> QED
            BY <2>0, <2>6, <3>1
    <2> QED
        BY <2>1, <2>3, <2>7
<1> QED
    BY <1>6, <1>8

\* Following a problem back to the list that holds it, round by round, never meets a list
\* on the path: those got it later, if at all. It stays among the lists that were read,
\* which have all their sublists among them.
LEMMA PageShows ==
    ASSUME sublists \in Nestings, listed \in Families, NEW m \in Nat, NEW tree,
           RoundsTo(m, listed, sublists, tree), NEW p, NEW read \in SUBSET Lists,
           \A l \in read : sublists[l] \subseteq read,
           NEW own, NEW kids \in Nestings,
           \A l \in read : kids[l] = sublists[l] /\ (p \in listed[l] => p \in own[l])
    PROVE  \A n \in 0..m : \A path \in SUBSET read : \A l \in path :
             /\ Comes(tree, p, n, l)
             /\ n # 0 => \A k \in path : p \notin tree[n - 1][k]
             => p \in Hydrate(own, kids)[path][l].problems
<1> DEFINE full == Hydrate(own, kids)
<1> DEFINE Shows(n) == \A path \in SUBSET read : \A l \in path :
             /\ Comes(tree, p, n, l)
             /\ n # 0 => \A k \in path : p \notin tree[n - 1][k]
             => p \in full[path][l].problems
           Bad == {n \in 0..m : ~Shows(n)}
<1>9. \A path \in SUBSET Lists : \A l \in Lists : full[path][l] = Page(own, kids, path, l, full)
    BY HydrateUnfolds
<1>1. SUFFICES ASSUME Bad # {} PROVE FALSE
    OBVIOUS
<1> HIDE DEF full
<1>2. PICK n \in Bad : \A k \in Bad : n <= k
    <2>1. Bad \in SUBSET Nat
        OBVIOUS
    <2> HIDE DEF Bad
    <2> QED
        BY <1>1, <2>1, SmallestOf
<1>3. n \in 0..m /\ ~Shows(n)
    OBVIOUS
<1>4. ASSUME n # 0 PROVE n \in 1..m /\ Shows(n - 1)
    <2>1. n \in 1..m /\ n - 1 \in 0..m /\ ~(n <= n - 1)
        BY <1>3, <1>4
    <2>2. n - 1 \notin Bad
        <3> HIDE DEF Bad
        <3> QED
            BY <1>2, <2>1
    <2> QED
        BY <2>1, <2>2
<1>0. PICK path \in SUBSET read : \E l \in path :
         /\ Comes(tree, p, n, l)
         /\ n # 0 => \A k \in path : p \notin tree[n - 1][k]
         /\ p \notin full[path][l].problems
    BY <1>3
<1>5. PICK l \in path :
         /\ Comes(tree, p, n, l)
         /\ n # 0 => \A k \in path : p \notin tree[n - 1][k]
         /\ p \notin full[path][l].problems
    BY <1>0
<1>6. /\ l \in Lists /\ path \in SUBSET Lists
      /\ kids[l] = sublists[l] /\ sublists[l] \subseteq read
      /\ p \in listed[l] => p \in own[l]
      /\ full[path][l].problems
           = own[l] \cup UNION {h.problems : h \in Under(kids, path, l, full)}
    <2>1. full[path][l] = Page(own, kids, path, l, full)
        BY <1>5, <1>9
    <2> QED
        BY <1>5, <2>1 DEF Page
<1>7. CASE n = 0
    <2>1. tree[0] = listed
        BY RoundsGrow
    <2> QED
        BY <1>5, <1>6, <1>7, <2>1 DEF Comes
<1>8. CASE n # 0
    <2>1. PICK c \in sublists[l] : c \in Lists /\ Comes(tree, p, n - 1, c)
        BY <1>4, <1>5, <1>6, <1>8, ComesFromChild
    <2>2. c \notin path
        BY <1>5, <1>8, <2>1 DEF Comes
    <2>3. ASSUME n - 1 # 0, NEW k \in path \cup {c} PROVE p \notin tree[(n - 1) - 1][k]
        <3>1. CASE k = c
            BY <2>1, <2>3, <3>1 DEF Comes
        <3>2. CASE k \in path
            <4>1. n - 1 \in 0..m /\ (n - 1) - 1 \in 0..(n - 1)
                BY <1>4, <1>8, <2>3
            <4>2. k \in Lists /\ p \notin tree[n - 1][k]
                BY <1>5, <1>8, <3>2
            <4>3. tree[(n - 1) - 1][k] \subseteq tree[n - 1][k]
                BY <4>1, <4>2, RoundsGrow
            <4> QED
                BY <4>2, <4>3
        <3> QED
            BY <3>1, <3>2
    <2>4. p \in full[path \cup {c}][c].problems
        <3>1. path \cup {c} \in SUBSET read /\ c \in path \cup {c}
            BY <1>6, <2>1
        <3>2. Shows(n - 1)
            BY <1>4, <1>8
        <3> DEFINE i == n - 1
        <3>3. Shows(i) /\ Comes(tree, p, i, c)
              /\ (i # 0 => \A k \in path \cup {c} : p \notin tree[i - 1][k])
            BY <2>1, <2>3, <3>2
        <3> HIDE DEF i
        <3> QED
            BY <3>1, <3>3
    <2>5. full[path \cup {c}][c] \in Under(kids, path, l, full)
        BY <1>6, <2>1, <2>2 DEF Under
    <2> QED
        BY <1>5, <1>6, <2>4, <2>5
<1> QED
    BY <1>7, <1>8

\* What the problems of the lists stay within, the page stays within.
LEMMA PageWithin ==
    ASSUME NEW own, NEW kids \in Nestings, NEW T, NEW l \in Lists,
           \A k \in Lists : own[k] \subseteq T[k] /\ \A c \in kids[k] : T[c] \subseteq T[k]
    PROVE  /\ Hydrate(own, kids)[{l}][l].problems \subseteq T[l]
           /\ Hydrate(own, kids)[{l}][l].depth <= Cardinality(Lists)
<1> DEFINE N == Cardinality(Lists)
<1>1. N \in Nat
    BY ListsAssumption, FS_CardinalityType
<1>2. {l} \in SUBSET Lists /\ l \in {l}
    OBVIOUS
<1>3. /\ Hydrate(own, kids)[{l}][l].problems \subseteq T[l]
      /\ Hydrate(own, kids)[{l}][l].depth \in Nat
      /\ Hydrate(own, kids)[{l}][l].depth <= 1 + Cardinality(Lists \ {l})
    <2>1. \A path \in SUBSET Lists : \A k \in Lists :
             /\ Hydrate(own, kids)[path][k].problems \subseteq T[k]
             /\ Hydrate(own, kids)[path][k].depth \in Nat
             /\ Hydrate(own, kids)[path][k].depth <= 1 + Cardinality(Lists \ path)
        BY PageFacts
    <2> QED
        BY <1>2, <2>1
<1>4. Cardinality(Lists \ {l}) = N - 1
    BY ListsAssumption, FS_RemoveElement
<1> DEFINE depth == Hydrate(own, kids)[{l}][l].depth
<1> HIDE DEF N, depth
<1>5. depth \in Nat /\ depth <= 1 + (N - 1)
    BY <1>3, <1>4 DEF depth
<1>6. depth <= N
    BY <1>1, <1>5
<1> QED
    BY <1>3, <1>6 DEF N, depth

\* The lists under a list, and under those: found in the rounds in which they come up.
LEMMA ListsUnder ==
    ASSUME sublists \in Nestings, NEW l \in Lists
    PROVE  /\ DeepSublists(l) \in SUBSET Lists /\ l \in DeepSublists(l)
           /\ \A m \in DeepSublists(l) : sublists[m] \subseteq DeepSublists(l)
<1> DEFINE self == [m \in Lists |-> {m}]
           T == PbListTree(self, sublists)
           N == Cardinality(Lists)
<1>1. N \in Nat /\ N + 1 \in Nat
    BY ListsAssumption, FS_CardinalityType
<1>2. self \in Families
    BY DEF Families
<1>3. \A m \in Lists : self[m] = {m}
    OBVIOUS
<1>4. DeepSublists(l) = T[l]
    BY DEF DeepSublists
<1> HIDE DEF self
<1>5. PICK tree :
        /\ RoundsTo(N + 1, self, sublists, tree)
        /\ \A k \in Lists :
             /\ self[k] \subseteq T[k] /\ \A c \in sublists[k] : T[c] \subseteq T[k]
             /\ \A m \in T[k] : \E n \in 0..N : Comes(tree, m, n, k)
    BY <1>2, TreeFacts
<1> HIDE DEF T, N
<1>6. tree[0] = self
    BY <1>1, <1>2, <1>5, RoundsGrow
<1>7. \A k \in Lists : k \in T[k]
    BY <1>3, <1>5
<1>8. ASSUME NEW m \in T[l] PROVE m \in Lists
    <2>1. PICK n \in 0..(N + 1) : Comes(tree, m, n, l)
        BY <1>1, <1>5
    <2>2. \A k \in 0..n : \E c \in Lists : Comes(tree, m, k, c)
        BY <1>1, <1>2, <1>5, <2>1, EarlierRounds
    <2>3. PICK c \in Lists : Comes(tree, m, 0, c)
        BY <2>2
    <2> QED
        BY <1>3, <1>6, <2>3 DEF Comes
<1>9. ASSUME NEW m \in T[l], NEW d \in sublists[m] PROVE d \in T[l]
    <2>1. m \in Lists /\ d \in Lists
        BY <1>8 DEF Nestings
    <2> DEFINE Good(n) == \A k \in Lists : Comes(tree, m, n, k) => d \in T[k]
               Bad == {n \in 0..N : ~Good(n)}
    <2>2. Bad = {}
        <3>1. SUFFICES ASSUME Bad # {} PROVE FALSE
            OBVIOUS
        <3>2. PICK n \in Bad : \A k \in Bad : n <= k
            <4>1. Bad \in SUBSET Nat
                OBVIOUS
            <4> HIDE DEF Bad
            <4> QED
                BY <3>1, <4>1, SmallestOf
        <3>3. n \in 0..N /\ ~Good(n)
            OBVIOUS
        <3>4. PICK k \in Lists : Comes(tree, m, n, k) /\ d \notin T[k]
            BY <3>3
        <3>5. n # 0
            <4>1. ASSUME n = 0 PROVE m = k
                BY <1>3, <1>6, <3>4, <4>1 DEF Comes
            <4>2. d \in sublists[k] => d \in T[k]
                BY <1>5, <1>7, <2>1, <3>4
            <4> QED
                BY <3>4, <4>1, <4>2
        <3>6. n \in 1..(N + 1) /\ n - 1 \in 0..N /\ ~(n <= n - 1)
            BY <1>1, <3>3, <3>5
        <3>7. PICK c \in sublists[k] : c \in Lists /\ Comes(tree, m, n - 1, c)
            BY <1>1, <1>2, <1>5, <3>4, <3>6, ComesFromChild
        <3>8. Good(n - 1)
            <4>1. n - 1 \notin Bad
                <5> HIDE DEF Bad
                <5> QED
                    BY <3>2, <3>6
            <4> QED
                BY <3>6, <4>1
        <3> QED
            BY <1>5, <3>4, <3>7, <3>8
    <2>3. PICK n \in 0..N : Comes(tree, m, n, l)
        BY <1>5
    <2> QED
        BY <2>2, <2>3
<1> QED
    BY <1>4, <1>7, <1>8, <1>9

\* A page whose queries returned what there is shows what its tree holds, of the problems
\* pbs: own and kids are what hydrateFullList finds of the lists' problems and sublists.
Filters(own, pbs) == \A k \in Lists : own[k] = listed[k] \cap pbs
Unfolds(kids, l) ==
    /\ kids \in Nestings
    /\ \A k \in Lists : kids[k] = (IF k \in DeepSublists(l) THEN sublists[k] ELSE {})
                                     \cap DeepSublists(l)

LEMMA PageIsTree ==
    ASSUME sublists \in Nestings, listed \in Families, NEW l \in Lists,
           NEW own, NEW pbs, Filters(own, pbs), NEW kids, Unfolds(kids, l)
    PROVE  Hydrate(own, kids)[{l}][l].problems = PbListTree(listed, sublists)[l] \cap pbs
<1> DEFINE T == PbListTree(listed, sublists)
           N == Cardinality(Lists)
           full == Hydrate(own, kids)
           read == DeepSublists(l)
<1>6. /\ read \in SUBSET Lists /\ l \in read
      /\ \A k \in read : sublists[k] \subseteq read
    BY ListsUnder
<1> HIDE DEF read
<1>7. kids \in Nestings /\ \A k \in Lists : own[k] = listed[k] \cap pbs
    BY DEF Unfolds, Filters
<1>8. /\ \A k \in Lists : kids[k] \subseteq sublists[k]
      /\ \A k \in read : kids[k] = sublists[k]
    <2>1. \A k \in Lists : kids[k] = (IF k \in read THEN sublists[k] ELSE {}) \cap read
        BY DEF Unfolds, read
    <2> QED
        BY <1>6, <2>1
<1>0. full = Hydrate(own, kids)
    OBVIOUS
<1>1. N \in Nat /\ N + 1 \in Nat
    BY ListsAssumption, FS_CardinalityType
<1>2. PICK tree :
        /\ RoundsTo(N + 1, listed, sublists, tree)
        /\ \A k \in Lists :
             /\ listed[k] \subseteq T[k] /\ \A c \in sublists[k] : T[c] \subseteq T[k]
             /\ \A p \in T[k] : \E n \in 0..N : Comes(tree, p, n, k)
    BY TreeFacts
<1> HIDE DEF T, full, N
<1>3. l \in Lists /\ {l} \in SUBSET read /\ l \in {l}
    BY <1>6
<1>4. full[{l}][l].problems \subseteq T[l] \cap pbs
    <2> DEFINE within == [k \in Lists |-> T[k] \cap pbs]
    <2>1. \A k \in Lists : own[k] \subseteq within[k]
        BY <1>2, <1>7
    <2>2. \A k \in Lists : \A c \in kids[k] : c \in Lists /\ within[c] \subseteq within[k]
        BY <1>2, <1>7, <1>8 DEF Nestings
    <2>3. within[l] = T[l] \cap pbs
        BY <1>3
    <2> HIDE DEF within
    <2>4. \A k \in Lists : own[k] \subseteq within[k] /\ \A c \in kids[k] : within[c] \subseteq within[k]
        BY <2>1, <2>2
    <2> QED
        BY <1>0, <1>3, <1>7, <2>3, <2>4, PageWithin
<1>5. ASSUME NEW p \in T[l] \cap pbs PROVE p \in full[{l}][l].problems
    <2>1. PICK n \in 0..N : Comes(tree, p, n, l)
        BY <1>2, <1>3
    <2>2. n \in 0..(N + 1) /\ (n # 0 => \A k \in {l} : p \notin tree[n - 1][k])
        BY <1>1, <2>1 DEF Comes
    <2>3. \A k \in read : kids[k] = sublists[k] /\ (p \in listed[k] => p \in own[k])
        BY <1>6, <1>7, <1>8
    <2> DEFINE m == N + 1
    <2>4. m \in Nat /\ RoundsTo(m, listed, sublists, tree)
        BY <1>1, <1>2
    <2> HIDE DEF m
    <2>5. \A i \in 0..m : \A path \in SUBSET read : \A k \in path :
             /\ Comes(tree, p, i, k)
             /\ i # 0 => \A d \in path : p \notin tree[i - 1][d]
             => p \in Hydrate(own, kids)[path][k].problems
        BY <1>6, <1>7, <2>3, <2>4, PageShows
    <2> QED
        BY <1>0, <1>3, <2>1, <2>2, <2>5 DEF m
<1> QED
    BY <1>4, <1>5 DEF T, full

\* The inductive invariant: the views are what the last refresh made of the tables, and
\* what a page's queries returned is what there is, if no edit came in between.
ViewsFresh ==
    /\ sublists \in Nestings /\ listed \in Families
    /\ deep = PbListTree(listed, sublists)
    /\ count = [l \in Lists |-> Cardinality(deep[l])]

PageRow ==
    /\ page = [step |-> page.step, root |-> page.root, lists |-> page.lists, num |-> page.num,
               listed |-> page.listed, children |-> page.children, unread |-> page.unread]
    /\ page.root \in Lists /\ page.lists \in SUBSET Lists /\ page.children \in Nestings
    /\ page.unread \subseteq page.lists

PageIsCurrent ==
    /\ page.lists = DeepSublists(page.root)
    /\ page.listed = listed /\ page.num = count[page.root]
    /\ \A m \in Lists :
          page.children[m] = IF m \in page.lists \ page.unread THEN sublists[m] ELSE {}

ListInv ==
    /\ ViewsFresh
    /\ edits \in Nat /\ (page.step = "none" => page = NoPage)
    /\ page.step = "sublists" => PageRow /\ (edits = 0 => PageIsCurrent)
    /\ PageMatchesCount

\* Without problems the tree is empty: a problem would have come in the first round.
LEMMA ViewsFreshInit == ListInit => ViewsFresh
<1> SUFFICES ASSUME ListInit PROVE ViewsFresh
    OBVIOUS
<1>1. sublists \in Nestings /\ listed \in Families
    BY DEF ListInit, Nestings, Families
<1> DEFINE T == PbListTree(listed, sublists)
           N == Cardinality(Lists)
<1>2. PICK tree :
        /\ RoundsTo(N + 1, listed, sublists, tree) /\ T \in Families
        /\ \A k \in Lists : \A p \in T[k] : \E n \in 0..N : Comes(tree, p, n, k)
    BY <1>1, TreeFacts
<1>3. N \in Nat /\ N + 1 \in Nat
    BY ListsAssumption, FS_CardinalityType
<1> HIDE DEF T, N
<1>4. ASSUME NEW l \in Lists, NEW p \in T[l] PROVE FALSE
    <2>1. PICK n \in 0..(N + 1) : Comes(tree, p, n, l)
        BY <1>2, <1>3
    <2>2. \A k \in 0..n : \E c \in Lists : Comes(tree, p, k, c)
        BY <1>1, <1>2, <1>3, <2>1, EarlierRounds
    <2>3. 0 \in 0..n
        OBVIOUS
    <2>4. PICK c \in Lists : Comes(tree, p, 0, c)
        BY <2>2, <2>3
    <2>5. tree[0] = listed
        BY <1>1, <1>2, <1>3, RoundsGrow
    <2> QED
        BY <2>4, <2>5 DEF Comes, ListInit
<1>5. T = [l \in Lists |-> {}]
    BY <1>2, <1>4 DEF Families
<1>6. count = [l \in Lists |-> Cardinality(deep[l])]
    BY FS_EmptySet DEF ListInit
<1> QED
    BY <1>1, <1>5, <1>6 DEF ViewsFresh, ListInit, T

LEMMA ListInvInit == ListInit => ListInv
<1> SUFFICES ASSUME ListInit PROVE ListInv
    OBVIOUS
<1>1. page.step = "none" /\ page = NoPage /\ edits = 0
    BY DEF ListInit, NoPage
<1> QED
    BY <1>1, ViewsFreshInit DEF ListInv, PageMatchesCount

\* An edit keeps the views fresh and counts: a page under way is not current any more.
LEMMA EditStep ==
    ASSUME ListInv, ViewsFresh', ListEdited
    PROVE  ListInv'
<1>1. page' = page /\ edits' \in Nat
    BY DEF ListEdited, ListInv
<1>2. CASE page = NoPage
    <2>1. page.step = "none"
        BY <1>2 DEF NoPage
    <2> QED
        BY <1>1, <1>2, <2>1 DEF ListInv, PageMatchesCount
<1>3. CASE page # NoPage
    <2>1. edits' # 0
        BY <1>3 DEF ListEdited, ListInv
    <2>2. PageMatchesCount'
        BY <1>1, <2>1 DEF ListInv, PageMatchesCount
    <2>3. page.step = "sublists" => PageRow'
        BY <1>1 DEF ListInv, PageRow
    <2> QED
        BY <1>1, <2>1, <2>2, <2>3 DEF ListInv
<1> QED
    BY <1>2, <1>3

LEMMA ListInvNext == ListInv /\ [ListNext]_listVars => ListInv'
<1> SUFFICES ASSUME ListInv, [ListNext]_listVars PROVE ListInv'
    OBVIOUS
<1>1. ASSUME NEW l \in Lists, NEW pbs \in SUBSET ListedProblems,
             UpdateProblemListProblems(l, pbs)
      PROVE  ListInv'
    <2>1. ViewsFresh'
        BY <1>1 DEF UpdateProblemListProblems, Refresh, ListInv, ViewsFresh, Families, Nestings
    <2> QED
        BY <1>1, <2>1, EditStep DEF UpdateProblemListProblems
<1>2. ASSUME NEW l \in Lists, NEW children \in SUBSET Lists,
             UpdateProblemListSublists(l, children)
      PROVE  ListInv'
    <2>1. ViewsFresh'
        BY <1>2 DEF UpdateProblemListSublists, Refresh, ListInv, ViewsFresh, Families, Nestings
    <2> QED
        BY <1>2, <2>1, EditStep DEF UpdateProblemListSublists
<1>3. ASSUME NEW l \in Lists, DeleteProblemList(l) PROVE ListInv'
    <2>1. ViewsFresh'
        BY <1>3 DEF DeleteProblemList, Refresh, ListInv, ViewsFresh, Families, Nestings
    <2> QED
        BY <1>3, <2>1, EditStep DEF DeleteProblemList
<1>4. ASSUME NEW l \in Lists, ReadLists(l) PROVE ListInv'
    <2> USE <1>4 DEF ReadLists
    <2>1. ViewsFresh'
        BY DEF ListInv, ViewsFresh
    <2>2. /\ page'.step = "sublists" /\ page'.root = l /\ page'.lists = DeepSublists(l)
          /\ page'.listed = listed /\ page'.num = count[l] /\ page'.unread = DeepSublists(l)
          /\ page'.children = [m \in Lists |-> {}] /\ edits' = 0
          /\ UNCHANGED <<sublists, listed, deep, count>>
        OBVIOUS
    <2>3. PageRow'
        <3>1. DeepSublists(l) \in SUBSET Lists /\ [m \in Lists |-> {}] \in Nestings
            BY ListsUnder DEF ListInv, ViewsFresh, Nestings
        <3> QED
            BY <2>2, <3>1 DEF PageRow
    <2>4. PageIsCurrent'
        <3>1. DeepSublists(l)' = DeepSublists(l)
            BY <2>2 DEF DeepSublists
        <3> QED
            BY <2>2, <3>1 DEF PageIsCurrent
    <2> QED
        BY <2>1, <2>2, <2>3, <2>4 DEF ListInv, PageMatchesCount
<1>5. ASSUME NEW m \in Lists, ReadSublists(m) PROVE ListInv'
    <2>1. PageRow /\ page.step = "sublists" /\ m \in page.unread
          /\ UNCHANGED <<sublists, listed, deep, count, edits>>
        BY <1>5 DEF ReadSublists, ListInv
    <2>2. page' = [page EXCEPT !.children[m] = sublists[m], !.unread = @ \ {m}]
        BY <1>5 DEF ReadSublists
    <2>3. /\ page'.step = "sublists" /\ page'.root = page.root /\ page'.lists = page.lists
          /\ page'.listed = page.listed /\ page'.num = page.num
          /\ page'.unread = page.unread \ {m}
          /\ page'.children = [page.children EXCEPT ![m] = sublists[m]]
          /\ page' = [step |-> page'.step, root |-> page'.root, lists |-> page'.lists,
                      num |-> page'.num, listed |-> page'.listed,
                      children |-> page'.children, unread |-> page'.unread]
        BY <2>1, <2>2 DEF PageRow
    <2>4. ViewsFresh'
        BY <2>1 DEF ListInv, ViewsFresh
    <2>5. page'.children \in Nestings
        BY <2>1, <2>3 DEF PageRow, ListInv, ViewsFresh, Nestings
    <2>6. PageRow'
        BY <2>1, <2>3, <2>5 DEF PageRow
    <2>7. ASSUME edits' = 0 PROVE PageIsCurrent'
        <3>1. PageIsCurrent
            BY <2>1, <2>7 DEF ListInv
        <3>2. DeepSublists(page.root)' = DeepSublists(page.root)
            BY <2>1, <2>3 DEF DeepSublists
        <3>3. ASSUME NEW k \in Lists
              PROVE  page'.children[k] =
                        IF k \in page'.lists \ page'.unread THEN sublists[k] ELSE {}
            <4>1. page.children[k] = IF k \in page.lists \ page.unread THEN sublists[k] ELSE {}
                BY <3>1 DEF PageIsCurrent
            <4>2. m \in page.lists
                BY <2>1 DEF PageRow
            <4>3. page'.children[k] = IF k = m THEN sublists[m] ELSE page.children[k]
                BY <2>1, <2>3 DEF PageRow, Nestings
            <4> QED
                BY <2>3, <4>1, <4>2, <4>3
        <3> QED
            BY <2>1, <2>3, <3>1, <3>2, <3>3 DEF PageIsCurrent
    <2> QED
        BY <2>1, <2>3, <2>4, <2>6, <2>7 DEF ListInv, PageMatchesCount
<1>6. ASSUME NEW visible \in SUBSET ListedProblems, ReadProblems(visible) PROVE ListInv'
    <2> DEFINE pbs == visible \cap deep[page.root]
               own == [k \in Lists |-> page.listed[k] \cap pbs]
               kids == [k \in Lists |-> page.children[k] \cap page.lists]
               full == Hydrate(own, kids)[{page.root}][page.root]
    <2>1. /\ page.step = "sublists" /\ page.unread = {} /\ PageRow
          /\ UNCHANGED <<sublists, listed, deep, count, edits>>
        BY <1>6 DEF ReadProblems, ListInv
    <2>2. page' = [step |-> "shown", root |-> page.root, num |-> page.num, visible |-> visible,
                   problems |-> full.problems, depth |-> full.depth]
        BY <1>6 DEF ReadProblems
    <2>3. ViewsFresh'
        BY <2>1 DEF ListInv, ViewsFresh
    <2>4. kids \in Nestings /\ page.root \in Lists /\ page.lists \in SUBSET Lists
        BY <2>1 DEF PageRow, Nestings
    <2>5. \A k \in Lists : own[k] = page.listed[k] \cap pbs
                           /\ kids[k] = page.children[k] \cap page.lists
        OBVIOUS
    <2>6. pbs \subseteq visible /\ pbs \subseteq deep[page.root]
        OBVIOUS
    <2>7. pbs = deep[page.root] \cap visible
        OBVIOUS
    <2> DEFINE problems == full.problems
               depth == full.depth
    <2>8. problems \subseteq visible /\ depth <= Cardinality(Lists)
        <3> DEFINE T == [k \in Lists |-> pbs]
        <3>1. \A k \in Lists : own[k] \subseteq T[k] /\ \A c \in kids[k] : T[c] \subseteq T[k]
            <4>1. \A k \in Lists : T[k] = pbs
                OBVIOUS
            <4>2. \A k \in Lists : \A c \in kids[k] : c \in Lists
                BY <2>4 DEF Nestings
            <4> HIDE DEF T, pbs, own, kids
            <4> QED
                BY <2>5, <4>1, <4>2
        <3>2. T[page.root] = pbs
            BY <2>4
        <3> HIDE DEF T, pbs, own, kids
        <3> QED
            BY <2>4, <2>6, <3>1, <3>2, PageWithin
    <2>9. ASSUME edits' = 0
          PROVE  /\ problems = deep[page.root] \cap visible
                 /\ deep[page.root] \subseteq visible => page.num = Cardinality(problems)
        <3>1. PageIsCurrent
            BY <2>1, <2>9 DEF ListInv
        <3> DEFINE read == page.lists
                   root == page.root
        <3>3. Filters(own, pbs)
            BY <2>5, <3>1 DEF PageIsCurrent, Filters
        <3>4. \A k \in Lists :
                 kids[k] = (IF k \in read THEN sublists[k] ELSE {}) \cap read
            BY <2>1, <2>5, <3>1 DEF PageIsCurrent
        <3>5. /\ sublists \in Nestings /\ listed \in Families
              /\ deep = PbListTree(listed, sublists)
              /\ count[root] = Cardinality(deep[root])
            BY <2>4 DEF ListInv, ViewsFresh
        <3> HIDE DEF pbs, own, kids, read, root
        <3>7. Hydrate(own, kids)[{root}][root].problems = deep[root] \cap pbs
            <4>1. Unfolds(kids, root)
                BY <2>4, <3>1, <3>4 DEF PageIsCurrent, Unfolds, read, root
            <4>2. root \in Lists
                BY <2>4 DEF root
            <4> QED
                BY <3>3, <3>5, <4>1, <4>2, PageIsTree
        <3>8. problems = deep[root] \cap visible
            BY <2>7, <3>7 DEF root
        <3>9. page.num = Cardinality(deep[root])
            BY <3>1, <3>5 DEF PageIsCurrent, root
        <3>10. ASSUME deep[root] \subseteq visible PROVE page.num = Cardinality(problems)
            <4>1. problems = deep[root]
                BY <3>8, <3>10
            <4> QED
                BY <3>9, <4>1
        <3> QED
            BY <3>8, <3>10 DEF root
    <2>10. /\ page'.step = "shown" /\ page'.root = page.root /\ page'.num = page.num
           /\ page'.visible = visible /\ page'.problems = problems /\ page'.depth = depth
        BY <2>2
    <2> HIDE DEF problems, depth, full, own, kids, pbs
    <2>11. PageMatchesCount'
        BY <2>1, <2>8, <2>9, <2>10 DEF PageMatchesCount
    <2> QED
        BY <2>1, <2>3, <2>10, <2>11 DEF ListInv
<1>7. CASE UNCHANGED listVars
    <2>1. PageMatchesCount'
        BY <1>7 DEF listVars, ListInv, PageMatchesCount
    <2>2. ViewsFresh' /\ (PageRow => PageRow') /\ (PageIsCurrent => PageIsCurrent')
        BY <1>7 DEF listVars, ListInv, ViewsFresh, PageRow, PageIsCurrent, DeepSublists
    <2> QED
        BY <1>7, <2>1, <2>2 DEF listVars, ListInv
<1> QED
    BY <1>1, <1>2, <1>3, <1>4, <1>5, <1>6, <1>7 DEF ListNext

\* However lists are nested and edited, the page of a list shows what its viewer may see of
\* what its count counts.
THEOREM PagesMatchCounts == ListSpec => []PageMatchesCount
<1>1. ListInit => ListInv
    BY ListInvInit
<1>2. ListInv /\ [ListNext]_listVars => ListInv'
    BY ListInvNext
<1>3. ListInv => PageMatchesCount
    BY DEF ListInv
<1> QED
    BY <1>1, <1>2, <1>3, PTL DEF ListSpec
=============================================================================
