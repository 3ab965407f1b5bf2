------------------------------ MODULE Renders ------------------------------
(***************************************************************************)
(* The rendered form of one attachment, a statement or an image, kept as a *)
(* file in the attachments bucket (sudoapi/attachment.go, api/assets.go,   *)
(* sudoapi/datastore.go, local_bucket.go): page views that find no render  *)
(* make one of the data they read, while editors change the data and       *)
(* delete the renders. A view that finds a render serves it as it is and   *)
(* changes nothing, so it is not an action.                                *)
(***************************************************************************)
EXTENDS Naturals

CONSTANTS Views, Edits,         \* page views, changes under way at the same time
          MaxEdits              \* bound

ASSUME RenderAssumption == MaxEdits \in Nat

VARIABLES
    content,            \* the attachment's data: how often it was changed
    render,             \* the file: of which data, and is it whole; or NoFile
    view,               \* each view: what it has read and how far it is
    edit,               \* each change: what it has still to do
    flaw                \* history: why the file may be wrong, see RenderExplained

renderVars == <<content, render, view, edit, flaw>>

NoFile == [of |-> 0, whole |-> FALSE]
NoView == [step |-> "none", read |-> 0, linked |-> FALSE]
File(of, whole) == [of |-> of, whole |-> whole]

\* The file goes; whoever is writing it goes on writing a file without a name.
Unlink == [v \in Views |-> [view[v] EXCEPT !.linked = FALSE]]

LateIf(read) == IF read # content THEN "late" ELSE "none"

-----------------------------------------------------------------------------
(* RenderedProblemDesc, RenderedBlogPostDesc and the handler of images.    *)

\* There is no render, so the data is read from the database.
ReadData(v) ==
    /\ view[v] = NoView /\ render = NoFile
    /\ view' = [view EXCEPT ![v] = [step |-> "save", read |-> content, linked |-> FALSE]]
    /\ UNCHANGED <<content, render, edit, flaw>>

\* SaveAttachmentRender opens the file and truncates it. The data may have been changed
\* since it was read, and its renders been deleted: then the file is wrong for good.
OpenRender(v) ==
    /\ view[v].step = "save"
    /\ render' = File(view[v].read, FALSE)
    /\ flaw' = LateIf(view[v].read)
    /\ view' = [view EXCEPT ![v].step = "fill", ![v].linked = TRUE]
    /\ UNCHANGED <<content, edit>>

\* Every writer writes from the beginning. If another one has filled the file since it
\* was truncated, with a longer render, the end of that one stays.
FillRender(v) ==
    /\ view[v].step = "fill"
    /\ LET read == view[v].read
           overwrites == render.whole /\ render.of # read IN
         IF ~view[v].linked
           THEN UNCHANGED <<render, flaw>>
           ELSE \/ render' = File(read, TRUE) /\ flaw' = LateIf(read)
                \/ overwrites /\ render' = File(read, FALSE) /\ flaw' = "mixed"
    /\ view' = [view EXCEPT ![v] = NoView]
    /\ UNCHANGED <<content, edit>>

-----------------------------------------------------------------------------
(* A change, and then DelAttachmentRenders: it lists the bucket and        *)
(* removes what it has listed.                                             *)

\* Mutant of UpdateAttachmentData: the renders are not deleted.
UpdateDataOnly(e) ==
    /\ edit[e] = "none" /\ content <= MaxEdits
    /\ content' = content + 1
    /\ UNCHANGED <<render, view, edit, flaw>>

UpdateAttachmentData(e) ==
    /\ edit[e] = "none" /\ content <= MaxEdits
    /\ content' = content + 1
    /\ edit' = [edit EXCEPT ![e] = "list"]
    /\ UNCHANGED <<render, view, flaw>>

\* Name and visibility; the renders go all the same.
UpdateAttachment(e) ==
    /\ edit[e] = "none"
    /\ edit' = [edit EXCEPT ![e] = "list"]
    /\ UNCHANGED <<content, render, view, flaw>>

ListRenders(e) ==
    /\ edit[e] = "list"
    /\ edit' = [edit EXCEPT ![e] = IF render = NoFile THEN "none" ELSE "remove"]
    /\ UNCHANGED <<content, render, view, flaw>>

RemoveRender(e) ==
    /\ edit[e] = "remove"
    /\ render' = NoFile /\ view' = Unlink /\ flaw' = "none"
    /\ edit' = [edit EXCEPT ![e] = "none"]
    /\ UNCHANGED content

\* The bucket cannot be listed or the file not be removed: a warning in the log.
RemovalFails(e) ==
    /\ edit[e] # "none"
    /\ edit' = [edit EXCEPT ![e] = "none"]
    /\ flaw' = "kept"
    /\ UNCHANGED <<content, render, view>>

\* The administrator's ResetCache, or the eviction policy.
ResetCache ==
    /\ render # NoFile
    /\ render' = NoFile /\ view' = Unlink /\ flaw' = "none"
    /\ UNCHANGED <<content, edit>>

\* The process ends and starts again; files stay as they are.
RenderRestart ==
    /\ view' = [v \in Views |-> NoView]
    /\ edit' = [e \in Edits |-> "none"]
    /\ flaw' = IF render \in {NoFile, File(content, TRUE)} THEN flaw ELSE "cut"
    /\ UNCHANGED <<content, render>>

RenderInit ==
    /\ content = 1 /\ render = NoFile /\ flaw = "none"
    /\ view = [v \in Views |-> NoView]
    /\ edit = [e \in Edits |-> "none"]

RenderNext ==
    \/ \E v \in Views : ReadData(v) \/ OpenRender(v) \/ FillRender(v)
    \/ \E e \in Edits : \/ UpdateAttachmentData(e) \/ UpdateAttachment(e)
                        \/ ListRenders(e) \/ RemoveRender(e) \/ RemovalFails(e)
    \/ ResetCache \/ RenderRestart

RenderSpec == RenderInit /\ [][RenderNext]_renderVars

-----------------------------------------------------------------------------
\* The domains of the variables; used by the proofs.
RenderTypeOK ==
    /\ content \in Nat
    /\ render \in [of : Nat, whole : BOOLEAN]
    /\ view \in [Views -> [step : {"none", "save", "fill"}, read : Nat, linked : BOOLEAN]]
    /\ edit \in [Edits -> {"none", "list", "remove"}]
    /\ flaw \in {"none", "late", "mixed", "kept", "cut"}

\* A page shows the whole render of the data there is, unless the file is being written
\* or about to be removed, or for one of the reasons kept in flaw: it was written from
\* data read before a change and saved after the removal, two writers of different data
\* met in it, it could not be removed, or the process ended over it.
RenderExplained ==
    render \notin {NoFile, File(content, TRUE)} =>
        \/ flaw # "none"
        \/ \E v \in Views : view[v].step = "fill" /\ view[v].linked
        \/ \E e \in Edits : edit[e] # "none"
=============================================================================
