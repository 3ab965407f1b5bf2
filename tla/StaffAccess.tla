---------------------------- MODULE StaffAccess ----------------------------
(***************************************************************************)
(* The staff of one problem or of one contest: the rows of                 *)
(* problem_user_access or contest_user_access, and the requests of editors *)
(* that change them. A change of rank is two statements, a deletion and an *)
(* insertion, and the right to make it was checked before both.            *)
(***************************************************************************)
CONSTANTS Accounts, SiteAdmins,     \* accounts; those with the admin flag
          Author,                   \* who created the problem or the contest
          StaffRequests             \* requests under way at the same time

ASSUME StaffAssumption == SiteAdmins \subseteq Accounts /\ Author \in Accounts

VARIABLES
    rank,               \* access of each account: "none", "viewer" or "editor"
    staffRequest,       \* what each request has decided and not yet done
    mishap              \* history: see EditorKept

staffVars == <<rank, staffRequest, mishap>>

Ranks == {"none", "viewer", "editor"}
NoRequest == [step |-> "none"]

MayEdit(u) == u \in SiteAdmins \/ rank[u] = "editor"

\* Mutant of ChangeStaff: editors may strip or demote themselves.
ChangeAnyStaff(r, e, u, new) ==
    /\ staffRequest[r] = NoRequest /\ MayEdit(e)
    /\ staffRequest' = [staffRequest EXCEPT ![r] =
            [step |-> "strip", by |-> e, user |-> u, new |-> new]]
    /\ UNCHANGED <<rank, mishap>>

\* "You can't strip your own access", "You can't demote yourself": only an addition as
\* editor may concern oneself.
ChangeStaff(r, e, u, new) ==
    /\ staffRequest[r] = NoRequest /\ MayEdit(e)
    /\ new = "editor" \/ u # e
    /\ staffRequest' = [staffRequest EXCEPT ![r] =
            [step |-> "strip", by |-> e, user |-> u, new |-> new]]
    /\ UNCHANGED <<rank, mishap>>

\* The DELETE of removeAccess. When a rank is added the insertion follows.
StripAccess(r) ==
    /\ staffRequest[r].step = "strip"
    /\ LET q == staffRequest[r] IN
         /\ rank' = [rank EXCEPT ![q.user] = "none"]
         /\ mishap' = (mishap \/ rank[q.by] # "editor")
         /\ staffRequest' = [staffRequest EXCEPT ![r] =
                IF q.new = "none" THEN NoRequest
                ELSE [step |-> "add", user |-> q.user, new |-> q.new]]

\* The INSERT of addAccess. UNIQUE (contest_id, user_id): a second insertion fails.
AddAccess(r) ==
    /\ staffRequest[r].step = "add"
    /\ LET q == staffRequest[r] IN
         IF rank[q.user] = "none"
           THEN rank' = [rank EXCEPT ![q.user] = q.new] /\ UNCHANGED mishap
           ELSE mishap' = TRUE /\ UNCHANGED rank
    /\ staffRequest' = [staffRequest EXCEPT ![r] = NoRequest]

\* A statement fails: what the request did before stays.
StaffRequestFails(r) ==
    /\ staffRequest[r] # NoRequest
    /\ mishap' = (mishap \/ staffRequest[r].step = "add")
    /\ staffRequest' = [staffRequest EXCEPT ![r] = NoRequest]
    /\ UNCHANGED rank

\* The creation makes its author an editor.
StaffInit ==
    /\ rank = [u \in Accounts |-> IF u = Author THEN "editor" ELSE "none"]
    /\ staffRequest = [r \in StaffRequests |-> NoRequest]
    /\ mishap = FALSE

StaffNext ==
    \E r \in StaffRequests :
        \/ \E e, u \in Accounts, new \in Ranks : ChangeStaff(r, e, u, new)
        \/ StripAccess(r) \/ AddAccess(r) \/ StaffRequestFails(r)

StaffSpec == StaffInit /\ [][StaffNext]_staffVars

-----------------------------------------------------------------------------
\* The domains of the variables; used by the proofs.
StaffTypeOK ==
    /\ rank \in [Accounts -> Ranks]
    /\ staffRequest \in [StaffRequests ->
            {NoRequest}
            \cup [step : {"strip"}, by : Accounts, user : Accounts, new : Ranks]
            \cup [step : {"add"}, user : Accounts, new : Ranks \ {"none"}]]
    /\ mishap \in BOOLEAN

\* Nobody can remove the last editor: an editor stays, or is on the way between the two
\* statements, unless a change was made by an administrator or in the name of someone who
\* meanwhile was no editor any more, or broke off between its two statements, or met
\* another change of the same account there.
EditorKept ==
    \/ \E u \in Accounts : rank[u] = "editor"
    \/ \E r \in StaffRequests : staffRequest[r].step = "add" /\ staffRequest[r].new = "editor"
    \/ mishap
=============================================================================
