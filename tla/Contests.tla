----------------------------- MODULE Contests -----------------------------
(***************************************************************************)
(* One contest with one problem: its settings, registrations, invitations, *)
(* participation windows and submissions, the requests that change them,   *)
(* and who may see what (the Go checks of sudoapi beside the SQL functions *)
(* of 999.views.sql they must agree with). Its staff is fixed here.        *)
(*                                                                         *)
(* A request reads and decides at one moment and writes later, statement   *)
(* by statement; time passes and other requests run in between.            *)
(***************************************************************************)
EXTENDS Integers, FiniteSets

CONSTANTS Persons, Testers,     \* accounts; editors, testers and administrators
          ContestRequests,      \* requests under way at the same time
          Settings,             \* rows of contests that occur: see SettingsType
          MaxSubs, MaxInvited,  \* max_sub_count, max_invitation_cnt
          LastMoment, MaxUpdates    \* bounds

SettingsType == [start : Nat, end : Nat, per_user_time : Nat, public_join : BOOLEAN,
                 register_during : BOOLEAN, visible : BOOLEAN, official : BOOLEAN,
                 problem_visible : BOOLEAN]

ASSUME ContestAssumption ==
    /\ Testers \subseteq Persons
    /\ Settings \subseteq SettingsType
    /\ \A s \in Settings : s.start <= s.end
    /\ MaxSubs \in Nat \ {0} /\ MaxInvited \in Nat \ {0}
    /\ LastMoment \in Nat /\ MaxUpdates \in Nat
    /\ IsFiniteSet(Persons) /\ IsFiniteSet(ContestRequests)

VARIABLES
    clock,
    contest,            \* the row of contests (and problems.visible)
    registered,         \* contest_registrations: users,
    invited,            \*   those with an invitation,
    window,             \*   and individual_start_at, individual_end_at (0: NULL)
    entries,            \* number of submissions with this contest_id, by user
    request,            \* what each request has decided to write
    started,            \* history: windows written for the present registration
    excused,            \* history: see EntriesOwned
    updates

contestVars == <<clock, contest, registered, invited, window, entries,
                 request, started, excused, updates>>

NoWindow == [from |-> 0, to |-> 0]
Idle == [kind |-> "idle"]

-----------------------------------------------------------------------------
(* Time and staff as the Go code sees them (strict comparisons) and as SQL *)
(* does (start_time <= NOW(), NOW() <= end_time, end_time <= NOW()).       *)

Started == contest.start < clock
Ended == contest.end < clock
Running == Started /\ ~Ended

RunningInSQL == contest.start <= clock /\ clock <= contest.end
EndedInSQL == contest.end <= clock

IsTester(u) == u \in Testers
IndividualTime == contest.per_user_time > 0

(* The SQL functions, one disjunct per branch of the union.                *)

\* Mutant of VisiblePbs: running contests with individual windows count as well.
VisiblePbsAnyWindow(u) ==
    \/ contest.problem_visible \/ IsTester(u)
    \/ contest.visible /\ contest.official /\ EndedInSQL
    \/ contest.visible /\ RunningInSQL /\ ~contest.register_during
    \/ u \in registered /\ RunningInSQL /\ ~IndividualTime
    \/ u \in registered /\ RunningInSQL /\ IndividualTime
         /\ window[u].from # 0 /\ clock <= window[u].to

VisiblePbs(u) ==
    \/ contest.problem_visible \/ IsTester(u)
    \/ contest.visible /\ contest.official /\ EndedInSQL
    \/ contest.visible /\ RunningInSQL /\ ~IndividualTime /\ ~contest.register_during
    \/ u \in registered /\ RunningInSQL /\ ~IndividualTime
    \/ u \in registered /\ RunningInSQL /\ IndividualTime
         /\ window[u].from # 0 /\ clock <= window[u].to

\* Unlike VisiblePbs it does not ask for an official contest.
PersistentlyVisiblePbs(u) ==
    \/ contest.problem_visible \/ IsTester(u)
    \/ contest.visible /\ EndedInSQL

VisibleContests(u) ==
    \/ contest.visible \/ IsTester(u)
    \/ ~contest.visible /\ u \in registered

(* The Go checks.                                                          *)

CanJoinContest ==
    /\ contest.public_join
    /\ (contest.register_during /\ ~Ended) \/ ~Started

\* Mutant of CanSubmitInContest: a registration is enough in an individual window too.
CanSubmitRegistered(u) ==
    /\ ~Ended
    /\ IsTester(u) \/ (Running /\ u \in registered)

CanSubmitInContest(u) ==
    /\ ~Ended
    /\ \/ IsTester(u)
       \/ /\ Running /\ u \in registered
          /\ \/ ~IndividualTime
             \/ window[u].from # 0 /\ window[u].from < clock /\ clock < window[u].to

CanViewContestProblems(u) ==
    \/ IsTester(u)
    \/ /\ Started
       /\ \/ Ended /\ contest.visible
          \/ ~IndividualTime /\ contest.visible /\ ~contest.register_during
          \/ CanSubmitInContest(u)

-----------------------------------------------------------------------------
(* What a request decides. Registrations and submissions are read now, the *)
(* writes come later. A request that is refused changes nothing and is     *)
(* left out.                                                               *)

Asks(r, what) == request[r] = Idle /\ request' = [request EXCEPT ![r] = what]
OnlyAsks == UNCHANGED <<clock, contest, registered, invited, window, entries,
                        started, excused, updates>>

\* RegisterContestUser looks up the registration but refuses only if the look-up
\* fails, so being registered is found out by the insertion.
Register(r, u) ==
    /\ VisibleContests(u) /\ CanJoinContest
    /\ Asks(r, [kind |-> "register", user |-> u, invitation |-> FALSE])
    /\ OnlyAsks

\* An administrator registers somebody whatever the settings are.
ForceRegister(r, u) ==
    /\ u \notin registered
    /\ Asks(r, [kind |-> "register", user |-> u, invitation |-> FALSE])
    /\ OnlyAsks

AcceptInvitation(r, u) ==
    /\ Cardinality(invited) < MaxInvited
    /\ ~Ended
    /\ contest.register_during \/ ~Running
    /\ Asks(r, [kind |-> "register", user |-> u, invitation |-> TRUE])
    /\ OnlyAsks

\* Mutant of StartRegistration: the window may be there already.
StartAgain(r, u) ==
    /\ VisibleContests(u) /\ IndividualTime
    /\ u \in registered
    /\ Asks(r, [kind |-> "start", user |-> u, from |-> clock,
                to |-> clock + contest.per_user_time])
    /\ OnlyAsks

\* Without a registration the handler dereferences a nil pointer and fails.
StartRegistration(r, u) ==
    /\ VisibleContests(u) /\ IndividualTime
    /\ u \in registered /\ window[u] = NoWindow
    /\ Asks(r, [kind |-> "start", user |-> u, from |-> clock,
                to |-> clock + contest.per_user_time])
    /\ OnlyAsks

Submit(r, u) ==
    /\ VisiblePbs(u) /\ VisibleContests(u)
    /\ CanSubmitInContest(u) /\ CanViewContestProblems(u)
    /\ entries[u] < MaxSubs
    /\ Asks(r, [kind |-> "submit", user |-> u])
    /\ OnlyAsks

Kick(r, u) ==
    /\ Asks(r, [kind |-> "kick", user |-> u])
    /\ OnlyAsks

-----------------------------------------------------------------------------
(* What a request writes.                                                  *)

Wrote(r) == request' = [request EXCEPT ![r] = Idle]

\* UNIQUE (user_id, contest_id): the insertion fails if there is a registration.
WriteRegistration(r) ==
    /\ request[r].kind = "register"
    /\ LET u == request[r].user IN
         IF u \in registered
           THEN UNCHANGED <<registered, invited, window, started>>
           ELSE /\ registered' = registered \cup {u}
                /\ invited' = IF request[r].invitation THEN invited \cup {u} ELSE invited
                /\ window' = [window EXCEPT ![u] = NoWindow]
                /\ started' = [started EXCEPT ![u] = 0]
    /\ Wrote(r)
    /\ UNCHANGED <<clock, contest, entries, excused, updates>>

\* The UPDATE does not ask for an empty window; without a row it changes nothing.
WriteWindow(r) ==
    /\ request[r].kind = "start"
    /\ LET u == request[r].user IN
         IF u \in registered
           THEN /\ window' = [window EXCEPT ![u] = [from |-> request[r].from,
                                                    to |-> request[r].to]]
                /\ started' = [started EXCEPT ![u] = @ + 1]
           ELSE UNCHANGED <<window, started>>
    /\ Wrote(r)
    /\ UNCHANGED <<clock, contest, registered, invited, entries, excused, updates>>

\* A user who was kicked since the decision is excused.
WriteSubmission(r) ==
    /\ request[r].kind = "submit"
    /\ LET u == request[r].user IN
         /\ entries' = [entries EXCEPT ![u] = @ + 1]
         /\ excused' = IF u \in registered \/ IsTester(u) THEN excused
                                                         ELSE excused \cup {u}
    /\ Wrote(r)
    /\ UNCHANGED <<clock, contest, registered, invited, window, started, updates>>

DeleteRegistration(r) ==
    /\ request[r].kind = "kick"
    /\ LET u == request[r].user IN
         /\ registered' = registered \ {u}
         /\ invited' = invited \ {u}
         /\ window' = [window EXCEPT ![u] = NoWindow]
         /\ started' = [started EXCEPT ![u] = 0]
    /\ request' = [request EXCEPT ![r] = [kind |-> "clear", user |-> request[r].user]]
    /\ UNCHANGED <<clock, contest, entries, excused, updates>>

\* Mutant of ClearSubmissions: the submissions stay.
KeepSubmissions(r) ==
    /\ request[r].kind = "clear"
    /\ Wrote(r)
    /\ UNCHANGED <<clock, contest, registered, invited, window, entries,
                   started, excused, updates>>

ClearSubmissions(r) ==
    /\ request[r].kind = "clear"
    /\ LET u == request[r].user IN
         /\ entries' = [entries EXCEPT ![u] = 0]
         /\ excused' = excused \ {u}
    /\ Wrote(r)
    /\ UNCHANGED <<clock, contest, registered, invited, window, started, updates>>

\* A statement fails or the request is abandoned: what it wrote before stays.
RequestFails(r) ==
    /\ request[r] # Idle
    /\ Wrote(r)
    /\ excused' = IF request[r].kind = "clear" THEN excused \cup {request[r].user}
                                               ELSE excused
    /\ UNCHANGED <<clock, contest, registered, invited, window, entries,
                   started, updates>>

-----------------------------------------------------------------------------
\* UpdateContest, by an editor; the database keeps start_time <= end_time.
UpdateContest ==
    /\ updates < MaxUpdates
    /\ contest' \in Settings
    /\ updates' = updates + 1
    /\ UNCHANGED <<clock, registered, invited, window, entries, request,
                   started, excused>>

Tick ==
    /\ clock < LastMoment
    /\ clock' = clock + 1
    /\ UNCHANGED <<contest, registered, invited, window, entries, request,
                   started, excused, updates>>

ContestInit ==
    /\ clock = 1
    /\ contest \in Settings
    /\ registered = {} /\ invited = {}
    /\ window = [u \in Persons |-> NoWindow]
    /\ entries = [u \in Persons |-> 0]
    /\ request = [r \in ContestRequests |-> Idle]
    /\ started = [u \in Persons |-> 0]
    /\ excused = {} /\ updates = 0

Ask(r) ==
    \E u \in Persons :
        \/ Register(r, u) \/ ForceRegister(r, u) \/ AcceptInvitation(r, u) \/ StartRegistration(r, u)
        \/ Submit(r, u) \/ Kick(r, u)

Write(r) ==
    \/ WriteRegistration(r) \/ WriteWindow(r) \/ WriteSubmission(r)
    \/ DeleteRegistration(r) \/ ClearSubmissions(r)
    \/ RequestFails(r)

ContestNext == UpdateContest \/ Tick \/ \E r \in ContestRequests : Ask(r) \/ Write(r)

ContestSpec == ContestInit /\ [][ContestNext]_contestVars

-----------------------------------------------------------------------------
(* Properties.                                                             *)

RequestType ==
    {Idle}
    \cup [kind : {"register"}, user : Persons, invitation : BOOLEAN]
    \cup [kind : {"start"}, user : Persons, from : Nat, to : Nat]
    \cup [kind : {"submit", "kick", "clear"}, user : Persons]

\* The domains of the variables; used by the proofs.
ContestTypeOK ==
    /\ clock \in Nat /\ contest \in Settings /\ updates \in Nat
    /\ registered \subseteq Persons /\ invited \subseteq registered
    /\ window \in [Persons -> [from : Nat, to : Nat]]
    /\ entries \in [Persons -> Nat] /\ started \in [Persons -> Nat]
    /\ request \in [ContestRequests -> RequestType]
    /\ excused \subseteq Persons

\* "all submitters can view problems" (sudoapi/contest.go): who may submit in the contest
\* passes every other check, in Go and in SQL, in spite of their different comparisons
\* of times and whatever the settings are changed to.
SubmittersSee ==
    \A u \in Persons :
        CanSubmitInContest(u) =>
            CanViewContestProblems(u) /\ VisiblePbs(u) /\ VisibleContests(u)

\* A hidden problem stays hidden from everyone who is not staff until the contest starts,
\* and, when windows are individual, until the user's own window is set or the contest
\* ends; and until it ends nobody can practise on it outside the contest.
NoEarlyLook ==
    \A u \in Persons :
        ~contest.problem_visible /\ ~IsTester(u) =>
            /\ VisiblePbs(u) \/ CanViewContestProblems(u) =>
                 /\ contest.start <= clock
                 /\ IndividualTime /\ clock < contest.end =>
                        u \in registered /\ window[u].from # 0
            /\ clock < contest.end => ~PersistentlyVisiblePbs(u)

\* Checks and writes are apart, so limits are exceeded, but only by the requests
\* that were under way together: submissions, redeemed invitations, and the windows
\* written for one registration.
AtMostOnePerRequest ==
    LET slack == Cardinality(ContestRequests) - 1 IN
    /\ \A u \in Persons : entries[u] <= MaxSubs + slack /\ started[u] <= 1 + slack
    /\ Cardinality(invited) <= MaxInvited + slack

\* Submissions in the contest belong to contestants or staff. The exceptions: the kick is
\* not finished or its second statement failed, or the submission was under way when its
\* author was kicked.
EntriesOwned ==
    \A u \in Persons :
        entries[u] > 0 =>
            \/ u \in registered \/ IsTester(u) \/ u \in excused
            \/ \E r \in ContestRequests : request[r].kind = "clear" /\ request[r].user = u
=============================================================================
