------------------------------ MODULE Sessions ------------------------------
(***************************************************************************)
(* The sessions of one account and the cache from session identifiers to   *)
(* users (sudoapi/session.go, sudoapi/user.go, db/verif_session.go). Every *)
(* request reads the user from the cache, which is filled on demand while  *)
(* other requests change the account and end sessions; an entry lives for  *)
(* twenty seconds.                                                         *)
(***************************************************************************)
EXTENDS Integers, SequencesExt

CONSTANTS SessionIds,           \* bound: the identifiers that may be drawn
          SessionRequests,      \* changes under way at the same time
          MaxSessionCount,      \* flags.MaxSessionCount
          MaxVersions           \* bound: updates of the account

ASSUME SessionAssumption == MaxSessionCount \in Nat \ {0} /\ MaxVersions \in Nat

VARIABLES
    version,            \* the user's row: how often it was updated; 0 when deleted
    sessions,           \* identifiers of the active sessions by expiry, the next first
    ended,              \* identifiers whose session is over
    cached,             \* sessionUserCache: Absent, or the version found (0: no user)
    filling,            \* a loader between its query and its write to the cache
    change,             \* what each request has still to do
    stale               \* history: why an entry may be out of date, see CacheExplained

sessionVars == <<version, sessions, ended, cached, filling, change, stale>>

Active == ToSet(sessions)
\* An identifier is the key of its row: it occurs once.
SessionsBut(s) == IF s \in Active
                    THEN RemoveAt(sessions, CHOOSE i \in DOMAIN sessions : sessions[i] = s)
                    ELSE sessions
Absent == -1            \* also of filling: no loader
\* What the query of sessionUser finds.
SessionUser(s) == IF s \in Active THEN version ELSE 0

NothingToDo == [step |-> "done"]
Invalidate(ss) == IF ss = {} THEN NothingToDo ELSE [step |-> "invalidate", left |-> ss]

-----------------------------------------------------------------------------
(* The cache (a loading cache: one loader per key at a time).              *)

FillStart(s) ==
    /\ s \in Active \cup ended
    /\ cached[s] = Absent /\ filling[s] = Absent
    /\ filling' = [filling EXCEPT ![s] = SessionUser(s)]
    /\ UNCHANGED <<version, sessions, ended, cached, change, stale>>

\* What was read before a change can be written after its invalidation.
FillEnd(s) ==
    /\ filling[s] # Absent
    /\ cached' = [cached EXCEPT ![s] = filling[s]]
    /\ filling' = [filling EXCEPT ![s] = Absent]
    /\ stale' = IF filling[s] # SessionUser(s) THEN stale \cup {s} ELSE stale \ {s}
    /\ UNCHANGED <<version, sessions, ended, change>>

\* Twenty seconds have passed, or five hundred other entries were needed.
EntryExpires(s) ==
    /\ cached[s] # Absent
    /\ cached' = [cached EXCEPT ![s] = Absent]
    /\ stale' = stale \ {s}
    /\ UNCHANGED <<version, sessions, ended, filling, change>>

-----------------------------------------------------------------------------
(* Sessions.                                                               *)

CreateSession(r) ==
    /\ change[r] = NothingToDo /\ version # 0
    /\ \E s \in SessionIds \ (Active \cup ended) : sessions' = Append(sessions, s)
    /\ change' = [change EXCEPT ![r] = [step |-> "removeOld"]]
    /\ UNCHANGED <<version, ended, cached, filling, stale>>

\* The DELETE returns no identifiers, so CreateSession has none to invalidate.
RemoveOldSessions(r) ==
    /\ change[r].step = "removeOld"
    /\ LET n == Len(sessions)
           over == IF n > MaxSessionCount THEN n - MaxSessionCount ELSE 0
           old == {sessions[i] : i \in 1..over} IN
         /\ sessions' = SubSeq(sessions, over + 1, n)
         /\ ended' = ended \cup old
         /\ stale' = stale \cup old
    /\ change' = [change EXCEPT ![r] = NothingToDo]
    /\ UNCHANGED <<version, cached, filling>>

\* The row gets the latest expiry of all.
ExtendSession(s) ==
    /\ s \in Active
    /\ sessions' = Append(SessionsBut(s), s)
    /\ UNCHANGED <<version, ended, cached, filling, change, stale>>

\* active_sessions no longer shows a session whose time is over.
SessionExpires ==
    /\ sessions # <<>>
    /\ sessions' = Tail(sessions)
    /\ ended' = ended \cup {Head(sessions)}
    /\ stale' = stale \cup {Head(sessions)}
    /\ UNCHANGED <<version, cached, filling, change>>

RemoveSession(r, s) ==
    /\ change[r] = NothingToDo /\ s \in Active \cup ended
    /\ sessions' = SessionsBut(s)
    /\ ended' = ended \cup {s}
    /\ change' = [change EXCEPT ![r] = Invalidate({s})]
    /\ UNCHANGED <<version, cached, filling, stale>>

RemoveUserSessions(r) ==
    /\ change[r] = NothingToDo
    /\ sessions' = <<>>
    /\ ended' = ended \cup Active
    /\ change' = [change EXCEPT ![r] = Invalidate(Active)]
    /\ UNCHANGED <<version, cached, filling, stale>>

-----------------------------------------------------------------------------
(* The account.                                                            *)

\* Mutant of UpdateUser: nothing is invalidated.
UpdateUserOnly(r) ==
    /\ change[r] = NothingToDo /\ version \in 1..(MaxVersions - 1)
    /\ version' = version + 1
    /\ UNCHANGED <<sessions, ended, cached, filling, change, stale>>

\* updateUser: the UPDATE; then the user's sessions are listed and invalidated.
UpdateUser(r) ==
    /\ change[r] = NothingToDo /\ version \in 1..(MaxVersions - 1)
    /\ version' = version + 1
    /\ change' = [change EXCEPT ![r] = [step |-> "list"]]
    /\ UNCHANGED <<sessions, ended, cached, filling, stale>>

ListSessions(r) ==
    /\ change[r].step = "list"
    /\ change' = [change EXCEPT ![r] = Invalidate(Active)]
    /\ UNCHANGED <<version, sessions, ended, cached, filling, stale>>

InvalidateNext(r) ==
    /\ change[r].step = "invalidate"
    /\ \E s \in change[r].left :
         /\ cached' = [cached EXCEPT ![s] = Absent]
         /\ stale' = stale \ {s}
         /\ change' = [change EXCEPT ![r] = Invalidate(change[r].left \ {s})]
    /\ UNCHANGED <<version, sessions, ended, filling>>

\* The request breaks off, or the list cannot be fetched: nothing more is invalidated.
ChangeFails(r) ==
    /\ change[r] # NothingToDo
    /\ stale' = CASE change[r].step = "list" -> stale \cup Active
                  [] change[r].step = "invalidate" -> stale \cup change[r].left
                  [] OTHER -> stale
    /\ change' = [change EXCEPT ![r] = NothingToDo]
    /\ UNCHANGED <<version, sessions, ended, cached, filling>>

\* DeleteUser: the sessions go by cascade and nothing is invalidated.
DeleteUser ==
    /\ version # 0
    /\ version' = 0
    /\ sessions' = <<>>
    /\ ended' = ended \cup Active
    /\ stale' = stale \cup Active
    /\ UNCHANGED <<cached, filling, change>>

SessionInit ==
    /\ version = 1 /\ sessions = <<>> /\ ended = {}
    /\ cached = [s \in SessionIds |-> Absent]
    /\ filling = [s \in SessionIds |-> Absent]
    /\ change = [r \in SessionRequests |-> NothingToDo]
    /\ stale = {}

SessionNext ==
    \/ SessionExpires \/ DeleteUser
    \/ \E s \in SessionIds : FillStart(s) \/ FillEnd(s) \/ EntryExpires(s) \/ ExtendSession(s)
    \/ \E r \in SessionRequests :
         \/ CreateSession(r) \/ RemoveOldSessions(r) \/ RemoveUserSessions(r)
         \/ UpdateUser(r) \/ ListSessions(r) \/ InvalidateNext(r) \/ ChangeFails(r)
         \/ \E s \in SessionIds : RemoveSession(r, s)

SessionSpec == SessionInit /\ [][SessionNext]_sessionVars

-----------------------------------------------------------------------------
\* A cached user is the one the session stands for now, unless somebody is about to
\* invalidate the entry, or for one of the reasons kept in stale: the entry was read
\* before a change and written after its invalidation, the session ended on its own
\* (expiry, too many sessions, deletion of the user), or the invalidation broke off.
CacheExplained ==
    \A s \in SessionIds :
        cached[s] \notin {Absent, SessionUser(s)} =>
            \/ s \in stale
            \/ \E r \in SessionRequests :
                 \/ change[r].step = "list" /\ s \in Active
                 \/ change[r].step = "invalidate" /\ s \in change[r].left
=============================================================================
