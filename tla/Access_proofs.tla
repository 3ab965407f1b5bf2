--------------------------- MODULE Access_proofs ---------------------------
(***************************************************************************)
(* Who may do what: the properties of a contest, of the staff of a problem *)
(* or contest, of OpenID tokens and of sessions, for any accounts,         *)
(* settings, limits and identifiers and any finite set of requests.        *)
(***************************************************************************)
EXTENDS Contests, StaffAccess, Tokens, Sessions, FiniteSetTheorems, SequenceTheorems, TLAPS

-----------------------------------------------------------------------------
(* Contests. SubmittersSee and NoEarlyLook follow from what the checks     *)
(* compute; EntriesOwned is inductive; AtMostOnePerRequest is strengthened *)
(* to Budget, which also counts what is decided and not yet written.       *)

Submitting(u) == {r \in ContestRequests : request[r].kind = "submit" /\ request[r].user = u}
Starting(u) == {r \in ContestRequests : request[r].kind = "start" /\ request[r].user = u}
Accepting == {r \in ContestRequests : request[r].kind = "register" /\ request[r].invitation}

Budget ==
    LET n == Cardinality(ContestRequests) IN
    /\ \A u \in Persons :
         /\ entries[u] + Cardinality(Submitting(u)) < MaxSubs + n
         /\ started[u] + Cardinality(Starting(u)) <= n
    /\ Cardinality(invited) + Cardinality(Accepting) < MaxInvited + n

\* No window is written before one is decided on, and none is written as NULL.
WindowsCounted ==
    /\ clock >= 1
    /\ \A r \in ContestRequests : request[r].kind = "start" => request[r].from >= 1
    /\ \A u \in Persons : window[u] = NoWindow => started[u] = 0

ContestInv == ContestTypeOK /\ WindowsCounted /\ EntriesOwned /\ Budget

-----------------------------------------------------------------------------
\* The fields of the requests of each kind.
LEMMA RequestKinds ==
    ASSUME ContestTypeOK, NEW r \in ContestRequests
    PROVE  /\ request[r] # Idle =>
                request[r].user \in Persons /\
                request[r].kind \in {"register", "start", "submit", "kick", "clear"}
           /\ request[r].kind = "register" => request[r].invitation \in BOOLEAN
           /\ request[r].kind = "start" => request[r].from \in Nat /\ request[r].to \in Nat
BY DEF ContestTypeOK, RequestType, Idle

\* Sets of requests are finite, and grow and shrink by one at most.
LEMMA Counting ==
    /\ Cardinality(ContestRequests) \in Nat
    /\ \A A \in SUBSET ContestRequests :
         /\ IsFiniteSet(A) /\ Cardinality(A) \in Nat
         /\ Cardinality(A) <= Cardinality(ContestRequests)
    /\ \A B \in SUBSET ContestRequests : \A A \in SUBSET B : Cardinality(A) <= Cardinality(B)
    /\ \A B \in SUBSET ContestRequests : \A r \in B :
         Cardinality(B \ {r}) = Cardinality(B) - 1
<1>1. IsFiniteSet(ContestRequests)
    BY ContestAssumption DEF ContestAssumption
<1>2. \A A \in SUBSET ContestRequests : IsFiniteSet(A) /\ Cardinality(A) <= Cardinality(ContestRequests)
    BY <1>1, FS_Subset
<1>3. \A B \in SUBSET ContestRequests : \A A \in SUBSET B : Cardinality(A) <= Cardinality(B)
    BY <1>2, FS_Subset
<1>4. \A B \in SUBSET ContestRequests : \A r \in B : Cardinality(B \ {r}) = Cardinality(B) - 1
    BY <1>2, FS_RemoveElement
<1> QED
    BY <1>1, <1>2, <1>3, <1>4, FS_CardinalityType

LEMMA InvitedCounting ==
    ASSUME ContestTypeOK
    PROVE  /\ IsFiniteSet(invited) /\ Cardinality(invited) \in Nat
           /\ \A u \in Persons :
                /\ Cardinality(invited \cup {u}) \in Nat
                /\ Cardinality(invited \cup {u}) <= Cardinality(invited) + 1
                /\ Cardinality(invited \ {u}) \in Nat
                /\ Cardinality(invited \ {u}) <= Cardinality(invited)
<1>1. IsFiniteSet(Persons) /\ invited \subseteq Persons
    BY ContestAssumption DEF ContestAssumption, ContestTypeOK
<1>2. IsFiniteSet(invited) /\ Cardinality(invited) \in Nat
    BY <1>1, FS_Subset, FS_CardinalityType
<1>3. ASSUME NEW u \in Persons
      PROVE  /\ Cardinality(invited \cup {u}) \in Nat
             /\ Cardinality(invited \cup {u}) <= Cardinality(invited) + 1
    BY <1>2, FS_AddElement, FS_CardinalityType
<1>4. ASSUME NEW u \in Persons
      PROVE  /\ Cardinality(invited \ {u}) \in Nat
             /\ Cardinality(invited \ {u}) <= Cardinality(invited)
    <2>1. invited \ {u} \in SUBSET invited
        OBVIOUS
    <2> QED
        BY <1>2, <2>1, FS_Subset, FS_CardinalityType
<1> QED
    BY <1>2, <1>3, <1>4

\* The pending sets when request r changes to x.
LEMMA PendingSets ==
    ASSUME ContestTypeOK, NEW r \in ContestRequests, NEW x,
           request' = [request EXCEPT ![r] = x]
    PROVE  /\ \A u \in Persons :
                /\ ~(x.kind = "submit" /\ x.user = u) => Submitting(u)' = Submitting(u) \ {r}
                /\ ~(x.kind = "start" /\ x.user = u) => Starting(u)' = Starting(u) \ {r}
           /\ ~(x.kind = "register" /\ x.invitation) => Accepting' = Accepting \ {r}
<1>1. request'[r] = x /\ \A s \in ContestRequests : s # r => request'[s] = request[s]
    BY DEF ContestTypeOK
<1>2. ASSUME NEW u \in Persons, ~(x.kind = "submit" /\ x.user = u)
      PROVE  Submitting(u)' = Submitting(u) \ {r}
    BY <1>1, <1>2 DEF Submitting
<1>3. ASSUME NEW u \in Persons, ~(x.kind = "start" /\ x.user = u)
      PROVE  Starting(u)' = Starting(u) \ {r}
    BY <1>1, <1>3 DEF Starting
<1>4. ASSUME ~(x.kind = "register" /\ x.invitation)
      PROVE  Accepting' = Accepting \ {r}
    BY <1>1, <1>4 DEF Accepting
<1> QED
    BY <1>2, <1>3, <1>4

\* Their sizes, before and after.
LEMMA PendingSizes ==
    /\ Cardinality(Accepting) \in Nat
    /\ Cardinality(Accepting) <= Cardinality(ContestRequests)
    /\ \A u \in Persons :
         /\ Cardinality(Submitting(u)) \in Nat
         /\ Cardinality(Submitting(u)) <= Cardinality(ContestRequests)
         /\ Cardinality(Starting(u)) \in Nat
         /\ Cardinality(Starting(u)) <= Cardinality(ContestRequests)
<1>1. /\ Accepting \in SUBSET ContestRequests
      /\ \A u \in Persons : /\ Submitting(u) \in SUBSET ContestRequests
                            /\ Starting(u) \in SUBSET ContestRequests
    BY DEF Accepting, Submitting, Starting
<1> QED
    BY <1>1, Counting

LEMMA PendingSizesNext ==
    /\ Cardinality(Accepting)' \in Nat
    /\ Cardinality(Accepting)' <= Cardinality(ContestRequests)
    /\ \A u \in Persons :
         /\ Cardinality(Submitting(u))' \in Nat
         /\ Cardinality(Submitting(u))' <= Cardinality(ContestRequests)
         /\ Cardinality(Starting(u))' \in Nat
         /\ Cardinality(Starting(u))' <= Cardinality(ContestRequests)
<1>1. /\ Accepting' \in SUBSET ContestRequests
      /\ \A u \in Persons : /\ Submitting(u)' \in SUBSET ContestRequests
                            /\ Starting(u)' \in SUBSET ContestRequests
    BY DEF Accepting, Submitting, Starting
<1> QED
    BY <1>1, Counting

\* Requests whose writes do not count.
LightRequest ==
    {Idle} \cup [kind : {"kick", "clear"}, user : Persons]
           \cup [kind : {"register"}, user : Persons, invitation : {FALSE}]

PendingShrinks ==
    /\ Accepting' \subseteq Accepting
    /\ \A u \in Persons : Submitting(u)' \subseteq Submitting(u) /\ Starting(u)' \subseteq Starting(u)

LEMMA LightShrinks ==
    ASSUME ContestTypeOK, NEW r \in ContestRequests, NEW x \in LightRequest,
           request' = [request EXCEPT ![r] = x]
    PROVE  PendingShrinks
<1>1. /\ x.kind # "submit" /\ x.kind # "start"
      /\ x.kind = "register" => x.invitation = FALSE
    <2>1. CASE x = Idle
        BY <2>1 DEF Idle
    <2>2. CASE x \in [kind : {"kick", "clear"}, user : Persons]
        BY <2>2
    <2>3. CASE x \in [kind : {"register"}, user : Persons, invitation : {FALSE}]
        BY <2>3
    <2> QED
        BY <2>1, <2>2, <2>3 DEF LightRequest
<1>2. /\ Accepting' = Accepting \ {r}
      /\ \A u \in Persons : Submitting(u)' = Submitting(u) \ {r} /\ Starting(u)' = Starting(u) \ {r}
    BY <1>1, PendingSets
<1> QED
    BY <1>2 DEF PendingShrinks

LEMMA WroteShrinks ==
    ASSUME ContestTypeOK, NEW r \in ContestRequests, Wrote(r)
    PROVE  PendingShrinks
<1>1. Idle \in LightRequest
    BY DEF LightRequest
<1> QED
    BY <1>1, LightShrinks DEF Wrote

\* A step that decides on nothing that counts and writes nothing that does.
LEMMA BudgetShrinks ==
    ASSUME ContestInv, PendingShrinks,
           entries' \in [Persons -> Nat], started' \in [Persons -> Nat],
           \A u \in Persons : entries'[u] <= entries[u] /\ started'[u] <= started[u],
           Cardinality(invited') \in Nat, Cardinality(invited') <= Cardinality(invited)
    PROVE  Budget'
<1>1. /\ Accepting' \subseteq Accepting
      /\ \A u \in Persons : Submitting(u)' \subseteq Submitting(u) /\ Starting(u)' \subseteq Starting(u)
    BY DEF PendingShrinks
<1>2. /\ Accepting \in SUBSET ContestRequests
      /\ \A u \in Persons : /\ Submitting(u) \in SUBSET ContestRequests
                            /\ Starting(u) \in SUBSET ContestRequests
    BY DEF Accepting, Submitting, Starting
<1>3. /\ Cardinality(Accepting)' <= Cardinality(Accepting)
      /\ \A u \in Persons : /\ Cardinality(Submitting(u))' <= Cardinality(Submitting(u))
                            /\ Cardinality(Starting(u))' <= Cardinality(Starting(u))
    BY <1>1, <1>2, Counting
<1>4. Cardinality(invited)' <= Cardinality(invited) /\ Cardinality(invited)' \in Nat
      /\ Cardinality(invited) \in Nat
    BY InvitedCounting DEF ContestInv
<1>5. MaxSubs \in Nat /\ MaxInvited \in Nat /\ Cardinality(ContestRequests) \in Nat
    BY ContestAssumption, Counting DEF ContestAssumption
<1>6. ASSUME NEW u \in Persons
      PROVE  /\ entries'[u] + Cardinality(Submitting(u))' < MaxSubs + Cardinality(ContestRequests)
             /\ started'[u] + Cardinality(Starting(u))' <= Cardinality(ContestRequests)
    <2>1. /\ entries[u] \in Nat /\ started[u] \in Nat /\ entries'[u] \in Nat /\ started'[u] \in Nat
          /\ entries'[u] <= entries[u] /\ started'[u] <= started[u]
        BY DEF ContestInv, ContestTypeOK
    <2>2. /\ entries[u] + Cardinality(Submitting(u)) < MaxSubs + Cardinality(ContestRequests)
          /\ started[u] + Cardinality(Starting(u)) <= Cardinality(ContestRequests)
        BY DEF ContestInv, Budget
    <2> QED
        BY <1>3, <1>5, <2>1, <2>2, PendingSizes, PendingSizesNext
<1>7. Cardinality(invited) + Cardinality(Accepting) < MaxInvited + Cardinality(ContestRequests)
    BY DEF ContestInv, Budget
<1>8. Cardinality(invited)' + Cardinality(Accepting)' < MaxInvited + Cardinality(ContestRequests)
    BY <1>3, <1>4, <1>5, <1>7, PendingSizes, PendingSizesNext
<1> QED
    BY <1>6, <1>8 DEF Budget

LEMMA BudgetShrinksOnly ==
    ASSUME ContestInv, PendingShrinks, UNCHANGED <<entries, started, invited>>
    PROVE  Budget'
<1>1. entries' \in [Persons -> Nat] /\ started' \in [Persons -> Nat]
    BY DEF ContestInv, ContestTypeOK
<1>2. \A u \in Persons : entries'[u] <= entries[u] /\ started'[u] <= started[u]
    BY DEF ContestInv, ContestTypeOK
<1>3. Cardinality(invited) \in Nat
    BY InvitedCounting DEF ContestInv
<1>4. Cardinality(invited') \in Nat /\ Cardinality(invited') <= Cardinality(invited)
    BY <1>3
<1> QED
    BY <1>1, <1>2, <1>4, BudgetShrinks

-----------------------------------------------------------------------------
\* Type correctness of a decision and of a write.
LEMMA AsksType ==
    ASSUME ContestTypeOK, NEW r \in ContestRequests, NEW x \in RequestType, Asks(r, x), OnlyAsks
    PROVE  ContestTypeOK'
BY DEF ContestTypeOK, Asks, OnlyAsks

\* A decision leaves everything but the budget alone.
LEMMA AsksKeeps ==
    ASSUME ContestInv, NEW r \in ContestRequests, NEW x \in RequestType, Asks(r, x), OnlyAsks,
           x.kind # "clear", x.kind = "start" => x.from >= 1
    PROVE  ContestTypeOK' /\ WindowsCounted' /\ EntriesOwned'
<1>1. ContestTypeOK'
    BY AsksType DEF ContestInv
<1>2. request'[r] = x /\ \A s \in ContestRequests : s # r => request'[s] = request[s]
    BY DEF Asks, ContestInv, ContestTypeOK
<1>3. WindowsCounted'
    BY <1>2 DEF ContestInv, WindowsCounted, OnlyAsks
<1>4. EntriesOwned'
    <2>1. \A s \in ContestRequests : request[s].kind = "clear" => request'[s] = request[s]
        BY <1>2 DEF Asks, Idle
    <2> QED
        BY <2>1 DEF EntriesOwned, ContestInv, OnlyAsks, IsTester
<1> QED
    BY <1>1, <1>3, <1>4

LEMMA AskStep ==
    ASSUME ContestInv, NEW r \in ContestRequests, Ask(r)
    PROVE  ContestInv'
<1> PICK u \in Persons :
        \/ Register(r, u) \/ ForceRegister(r, u) \/ AcceptInvitation(r, u) \/ StartRegistration(r, u)
        \/ Submit(r, u) \/ Kick(r, u)
    BY DEF Ask
<1>0. /\ MaxSubs \in Nat \ {0} /\ MaxInvited \in Nat \ {0} /\ Cardinality(ContestRequests) \in Nat
      /\ Cardinality(invited) \in Nat
      /\ \A v \in Persons : entries[v] \in Nat /\ started[v] \in Nat
    BY ContestAssumption, Counting, InvitedCounting DEF ContestAssumption, ContestInv, ContestTypeOK
<1>1. CASE Register(r, u) \/ ForceRegister(r, u)
    <2> DEFINE x == [kind |-> "register", user |-> u, invitation |-> FALSE]
    <2>1. Asks(r, x) /\ OnlyAsks
        BY <1>1 DEF Register, ForceRegister
    <2>2. x \in RequestType /\ x \in LightRequest /\ x.kind = "register"
        BY DEF RequestType, LightRequest
    <2> HIDE DEF x
    <2>3. Budget'
        <3>1. PendingShrinks
            BY <2>1, <2>2, LightShrinks DEF Asks, ContestInv
        <3> QED
            BY <2>1, <3>1, BudgetShrinksOnly DEF OnlyAsks
    <2> QED
        BY <2>1, <2>2, <2>3, AsksKeeps DEF ContestInv
<1>2. CASE Kick(r, u)
    <2> DEFINE x == [kind |-> "kick", user |-> u]
    <2>1. Asks(r, x) /\ OnlyAsks
        BY <1>2 DEF Kick
    <2>2. x \in RequestType /\ x \in LightRequest /\ x.kind = "kick"
        BY DEF RequestType, LightRequest
    <2> HIDE DEF x
    <2>3. Budget'
        <3>1. PendingShrinks
            BY <2>1, <2>2, LightShrinks DEF Asks, ContestInv
        <3> QED
            BY <2>1, <3>1, BudgetShrinksOnly DEF OnlyAsks
    <2> QED
        BY <2>1, <2>2, <2>3, AsksKeeps DEF ContestInv
<1>3. CASE AcceptInvitation(r, u)
    <2> DEFINE x == [kind |-> "register", user |-> u, invitation |-> TRUE]
    <2>1. Asks(r, x) /\ OnlyAsks /\ Cardinality(invited) < MaxInvited
        BY <1>3 DEF AcceptInvitation
    <2>2. x \in RequestType /\ x.kind = "register"
        BY DEF RequestType
    <2> HIDE DEF x
    <2>3. request' = [request EXCEPT ![r] = x] /\ request[r].kind = "idle"
          /\ UNCHANGED <<entries, started, invited>>
        BY <2>1 DEF Asks, OnlyAsks, Idle
    <2>4. \A v \in Persons : Submitting(v)' = Submitting(v) /\ Starting(v)' = Starting(v)
        <3>1. \A v \in Persons : Submitting(v)' = Submitting(v) \ {r} /\ Starting(v)' = Starting(v) \ {r}
            BY <2>2, <2>3, PendingSets DEF ContestInv
        <3>2. \A v \in Persons : r \notin Submitting(v) /\ r \notin Starting(v)
            BY <2>3 DEF Submitting, Starting
        <3> QED
            BY <3>1, <3>2
    <2>5. Cardinality(invited') + Cardinality(Accepting)' < MaxInvited + Cardinality(ContestRequests)
        BY <1>0, <2>1, <2>3, PendingSizesNext
    <2>6. Budget'
        BY <2>3, <2>4, <2>5 DEF Budget, ContestInv
    <2> QED
        BY <2>1, <2>2, <2>6, AsksKeeps DEF ContestInv
<1>4. CASE StartRegistration(r, u)
    <2> DEFINE x == [kind |-> "start", user |-> u, from |-> clock, to |-> clock + contest.per_user_time]
    <2>1. Asks(r, x) /\ OnlyAsks /\ window[u] = NoWindow
        BY <1>4 DEF StartRegistration
    <2>2. x \in RequestType /\ x.kind = "start" /\ x.user = u /\ x.from >= 1
        <3>1. clock \in Nat /\ contest.per_user_time \in Nat /\ clock >= 1
            BY ContestAssumption
               DEF ContestAssumption, SettingsType, ContestInv, ContestTypeOK, WindowsCounted
        <3> QED
            BY <3>1 DEF RequestType
    <2> HIDE DEF x
    <2>3. request' = [request EXCEPT ![r] = x] /\ request[r].kind = "idle"
          /\ UNCHANGED <<entries, started, invited>>
        BY <2>1 DEF Asks, OnlyAsks, Idle
    <2>4. /\ Accepting' = Accepting
          /\ \A v \in Persons : Submitting(v)' = Submitting(v) /\ (v # u => Starting(v)' = Starting(v))
        <3>1. /\ Accepting' = Accepting \ {r}
              /\ \A v \in Persons : /\ Submitting(v)' = Submitting(v) \ {r}
                                    /\ v # u => Starting(v)' = Starting(v) \ {r}
            BY <2>2, <2>3, PendingSets DEF ContestInv
        <3>2. r \notin Accepting /\ \A v \in Persons : r \notin Submitting(v) /\ r \notin Starting(v)
            BY <2>3 DEF Submitting, Starting, Accepting
        <3> QED
            BY <3>1, <3>2
    <2>5. started'[u] + Cardinality(Starting(u))' <= Cardinality(ContestRequests)
        BY <1>0, <2>1, <2>3, PendingSizesNext DEF ContestInv, WindowsCounted
    <2>6. Budget'
        BY <2>3, <2>4, <2>5 DEF Budget, ContestInv
    <2> QED
        BY <2>1, <2>2, <2>6, AsksKeeps DEF ContestInv
<1>5. CASE Submit(r, u)
    <2> DEFINE x == [kind |-> "submit", user |-> u]
    <2>1. Asks(r, x) /\ OnlyAsks /\ entries[u] < MaxSubs
        BY <1>5 DEF Submit
    <2>2. x \in RequestType /\ x.kind = "submit" /\ x.user = u
        BY DEF RequestType
    <2> HIDE DEF x
    <2>3. request' = [request EXCEPT ![r] = x] /\ request[r].kind = "idle"
          /\ UNCHANGED <<entries, started, invited>>
        BY <2>1 DEF Asks, OnlyAsks, Idle
    <2>4. /\ Accepting' = Accepting
          /\ \A v \in Persons : Starting(v)' = Starting(v) /\ (v # u => Submitting(v)' = Submitting(v))
        <3>1. /\ Accepting' = Accepting \ {r}
              /\ \A v \in Persons : /\ Starting(v)' = Starting(v) \ {r}
                                    /\ v # u => Submitting(v)' = Submitting(v) \ {r}
            BY <2>2, <2>3, PendingSets DEF ContestInv
        <3>2. r \notin Accepting /\ \A v \in Persons : r \notin Submitting(v) /\ r \notin Starting(v)
            BY <2>3 DEF Submitting, Starting, Accepting
        <3> QED
            BY <3>1, <3>2
    <2>5. entries'[u] + Cardinality(Submitting(u))' < MaxSubs + Cardinality(ContestRequests)
        BY <1>0, <2>1, <2>3, PendingSizesNext
    <2>6. Budget'
        BY <2>3, <2>4, <2>5 DEF Budget, ContestInv
    <2> QED
        BY <2>1, <2>2, <2>6, AsksKeeps DEF ContestInv
<1> QED
    BY <1>1, <1>2, <1>3, <1>4, <1>5

-----------------------------------------------------------------------------
\* What the end of a request, or its passing to "clear", does to requests.
LEMMA WroteType ==
    ASSUME ContestTypeOK, NEW r \in ContestRequests, Wrote(r)
    PROVE  /\ request' \in [ContestRequests -> RequestType]
           /\ request'[r] = Idle
           /\ \A s \in ContestRequests : s # r => request'[s] = request[s]
BY DEF ContestTypeOK, Wrote, RequestType

LEMMA WriteRegistrationStep ==
    ASSUME ContestInv, NEW r \in ContestRequests, WriteRegistration(r)
    PROVE  ContestInv'
<1> PICK u \in Persons : u = request[r].user
    BY RequestKinds DEF WriteRegistration, ContestInv, Idle
<1>0. /\ u \in Persons /\ request[r].kind = "register" /\ request[r].invitation \in BOOLEAN
      /\ Wrote(r) /\ UNCHANGED <<clock, contest, entries, excused, updates>>
      /\ registered \subseteq registered'
      /\ request' \in [ContestRequests -> RequestType] /\ request'[r].kind = "idle"
      /\ \A s \in ContestRequests : s # r => request'[s] = request[s]
    BY RequestKinds, WroteType DEF WriteRegistration, ContestInv, Idle
<1>1. \/ UNCHANGED <<registered, invited, window, started>>
      \/ /\ u \notin registered
         /\ registered' = registered \cup {u}
         /\ invited' = IF request[r].invitation THEN invited \cup {u} ELSE invited
         /\ window' = [window EXCEPT ![u] = NoWindow]
         /\ started' = [started EXCEPT ![u] = 0]
    BY DEF WriteRegistration
<1>2. ContestTypeOK'
    <2>1. window' \in [Persons -> [from : Nat, to : Nat]] /\ started' \in [Persons -> Nat]
        BY <1>0, <1>1 DEF ContestInv, ContestTypeOK, NoWindow
    <2>2. registered' \subseteq Persons /\ invited' \subseteq registered'
        BY <1>0, <1>1 DEF ContestInv, ContestTypeOK
    <2> QED
        BY <1>0, <2>1, <2>2 DEF ContestInv, ContestTypeOK
<1>3. WindowsCounted'
    BY <1>0, <1>1 DEF ContestInv, WindowsCounted, ContestTypeOK
<1>4. EntriesOwned'
    BY <1>0 DEF ContestInv, EntriesOwned, IsTester
<1>5. Budget'
    <2>1. request' = [request EXCEPT ![r] = Idle] /\ Idle.kind = "idle"
        BY <1>0 DEF Wrote, Idle
    <2>2. \A v \in Persons : entries'[v] \in Nat /\ started'[v] \in Nat
                             /\ entries'[v] <= entries[v] /\ started'[v] <= started[v]
        BY <1>0, <1>1, <1>2 DEF ContestInv, ContestTypeOK
    <2>3. CASE invited' = invited
        <3>1. /\ entries' \in [Persons -> Nat] /\ started' \in [Persons -> Nat]
              /\ PendingShrinks
            BY <1>0, <1>2, WroteShrinks DEF ContestTypeOK, ContestInv
        <3>2. Cardinality(invited') \in Nat /\ Cardinality(invited') <= Cardinality(invited)
            BY <2>3, InvitedCounting DEF ContestInv
        <3> QED
            BY <2>2, <3>1, <3>2, BudgetShrinks
    <2>4. CASE invited' = invited \cup {u} /\ request[r].invitation
        <3>1. /\ Accepting' = Accepting \ {r}
              /\ \A v \in Persons : /\ Submitting(v)' = Submitting(v) \ {r}
                                    /\ Starting(v)' = Starting(v) \ {r}
            BY <2>1, PendingSets DEF ContestInv
        <3>2. r \in Accepting /\ \A v \in Persons : r \notin Submitting(v) /\ r \notin Starting(v)
            BY <1>0, <2>4 DEF Accepting, Submitting, Starting
        <3>3. Cardinality(Accepting)' = Cardinality(Accepting) - 1
            BY <3>1, <3>2, Counting DEF Accepting
        <3>4. ASSUME NEW v \in Persons
              PROVE  Submitting(v)' = Submitting(v) /\ Starting(v)' = Starting(v)
            <4>1. Submitting(v)' = Submitting(v) \ {r} /\ Starting(v)' = Starting(v) \ {r}
                BY <3>1
            <4>2. r \notin Submitting(v) /\ r \notin Starting(v)
                BY <3>2
            <4> QED
                BY <4>1, <4>2
        <3>5. Cardinality(invited') \in Nat /\ Cardinality(invited') <= Cardinality(invited) + 1
              /\ Cardinality(invited) \in Nat
            BY <1>0, <2>4, InvitedCounting DEF ContestInv
        <3>6. /\ MaxInvited \in Nat /\ MaxSubs \in Nat /\ Cardinality(ContestRequests) \in Nat
              /\ Cardinality(invited) + Cardinality(Accepting) < MaxInvited + Cardinality(ContestRequests)
            BY ContestAssumption, Counting DEF ContestAssumption, ContestInv, Budget
        <3>7. Cardinality(invited)' + Cardinality(Accepting)' < MaxInvited + Cardinality(ContestRequests)
            BY <3>3, <3>5, <3>6, PendingSizes
        <3>8. ASSUME NEW v \in Persons
              PROVE  /\ entries'[v] + Cardinality(Submitting(v))' < MaxSubs + Cardinality(ContestRequests)
                     /\ started'[v] + Cardinality(Starting(v))' <= Cardinality(ContestRequests)
            <4>1. /\ entries[v] + Cardinality(Submitting(v)) < MaxSubs + Cardinality(ContestRequests)
                  /\ started[v] + Cardinality(Starting(v)) <= Cardinality(ContestRequests)
                  /\ entries[v] \in Nat /\ started[v] \in Nat
                BY DEF ContestInv, Budget, ContestTypeOK
            <4> QED
                BY <2>2, <3>4, <3>6, <4>1, PendingSizes
        <3> QED
            BY <3>7, <3>8 DEF Budget
    <2> QED
        BY <1>1, <2>3, <2>4
<1> QED
    BY <1>2, <1>3, <1>4, <1>5 DEF ContestInv

LEMMA WriteWindowStep ==
    ASSUME ContestInv, NEW r \in ContestRequests, WriteWindow(r)
    PROVE  ContestInv'
<1> PICK u \in Persons : u = request[r].user
    BY RequestKinds DEF WriteWindow, ContestInv, Idle
<1> DEFINE w == [from |-> request[r].from, to |-> request[r].to]
<1>0. /\ u \in Persons /\ request[r].kind = "start"
      /\ request[r].from \in Nat /\ request[r].to \in Nat /\ request[r].from >= 1
      /\ Wrote(r) /\ UNCHANGED <<clock, contest, registered, invited, entries, excused, updates>>
      /\ request' \in [ContestRequests -> RequestType] /\ request'[r].kind = "idle"
      /\ \A s \in ContestRequests : s # r => request'[s] = request[s]
    BY RequestKinds, WroteType DEF WriteWindow, ContestInv, WindowsCounted, Idle
<1>1. \/ UNCHANGED <<window, started>>
      \/ window' = [window EXCEPT ![u] = w] /\ started' = [started EXCEPT ![u] = @ + 1]
    BY DEF WriteWindow
<1>w. w \in [from : Nat, to : Nat] /\ w # NoWindow
    BY <1>0 DEF NoWindow
<1> HIDE DEF w
<1>2. ContestTypeOK'
    <2>1. window' \in [Persons -> [from : Nat, to : Nat]] /\ started' \in [Persons -> Nat]
        BY <1>0, <1>1, <1>w DEF ContestInv, ContestTypeOK
    <2> QED
        BY <1>0, <2>1 DEF ContestInv, ContestTypeOK
<1>3. WindowsCounted'
    BY <1>0, <1>1, <1>w DEF ContestInv, WindowsCounted, ContestTypeOK
<1>4. EntriesOwned'
    BY <1>0 DEF ContestInv, EntriesOwned, IsTester
<1>5. Budget'
    <2>1. request' = [request EXCEPT ![r] = Idle] /\ Idle.kind = "idle"
        BY <1>0 DEF Wrote, Idle
    <2>2. CASE UNCHANGED <<window, started>>
        <3>1. PendingShrinks
            BY <1>0, WroteShrinks DEF ContestInv
        <3> QED
            BY <1>0, <2>2, <3>1, BudgetShrinksOnly
    <2>3. CASE started' = [started EXCEPT ![u] = @ + 1]
        <3>1. /\ Accepting' = Accepting \ {r}
              /\ \A v \in Persons : /\ Submitting(v)' = Submitting(v) \ {r}
                                    /\ Starting(v)' = Starting(v) \ {r}
            BY <2>1, PendingSets DEF ContestInv
        <3>2. /\ r \notin Accepting /\ r \in Starting(u)
              /\ \A v \in Persons : r \notin Submitting(v) /\ (v # u => r \notin Starting(v))
            BY <1>0 DEF Accepting, Submitting, Starting
        <3>3. Cardinality(Starting(u))' = Cardinality(Starting(u)) - 1
            <4>1. Starting(u) \in SUBSET ContestRequests
                BY DEF Starting
            <4>2. Starting(u)' = Starting(u) \ {r}
                BY <1>0, <3>1
            <4>3. Cardinality(Starting(u) \ {r}) = Cardinality(Starting(u)) - 1
                BY <3>2, <4>1, Counting
            <4> QED
                BY <4>2, <4>3
        <3>4. /\ Accepting' = Accepting
              /\ \A v \in Persons : Submitting(v)' = Submitting(v) /\ (v # u => Starting(v)' = Starting(v))
            <4>1. Accepting' = Accepting
                BY <3>1, <3>2
            <4>2. ASSUME NEW v \in Persons
                  PROVE  Submitting(v)' = Submitting(v) /\ (v # u => Starting(v)' = Starting(v))
                <5>1. Submitting(v)' = Submitting(v) \ {r} /\ Starting(v)' = Starting(v) \ {r}
                    BY <3>1
                <5>2. r \notin Submitting(v) /\ (v # u => r \notin Starting(v))
                    BY <3>2
                <5> QED
                    BY <5>1, <5>2
            <4> QED
                BY <4>1, <4>2
        <3>5. started[u] \in Nat /\ started'[u] = started[u] + 1
              /\ \A v \in Persons : v # u => started'[v] = started[v]
            BY <1>0, <2>3 DEF ContestInv, ContestTypeOK
        <3>6. started'[u] + Cardinality(Starting(u))' <= Cardinality(ContestRequests)
            BY <1>0, <3>3, <3>5, PendingSizes, Counting DEF ContestInv, Budget
        <3>7. ASSUME NEW v \in Persons
              PROVE  /\ entries'[v] + Cardinality(Submitting(v))' < MaxSubs + Cardinality(ContestRequests)
                     /\ started'[v] + Cardinality(Starting(v))' <= Cardinality(ContestRequests)
            <4>1. /\ entries[v] + Cardinality(Submitting(v)) < MaxSubs + Cardinality(ContestRequests)
                  /\ started[v] + Cardinality(Starting(v)) <= Cardinality(ContestRequests)
                BY DEF ContestInv, Budget
            <4>2. Submitting(v)' = Submitting(v) /\ entries' = entries
                BY <1>0, <3>4
            <4>3. CASE v = u
                BY <3>6, <4>1, <4>2, <4>3
            <4>4. CASE v # u
                BY <3>4, <3>5, <4>1, <4>2, <4>4
            <4> QED
                BY <4>3, <4>4
        <3>8. Cardinality(invited)' + Cardinality(Accepting)' < MaxInvited + Cardinality(ContestRequests)
            BY <1>0, <3>4 DEF ContestInv, Budget
        <3> QED
            BY <3>7, <3>8 DEF Budget
    <2> QED
        BY <1>1, <2>2, <2>3
<1> QED
    BY <1>2, <1>3, <1>4, <1>5 DEF ContestInv

LEMMA WriteSubmissionStep ==
    ASSUME ContestInv, NEW r \in ContestRequests, WriteSubmission(r)
    PROVE  ContestInv'
<1> PICK u \in Persons : u = request[r].user
    BY RequestKinds DEF WriteSubmission, ContestInv, Idle
<1>0. /\ u \in Persons /\ request[r].kind = "submit"
      /\ Wrote(r) /\ UNCHANGED <<clock, contest, registered, invited, window, started, updates>>
      /\ entries' = [entries EXCEPT ![u] = @ + 1]
      /\ excused' = IF u \in registered \/ IsTester(u) THEN excused ELSE excused \cup {u}
      /\ request' \in [ContestRequests -> RequestType] /\ request'[r].kind = "idle"
      /\ \A s \in ContestRequests : s # r => request'[s] = request[s]
    BY RequestKinds, WroteType DEF WriteSubmission, ContestInv, Idle
<1>1. entries' \in [Persons -> Nat] /\ entries[u] \in Nat /\ entries'[u] = entries[u] + 1
      /\ \A v \in Persons : v # u => entries'[v] = entries[v]
    BY <1>0 DEF ContestInv, ContestTypeOK
<1>2. ContestTypeOK'
    BY <1>0, <1>1 DEF ContestInv, ContestTypeOK
<1>3. WindowsCounted'
    BY <1>0 DEF ContestInv, WindowsCounted
<1>4. EntriesOwned'
    BY <1>0, <1>1 DEF ContestInv, EntriesOwned, IsTester
<1>5. Budget'
    <2>1. request' = [request EXCEPT ![r] = Idle] /\ Idle.kind = "idle"
        BY <1>0 DEF Wrote, Idle
    <2>2. /\ Accepting' = Accepting \ {r}
          /\ \A v \in Persons : /\ Submitting(v)' = Submitting(v) \ {r}
                                /\ Starting(v)' = Starting(v) \ {r}
        BY <2>1, PendingSets DEF ContestInv
    <2>3. /\ r \notin Accepting /\ r \in Submitting(u)
          /\ \A v \in Persons : r \notin Starting(v) /\ (v # u => r \notin Submitting(v))
        BY <1>0 DEF Accepting, Submitting, Starting
    <2>4. Cardinality(Submitting(u))' = Cardinality(Submitting(u)) - 1
        <3>1. Submitting(u) \in SUBSET ContestRequests
            BY DEF Submitting
        <3>2. Submitting(u)' = Submitting(u) \ {r}
            BY <1>0, <2>2
        <3>3. Cardinality(Submitting(u) \ {r}) = Cardinality(Submitting(u)) - 1
            BY <2>3, <3>1, Counting
        <3> QED
            BY <3>2, <3>3
    <2>5. /\ Accepting' = Accepting
          /\ \A v \in Persons : Starting(v)' = Starting(v) /\ (v # u => Submitting(v)' = Submitting(v))
        <3>1. Accepting' = Accepting
            BY <2>2, <2>3
        <3>2. ASSUME NEW v \in Persons
              PROVE  Starting(v)' = Starting(v) /\ (v # u => Submitting(v)' = Submitting(v))
            <4>1. Submitting(v)' = Submitting(v) \ {r} /\ Starting(v)' = Starting(v) \ {r}
                BY <2>2
            <4>2. r \notin Starting(v) /\ (v # u => r \notin Submitting(v))
                BY <2>3
            <4> QED
                BY <4>1, <4>2
        <3> QED
            BY <3>1, <3>2
    <2>6. MaxSubs \in Nat
        BY ContestAssumption DEF ContestAssumption
    <2>7. entries'[u] + Cardinality(Submitting(u))' < MaxSubs + Cardinality(ContestRequests)
        BY <1>0, <1>1, <2>4, <2>6, PendingSizes, Counting DEF ContestInv, Budget
    <2>8. ASSUME NEW v \in Persons
          PROVE  /\ entries'[v] + Cardinality(Submitting(v))' < MaxSubs + Cardinality(ContestRequests)
                 /\ started'[v] + Cardinality(Starting(v))' <= Cardinality(ContestRequests)
        <3>1. /\ entries[v] + Cardinality(Submitting(v)) < MaxSubs + Cardinality(ContestRequests)
              /\ started[v] + Cardinality(Starting(v)) <= Cardinality(ContestRequests)
            BY DEF ContestInv, Budget
        <3>2. Starting(v)' = Starting(v) /\ started' = started
            BY <1>0, <2>5
        <3>3. CASE v = u
            BY <2>7, <3>1, <3>2, <3>3
        <3>4. CASE v # u
            BY <1>1, <2>5, <3>1, <3>2, <3>4
        <3> QED
            BY <3>3, <3>4
    <2>9. Cardinality(invited)' + Cardinality(Accepting)' < MaxInvited + Cardinality(ContestRequests)
        BY <1>0, <2>5 DEF ContestInv, Budget
    <2> QED
        BY <2>8, <2>9 DEF Budget
<1> QED
    BY <1>2, <1>3, <1>4, <1>5 DEF ContestInv

LEMMA DeleteRegistrationStep ==
    ASSUME ContestInv, NEW r \in ContestRequests, DeleteRegistration(r)
    PROVE  ContestInv'
<1> PICK u \in Persons : u = request[r].user
    BY RequestKinds DEF DeleteRegistration, ContestInv, Idle
<1> DEFINE x == [kind |-> "clear", user |-> u]
<1>0. /\ u \in Persons /\ request[r].kind = "kick"
      /\ registered' = registered \ {u} /\ invited' = invited \ {u}
      /\ window' = [window EXCEPT ![u] = NoWindow] /\ started' = [started EXCEPT ![u] = 0]
      /\ request' = [request EXCEPT ![r] = x]
      /\ UNCHANGED <<clock, contest, entries, excused, updates>>
    BY RequestKinds DEF DeleteRegistration, ContestInv, Idle
<1>x. x \in RequestType /\ x \in LightRequest /\ x.kind = "clear" /\ x.user = u
    BY <1>0 DEF RequestType, LightRequest
<1> HIDE DEF x
<1>1. request'[r] = x /\ \A s \in ContestRequests : s # r => request'[s] = request[s]
    BY <1>0 DEF ContestInv, ContestTypeOK
<1>2. ContestTypeOK'
    <2>1. window' \in [Persons -> [from : Nat, to : Nat]] /\ started' \in [Persons -> Nat]
        BY <1>0 DEF ContestInv, ContestTypeOK, NoWindow
    <2> QED
        BY <1>0, <1>x, <2>1 DEF ContestInv, ContestTypeOK
<1>3. WindowsCounted'
    BY <1>0, <1>x, <1>1 DEF ContestInv, WindowsCounted, ContestTypeOK
<1>4. EntriesOwned'
    BY <1>0, <1>x, <1>1 DEF ContestInv, EntriesOwned, IsTester
<1>5. Budget'
    <2>1. \A v \in Persons : entries'[v] <= entries[v] /\ started'[v] <= started[v]
        BY <1>0 DEF ContestInv, ContestTypeOK
    <2>2. Cardinality(invited') \in Nat /\ Cardinality(invited') <= Cardinality(invited)
        BY <1>0, InvitedCounting DEF ContestInv
    <2>3. entries' \in [Persons -> Nat] /\ started' \in [Persons -> Nat]
        BY <1>2 DEF ContestTypeOK
    <2>4. PendingShrinks
        BY <1>0, <1>x, LightShrinks DEF ContestInv
    <2> QED
        BY <2>1, <2>2, <2>3, <2>4, BudgetShrinks
<1> QED
    BY <1>2, <1>3, <1>4, <1>5 DEF ContestInv

LEMMA ClearSubmissionsStep ==
    ASSUME ContestInv, NEW r \in ContestRequests, ClearSubmissions(r)
    PROVE  ContestInv'
<1> PICK u \in Persons : u = request[r].user
    BY RequestKinds DEF ClearSubmissions, ContestInv, Idle
<1>0. /\ u \in Persons /\ request[r].kind = "clear"
      /\ Wrote(r) /\ UNCHANGED <<clock, contest, registered, invited, window, started, updates>>
      /\ entries' = [entries EXCEPT ![u] = 0] /\ excused' = excused \ {u}
      /\ request' \in [ContestRequests -> RequestType] /\ request'[r].kind = "idle"
      /\ \A s \in ContestRequests : s # r => request'[s] = request[s]
    BY RequestKinds, WroteType DEF ClearSubmissions, ContestInv, Idle
<1>1. entries' \in [Persons -> Nat] /\ entries'[u] = 0
      /\ \A v \in Persons : v # u => entries'[v] = entries[v]
    BY <1>0 DEF ContestInv, ContestTypeOK
<1>2. ContestTypeOK'
    BY <1>0, <1>1 DEF ContestInv, ContestTypeOK
<1>3. WindowsCounted'
    BY <1>0 DEF ContestInv, WindowsCounted
<1>4. EntriesOwned'
    <2>1. \A v \in Persons : v # u =>
             /\ v \in excused => v \in excused'
             /\ \A s \in ContestRequests :
                  request[s].kind = "clear" /\ request[s].user = v => request'[s] = request[s]
        BY <1>0
    <2> QED
        BY <1>0, <1>1, <2>1 DEF ContestInv, EntriesOwned, IsTester
<1>5. Budget'
    <2>1. PendingShrinks
        BY <1>0, WroteShrinks DEF ContestInv
    <2>2. \A v \in Persons : entries'[v] <= entries[v] /\ started'[v] <= started[v]
        BY <1>0, <1>1 DEF ContestInv, ContestTypeOK
    <2>3. entries' \in [Persons -> Nat] /\ started' \in [Persons -> Nat]
        BY <1>2 DEF ContestTypeOK
    <2>4. Cardinality(invited') \in Nat /\ Cardinality(invited') <= Cardinality(invited)
        BY <1>0, InvitedCounting DEF ContestInv
    <2> QED
        BY <2>1, <2>2, <2>3, <2>4, BudgetShrinks
<1> QED
    BY <1>2, <1>3, <1>4, <1>5 DEF ContestInv

LEMMA RequestFailsStep ==
    ASSUME ContestInv, NEW r \in ContestRequests, RequestFails(r)
    PROVE  ContestInv'
<1>0. /\ request[r].user \in Persons
      /\ Wrote(r) /\ UNCHANGED <<clock, contest, registered, invited, window, entries, started, updates>>
      /\ excused' = IF request[r].kind = "clear" THEN excused \cup {request[r].user} ELSE excused
      /\ request' \in [ContestRequests -> RequestType] /\ request'[r].kind = "idle"
      /\ \A s \in ContestRequests : s # r => request'[s] = request[s]
    BY RequestKinds, WroteType DEF RequestFails, ContestInv, Idle
<1>2. ContestTypeOK'
    BY <1>0 DEF ContestInv, ContestTypeOK
<1>3. WindowsCounted'
    BY <1>0 DEF ContestInv, WindowsCounted
<1>4. EntriesOwned'
    BY <1>0 DEF ContestInv, EntriesOwned, IsTester
<1>5. Budget'
    <2>1. PendingShrinks
        BY <1>0, WroteShrinks DEF ContestInv
    <2> QED
        BY <1>0, <2>1, BudgetShrinksOnly
<1> QED
    BY <1>2, <1>3, <1>4, <1>5 DEF ContestInv

LEMMA ContestInvStep ==
    ASSUME ContestInv, [ContestNext]_contestVars
    PROVE  ContestInv'
<1>1. ASSUME NEW r \in ContestRequests, Ask(r) PROVE ContestInv'
    BY <1>1, AskStep
<1>2. ASSUME NEW r \in ContestRequests, Write(r) PROVE ContestInv'
    BY <1>2, WriteRegistrationStep, WriteWindowStep, WriteSubmissionStep, DeleteRegistrationStep,
       ClearSubmissionsStep, RequestFailsStep DEF Write
<1>3. ASSUME UNCHANGED <<registered, invited, window, entries, request, started, excused>>,
             clock' \in Nat, clock' >= clock, contest' \in Settings, updates' \in Nat
      PROVE  ContestInv'
    <2>1. ContestTypeOK' /\ WindowsCounted'
        BY <1>3 DEF ContestInv, ContestTypeOK, WindowsCounted
    <2>2. EntriesOwned'
        BY <1>3 DEF ContestInv, EntriesOwned, IsTester
    <2>3. /\ Accepting' = Accepting
          /\ \A u \in Persons : Submitting(u)' = Submitting(u) /\ Starting(u)' = Starting(u)
        BY <1>3 DEF Accepting, Submitting, Starting
    <2>4. Budget'
        BY <1>3, <2>3 DEF ContestInv, Budget
    <2> QED
        BY <2>1, <2>2, <2>4 DEF ContestInv
<1>4. CASE UpdateContest
    BY <1>3, <1>4 DEF UpdateContest, ContestInv, ContestTypeOK
<1>5. CASE Tick
    BY <1>3, <1>5 DEF Tick, ContestInv, ContestTypeOK
<1>6. CASE UNCHANGED contestVars
    BY <1>3, <1>6 DEF contestVars, ContestInv, ContestTypeOK
<1> QED
    BY <1>1, <1>2, <1>4, <1>5, <1>6 DEF ContestNext

LEMMA ContestInitInv == ContestInit => ContestInv
<1> SUFFICES ASSUME ContestInit PROVE ContestInv
    OBVIOUS
<1>1. ContestTypeOK
    BY DEF ContestInit, ContestTypeOK, NoWindow, RequestType
<1>2. WindowsCounted
    BY DEF ContestInit, WindowsCounted, Idle
<1>3. EntriesOwned
    BY DEF ContestInit, EntriesOwned
<1>4. Accepting = {} /\ invited = {} /\ \A u \in Persons : Submitting(u) = {} /\ Starting(u) = {}
    BY DEF ContestInit, Accepting, Submitting, Starting, Idle
<1>5. Budget
    <2>1. Cardinality({}) = 0
        BY FS_EmptySet
    <2>2. MaxSubs \in Nat \ {0} /\ MaxInvited \in Nat \ {0} /\ Cardinality(ContestRequests) \in Nat
        BY ContestAssumption, Counting DEF ContestAssumption
    <2>3. \A u \in Persons : entries[u] = 0 /\ started[u] = 0
        BY DEF ContestInit
    <2>4. \A u \in Persons :
             Cardinality(Submitting(u)) = 0 /\ Cardinality(Starting(u)) = 0
        BY <1>4, <2>1
    <2>5. Cardinality(invited) = 0 /\ Cardinality(Accepting) = 0
        BY <1>4, <2>1
    <2>6. \A n \in Nat : 0 + 0 < MaxSubs + n /\ 0 + 0 <= n /\ 0 + 0 < MaxInvited + n
        BY <2>2
    <2> QED
        BY <2>2, <2>3, <2>4, <2>5, <2>6 DEF Budget
<1> QED
    BY <1>1, <1>2, <1>3, <1>5 DEF ContestInv

LEMMA ContestInvariant == ContestSpec => []ContestInv
BY ContestInitInv, ContestInvStep, PTL DEF ContestSpec

-----------------------------------------------------------------------------
\* The tables of a contest and the requests under way stay in their domains.
THEOREM ContestTypeCorrect == ContestSpec => []ContestTypeOK
<1>1. ContestInv => ContestTypeOK
    BY DEF ContestInv
<1> QED
    BY <1>1, ContestInvariant, PTL

\* Whoever CanSubmitInContest lets submit is let see the problem by the Go code and by
\* the SQL functions, for all settings and moments.
THEOREM AllSubmittersSee == ContestSpec => []SubmittersSee
<1>1. ContestInv => SubmittersSee
    <2> SUFFICES ASSUME ContestInv, NEW u \in Persons, CanSubmitInContest(u)
                 PROVE  CanViewContestProblems(u) /\ VisiblePbs(u) /\ VisibleContests(u)
        BY DEF SubmittersSee
    <2>1. /\ clock \in Nat /\ contest.start \in Nat /\ contest.end \in Nat
          /\ window[u].to \in Nat /\ window[u].from \in Nat
        BY ContestAssumption
           DEF ContestInv, ContestTypeOK, ContestAssumption, SettingsType
    <2>2. CASE IsTester(u)
        BY <2>2 DEF CanViewContestProblems, VisiblePbs, VisibleContests
    <2>3. CASE ~IsTester(u)
        <3>1. Running /\ RunningInSQL /\ u \in registered
            BY <2>1, <2>3 DEF CanSubmitInContest, Running, Started, Ended, RunningInSQL
        <3>2. IndividualTime => window[u].from # 0 /\ clock <= window[u].to
            BY <2>1, <2>3 DEF CanSubmitInContest
        <3> QED
            BY <3>1, <3>2 DEF CanViewContestProblems, VisiblePbs, VisibleContests, Running
    <2> QED
        BY <2>2, <2>3
<1> QED
    BY <1>1, ContestInvariant, PTL

\* A hidden problem is not shown before the contest, before one's own window, nor in
\* practice before the end, for all settings and moments.
THEOREM NobodyLooksEarly == ContestSpec => []NoEarlyLook
<1>1. ContestInv => NoEarlyLook
    <2> SUFFICES ASSUME ContestInv, NEW u \in Persons, ~contest.problem_visible, ~IsTester(u)
                 PROVE  /\ VisiblePbs(u) \/ CanViewContestProblems(u) =>
                             /\ contest.start <= clock
                             /\ IndividualTime /\ clock < contest.end =>
                                    u \in registered /\ window[u].from # 0
                        /\ clock < contest.end => ~PersistentlyVisiblePbs(u)
        BY DEF NoEarlyLook
    <2>1. /\ clock \in Nat /\ contest.start \in Nat /\ contest.end \in Nat
          /\ contest.start <= contest.end
        BY ContestAssumption
           DEF ContestInv, ContestTypeOK, ContestAssumption, SettingsType
    <2>2. VisiblePbs(u) =>
             /\ contest.start <= clock
             /\ IndividualTime /\ clock < contest.end => u \in registered /\ window[u].from # 0
        BY <2>1 DEF VisiblePbs, RunningInSQL, EndedInSQL
    <2>3. CanViewContestProblems(u) =>
             /\ contest.start <= clock
             /\ IndividualTime /\ clock < contest.end => u \in registered /\ window[u].from # 0
        BY <2>1 DEF CanViewContestProblems, CanSubmitInContest, Started, Ended, Running
    <2>4. clock < contest.end => ~PersistentlyVisiblePbs(u)
        BY <2>1 DEF PersistentlyVisiblePbs, EndedInSQL
    <2> QED
        BY <2>2, <2>3, <2>4
<1> QED
    BY <1>1, ContestInvariant, PTL

\* Limits checked before the insertion are exceeded by the requests under way together
\* and no more, for any number of requests and any limits.
THEOREM LimitsHoldUpToRaces == ContestSpec => []AtMostOnePerRequest
<1>1. ContestInv => AtMostOnePerRequest
    <2> SUFFICES ASSUME ContestInv PROVE AtMostOnePerRequest
        OBVIOUS
    <2>1. MaxSubs \in Nat /\ MaxInvited \in Nat /\ Cardinality(ContestRequests) \in Nat
          /\ Cardinality(invited) \in Nat
        BY ContestAssumption, Counting, InvitedCounting DEF ContestAssumption, ContestInv
    <2>2. ASSUME NEW u \in Persons
          PROVE  /\ entries[u] <= MaxSubs + (Cardinality(ContestRequests) - 1)
                 /\ started[u] <= 1 + (Cardinality(ContestRequests) - 1)
        <3>1. entries[u] \in Nat /\ started[u] \in Nat
            BY DEF ContestInv, ContestTypeOK
        <3> QED
            BY <2>1, <3>1, PendingSizes DEF ContestInv, Budget
    <2>3. Cardinality(invited) <= MaxInvited + (Cardinality(ContestRequests) - 1)
        BY <2>1, PendingSizes DEF ContestInv, Budget
    <2> QED
        BY <2>2, <2>3 DEF AtMostOnePerRequest
<1> QED
    BY <1>1, ContestInvariant, PTL

\* Every submission in a contest is a contestant's or a tester's, but for kicks that are
\* not finished or failed, and submissions that were under way during one.
THEOREM EveryEntryOwned == ContestSpec => []EntriesOwned
<1>1. ContestInv => EntriesOwned
    BY DEF ContestInv
<1> QED
    BY <1>1, ContestInvariant, PTL

-----------------------------------------------------------------------------
(* Staff. EditorKept is inductive together with the domains of the         *)
(* variables and with what ChangeStaff leaves behind: a request that still *)
(* has to take a rank away takes the requester's own only to make him an   *)
(* editor.                                                                 *)

OwnRankUpOnly ==
    \A r \in StaffRequests :
        staffRequest[r].step = "strip" =>
            staffRequest[r].new = "editor" \/ staffRequest[r].user # staffRequest[r].by

StaffInv == StaffTypeOK /\ OwnRankUpOnly /\ EditorKept

\* The kinds of request, and the fields they have.
LEMMA StaffRequestKinds ==
    ASSUME StaffTypeOK, NEW r \in StaffRequests
    PROVE  /\ staffRequest[r] = NoRequest \/ staffRequest[r].step \in {"strip", "add"}
           /\ staffRequest[r].step = "strip" =>
                /\ staffRequest[r].by \in Accounts /\ staffRequest[r].user \in Accounts
                /\ staffRequest[r].new \in Ranks
           /\ staffRequest[r].step = "add" =>
                /\ staffRequest[r].user \in Accounts
                /\ staffRequest[r].new \in Ranks \ {"none"}
BY DEF StaffTypeOK, NoRequest, Ranks

LEMMA StaffInitInv == StaffInit => StaffInv
<1> SUFFICES ASSUME StaffInit PROVE StaffInv
    OBVIOUS
<1>1. StaffTypeOK
    BY DEF StaffInit, StaffTypeOK, Ranks
<1>2. OwnRankUpOnly
    BY DEF StaffInit, OwnRankUpOnly, NoRequest
<1>3. EditorKept
    <2>1. Author \in Accounts /\ rank[Author] = "editor"
        BY StaffAssumption DEF StaffInit, StaffAssumption
    <2> QED
        BY <2>1 DEF EditorKept
<1> QED
    BY <1>1, <1>2, <1>3 DEF StaffInv

LEMMA StaffNextInv == StaffInv /\ [StaffNext]_staffVars => StaffInv'
<1> SUFFICES ASSUME StaffInv, [StaffNext]_staffVars PROVE StaffInv'
    OBVIOUS
<1> USE DEF StaffInv
<1>1. ASSUME NEW r \in StaffRequests, NEW e \in Accounts, NEW u \in Accounts, NEW new \in Ranks,
             ChangeStaff(r, e, u, new)
      PROVE  StaffInv'
    <2>1. StaffTypeOK'
        BY <1>1 DEF ChangeStaff, StaffTypeOK
    <2>2. OwnRankUpOnly'
        BY <1>1 DEF ChangeStaff, StaffTypeOK, OwnRankUpOnly
    <2>3. EditorKept'
        BY <1>1 DEF ChangeStaff, StaffTypeOK, EditorKept, NoRequest
    <2> QED
        BY <2>1, <2>2, <2>3
<1>2. ASSUME NEW r \in StaffRequests, StripAccess(r)
      PROVE  StaffInv'
    <2> DEFINE q == staffRequest[r]
    <2>0. /\ q.step = "strip" /\ q.by \in Accounts /\ q.user \in Accounts /\ q.new \in Ranks
          /\ q.new = "editor" \/ q.user # q.by
        BY <1>2, StaffRequestKinds DEF StripAccess, OwnRankUpOnly
    <2>1. /\ rank' = [rank EXCEPT ![q.user] = "none"]
          /\ mishap' = (mishap \/ rank[q.by] # "editor")
          /\ staffRequest' = [staffRequest EXCEPT ![r] =
                 IF q.new = "none" THEN NoRequest
                 ELSE [step |-> "add", user |-> q.user, new |-> q.new]]
        BY <1>2 DEF StripAccess
    <2> HIDE DEF q
    <2>2. StaffTypeOK'
        <3>1. rank' \in [Accounts -> Ranks] /\ mishap' \in BOOLEAN
            BY <2>0, <2>1 DEF StaffTypeOK, Ranks
        <3>2. IF q.new = "none" THEN staffRequest'[r] = NoRequest
              ELSE staffRequest'[r] \in [step : {"add"}, user : Accounts, new : Ranks \ {"none"}]
            BY <2>0, <2>1 DEF StaffTypeOK
        <3> QED
            BY <3>1, <3>2, <2>1 DEF StaffTypeOK
    <2>3. OwnRankUpOnly'
        BY <2>0, <2>1 DEF StaffTypeOK, OwnRankUpOnly, NoRequest
    <2>4. EditorKept'
        <3>1. CASE q.new = "editor"
            <4>1. staffRequest'[r].step = "add" /\ staffRequest'[r].new = "editor"
                BY <2>1, <3>1 DEF StaffTypeOK
            <4> QED
                BY <4>1 DEF EditorKept
        <3>2. CASE q.new # "editor" /\ rank[q.by] = "editor"
            <4>1. rank'[q.by] = "editor"
                BY <2>0, <2>1, <3>2 DEF StaffTypeOK
            <4> QED
                BY <4>1, <2>0 DEF EditorKept
        <3>3. CASE rank[q.by] # "editor"
            BY <2>1, <3>3 DEF EditorKept
        <3> QED
            BY <3>1, <3>2, <3>3
    <2> QED
        BY <2>2, <2>3, <2>4
<1>3. ASSUME NEW r \in StaffRequests, AddAccess(r)
      PROVE  StaffInv'
    <2> DEFINE q == staffRequest[r]
    <2>0. q.step = "add" /\ q.user \in Accounts /\ q.new \in Ranks \ {"none"}
        BY <1>3, StaffRequestKinds DEF AddAccess
    <2>1. /\ IF rank[q.user] = "none"
               THEN rank' = [rank EXCEPT ![q.user] = q.new] /\ mishap' = mishap
               ELSE mishap' = TRUE /\ rank' = rank
          /\ staffRequest' = [staffRequest EXCEPT ![r] = NoRequest]
        BY <1>3 DEF AddAccess
    <2>2. StaffTypeOK'
        BY <2>0, <2>1 DEF StaffTypeOK
    <2>3. OwnRankUpOnly'
        BY <2>1 DEF StaffTypeOK, OwnRankUpOnly, NoRequest
    <2>4. EditorKept'
        <3>1. CASE rank[q.user] # "none"
            BY <2>1, <3>1 DEF EditorKept
        <3>2. CASE rank[q.user] = "none" /\ q.new = "editor"
            BY <2>0, <2>1, <3>2 DEF EditorKept, StaffTypeOK
        <3>3. CASE rank[q.user] = "none" /\ q.new # "editor"
            <4>1. \A v \in Accounts : rank[v] = "editor" => rank'[v] = "editor"
                BY <2>0, <2>1, <3>3 DEF StaffTypeOK
            <4>2. \A s \in StaffRequests :
                     staffRequest[s].step = "add" /\ staffRequest[s].new = "editor" =>
                        staffRequest'[s] = staffRequest[s]
                BY <2>1, <3>3 DEF StaffTypeOK
            <4> QED
                BY <2>1, <3>3, <4>1, <4>2 DEF EditorKept
        <3> QED
            BY <3>1, <3>2, <3>3
    <2> QED
        BY <2>2, <2>3, <2>4
<1>4. ASSUME NEW r \in StaffRequests, StaffRequestFails(r)
      PROVE  StaffInv'
    <2>1. StaffTypeOK'
        BY <1>4 DEF StaffRequestFails, StaffTypeOK
    <2>2. OwnRankUpOnly'
        BY <1>4 DEF StaffRequestFails, StaffTypeOK, OwnRankUpOnly, NoRequest
    <2>3. EditorKept'
        <3>1. CASE staffRequest[r].step = "add"
            BY <1>4, <3>1 DEF StaffRequestFails, EditorKept
        <3>2. CASE staffRequest[r].step # "add"
            BY <1>4, <3>2 DEF StaffRequestFails, StaffTypeOK, EditorKept
        <3> QED
            BY <3>1, <3>2
    <2> QED
        BY <2>1, <2>2, <2>3
<1>5. CASE UNCHANGED staffVars
    BY <1>5 DEF staffVars, StaffTypeOK, OwnRankUpOnly, EditorKept
<1> QED
    BY <1>1, <1>2, <1>3, <1>4, <1>5 DEF StaffNext

LEMMA StaffInvariant == StaffSpec => []StaffInv
BY StaffInitInv, StaffNextInv, PTL DEF StaffSpec

\* Every variable of StaffAccess stays in its domain, whoever asks for what.
THEOREM StaffTypeCorrect == StaffSpec => []StaffTypeOK
<1>1. StaffInv => StaffTypeOK
    BY DEF StaffInv
<1> QED
    BY <1>1, StaffInvariant, PTL

\* A problem or contest keeps an editor, however the changes of its staff interleave, but
\* for the mishaps that addAccess and removeAccess as two statements allow.
THEOREM EditorStays == StaffSpec => []EditorKept
<1>1. StaffInv => EditorKept
    BY DEF StaffInv
<1> QED
    BY <1>1, StaffInvariant, PTL

-----------------------------------------------------------------------------
(* Tokens. Two facts make RevokedTogether inductive: no access token comes *)
(* from another token (the foreign key refuses every renewal), and a grant *)
(* between its statements still describes its access token, if that is     *)
(* there at all, because identifiers are not drawn twice.                  *)

\* The refresh token of a grant finds its access token as the grant remembers it.
GrantRemembers ==
    \A g \in Grants :
        grant[g] # NoGrant =>
            /\ grant[g].access \in drawn
            /\ grant[g].access \in Live =>
                 LET row == tokens[grant[g].access] IN
                 row.kind = "access" /\ row.owner = grant[g].owner /\ row.era = grant[g].era

\* Chains of tokens have one link, from a refresh token to an access token.
OneLink ==
    \A t \in Live :
        /\ tokens[t].kind = "access" => tokens[t].parent = NoToken
        /\ tokens[t].kind = "refresh" =>
             tokens[t].parent \in Live /\ tokens[tokens[t].parent].kind = "access"

Present == \A t \in Live : tokens[t].era = signOuts[tokens[t].owner]

TokenInv == TokenTypeOK /\ Live \subseteq drawn /\ GrantRemembers /\ OneLink /\ Present

LEMMA RowFacts ==
    ASSUME TokenTypeOK, NEW t \in Live
    PROVE  t \in TokenIds /\ tokens[t] \in TokenRow
BY DEF TokenTypeOK, Live

LEMMA GrantFacts ==
    ASSUME TokenTypeOK, NEW g \in Grants, grant[g] # NoGrant
    PROVE  grant[g] \in [access : TokenIds, owner : Owners, era : Nat]
BY DEF TokenTypeOK

\* A row is not NoRow.
LEMMA RowsAreRows == NoRow \notin TokenRow /\ NoGrant \notin [access : TokenIds, owner : Owners, era : Nat]
BY TokenAssumption DEF NoRow, TokenRow, NoGrant, TokenAssumption

\* What a deletion of rows leaves: a refresh token goes with its access token.
LEMMA DeletionKeeps ==
    ASSUME TokenInv, NEW ts \in SUBSET TokenIds, tokens' = Without(ts)
    PROVE  /\ tokens' \in [TokenIds -> TokenRow \cup {NoRow}]
           /\ Live' \subseteq Live \ ts
           /\ \A t \in Live' : tokens'[t] = tokens[t]
           /\ OneLink'
<1>1. tokens' \in [TokenIds -> TokenRow \cup {NoRow}]
    BY DEF Without, TokenInv, TokenTypeOK
<1>2. \A t \in TokenIds : t \in Live' <=> t \in Live \ Cascade(ts)
    BY DEF Live, Without
<1>3. \A t \in Live' : tokens'[t] = tokens[t]
    BY <1>2 DEF Live, Without
<1>4. ts \subseteq Cascade(ts) /\ From(ts) \subseteq Cascade(ts)
    BY DEF Cascade
<1>5. Live' \subseteq Live \ ts
    BY <1>2, <1>4 DEF Live
<1>6. OneLink'
    <2> SUFFICES ASSUME NEW t \in Live'
                 PROVE  /\ tokens'[t].kind = "access" => tokens'[t].parent = NoToken
                        /\ tokens'[t].kind = "refresh" =>
                             /\ tokens'[t].parent \in Live'
                             /\ tokens'[tokens'[t].parent].kind = "access"
        BY DEF OneLink
    <2>1. t \in Live /\ t \in TokenIds /\ t \notin Cascade(ts) /\ tokens'[t] = tokens[t]
        BY <1>2, <1>3, <1>5 DEF Live
    <2>2. CASE tokens[t].kind = "refresh"
        <3> DEFINE p == tokens[t].parent
        <3>1. p \in Live /\ p \in TokenIds /\ tokens[p].kind = "access" /\ tokens[p].parent = NoToken
            BY <2>1, <2>2 DEF TokenInv, OneLink, Live
        <3>2. p \notin ts
            BY <2>1, <1>4 DEF From
        <3>3. p \notin From(ts) /\ p \notin From(From(ts))
            BY <3>1, TokenAssumption DEF From, TokenAssumption, Live
        <3>4. p \in Live'
            BY <1>2, <3>1, <3>2, <3>3 DEF Cascade
        <3> QED
            BY <1>3, <2>1, <3>1, <3>4, <2>2
    <2> QED
        BY <2>1, <2>2 DEF TokenInv, OneLink
<1> QED
    BY <1>1, <1>3, <1>5, <1>6

\* What the insertion of one row with a fresh identifier leaves.
LEMMA InsertionKeeps ==
    ASSUME TokenInv, NEW t \in TokenIds, t \notin drawn, NEW row \in TokenRow,
           tokens' = [tokens EXCEPT ![t] = row]
    PROVE  /\ tokens' \in [TokenIds -> TokenRow \cup {NoRow}]
           /\ Live' = Live \cup {t} /\ t \notin Live
           /\ tokens'[t] = row /\ \A s \in Live : tokens'[s] = tokens[s]
BY RowsAreRows DEF TokenInv, TokenTypeOK, Live

\* Insertion of an access token that comes from nothing.
LEMMA AccessInserted ==
    ASSUME TokenInv, NEW o \in Owners, NEW t \in TokenIds, Draw(t), UNCHANGED signOuts,
           tokens' = [tokens EXCEPT ![t] = NewToken("access", NoToken, o)]
    PROVE  /\ tokens' \in [TokenIds -> TokenRow \cup {NoRow}]
           /\ drawn' \subseteq TokenIds /\ drawn \subseteq drawn' /\ t \in drawn' /\ t \notin drawn
           /\ Live' = Live \cup {t}
           /\ tokens'[t] = NewToken("access", NoToken, o)
           /\ \A s \in Live : tokens'[s] = tokens[s]
           /\ Live' \subseteq drawn' /\ OneLink' /\ Present'
<1> DEFINE row == NewToken("access", NoToken, o)
<1>1. row \in TokenRow /\ row.kind = "access" /\ row.parent = NoToken /\ row.owner = o
      /\ row.era = signOuts[o]
    BY DEF NewToken, TokenRow, TokenInv, TokenTypeOK
<1> HIDE DEF row
<1>2. t \notin drawn /\ drawn' = drawn \cup {t} /\ tokens' = [tokens EXCEPT ![t] = row]
    BY DEF Draw, row
<1>3. /\ tokens' \in [TokenIds -> TokenRow \cup {NoRow}]
      /\ Live' = Live \cup {t} /\ t \notin Live
      /\ tokens'[t] = row /\ \A s \in Live : tokens'[s] = tokens[s]
    BY <1>1, <1>2, InsertionKeeps
<1>4. OneLink'
    BY <1>1, <1>3 DEF OneLink, TokenInv
<1>5. Present'
    BY <1>1, <1>3 DEF Present, TokenInv
<1> QED
    BY <1>2, <1>3, <1>4, <1>5 DEF row, TokenInv, TokenTypeOK

LEMMA TokenInvStep ==
    ASSUME TokenInv, [TokenNext]_tokenVars
    PROVE  TokenInv'
<1>1. ASSUME NEW o \in Owners, CreateAccessToken(o) PROVE TokenInv'
    <2> PICK t \in TokenIds :
            Draw(t) /\ tokens' = [tokens EXCEPT ![t] = NewToken("access", NoToken, o)]
        BY <1>1 DEF CreateAccessToken
    <2>0. UNCHANGED <<grant, signOuts, renewal>>
        BY <1>1 DEF CreateAccessToken
    <2>1. /\ tokens' \in [TokenIds -> TokenRow \cup {NoRow}]
          /\ drawn' \subseteq TokenIds /\ drawn \subseteq drawn' /\ t \notin drawn
          /\ Live' = Live \cup {t}
          /\ \A s \in Live : tokens'[s] = tokens[s]
          /\ Live' \subseteq drawn' /\ OneLink' /\ Present'
        BY <2>0, AccessInserted
    <2>2. GrantRemembers'
        BY <2>0, <2>1 DEF GrantRemembers, TokenInv
    <2>3. TokenTypeOK'
        BY <2>0, <2>1 DEF TokenTypeOK, TokenInv
    <2> QED
        BY <2>1, <2>2, <2>3 DEF TokenInv
<1>2. ASSUME NEW o \in Owners, TerminateSession(o) PROVE TokenInv'
    <2> DEFINE ts == {t \in Live : tokens[t].owner = o}
    <2>0. /\ tokens' = Without(ts) /\ UNCHANGED <<drawn, grant, renewal>>
          /\ signOuts' = [signOuts EXCEPT ![o] = @ + 1] /\ ts \in SUBSET TokenIds
        BY <1>2 DEF TerminateSession, Live
    <2>1. /\ tokens' \in [TokenIds -> TokenRow \cup {NoRow}]
          /\ Live' \subseteq Live \ ts
          /\ \A t \in Live' : tokens'[t] = tokens[t]
          /\ OneLink'
        BY <2>0, DeletionKeeps
    <2>2. \A t \in Live' : tokens[t].owner # o /\ tokens[t].owner \in Owners
        BY <2>1, RowFacts DEF TokenInv, TokenRow
    <2>3. signOuts' \in [Owners -> Nat] /\ \A p \in Owners \ {o} : signOuts'[p] = signOuts[p]
        BY <2>0 DEF TokenInv, TokenTypeOK
    <2>4. Present'
        BY <2>1, <2>2, <2>3 DEF Present, TokenInv
    <2>5. GrantRemembers'
        BY <2>0, <2>1 DEF GrantRemembers, TokenInv
    <2>6. TokenTypeOK'
        BY <2>0, <2>1, <2>3 DEF TokenTypeOK, TokenInv
    <2> QED
        BY <2>0, <2>1, <2>4, <2>5, <2>6 DEF TokenInv
<1>3. ASSUME NEW g \in Grants, FinishGrant(g) PROVE TokenInv'
    <2> DEFINE row == [kind |-> "refresh", parent |-> grant[g].access,
                       owner |-> grant[g].owner, era |-> grant[g].era]
    <2> PICK t \in TokenIds :
            /\ Draw(t)
            /\ tokens' = IF ParentExists(grant[g].access) THEN [tokens EXCEPT ![t] = row] ELSE tokens
        BY <1>3 DEF FinishGrant
    <2>0. /\ grant[g] # NoGrant /\ grant[g] \in [access : TokenIds, owner : Owners, era : Nat]
          /\ grant' = [grant EXCEPT ![g] = NoGrant] /\ UNCHANGED <<signOuts, renewal>>
          /\ t \notin drawn /\ drawn' = drawn \cup {t}
        BY <1>3, GrantFacts DEF FinishGrant, TokenInv, Draw
    <2>1. row \in TokenRow /\ row.kind = "refresh" /\ row.parent = grant[g].access
          /\ row.owner = grant[g].owner /\ row.era = grant[g].era
        BY <2>0 DEF TokenRow
    <2> HIDE DEF row
    <2>2. CASE grant[g].access \in Live
        <3>1. tokens' = [tokens EXCEPT ![t] = row]
            BY <2>2 DEF ParentExists
        <3>2. /\ tokens' \in [TokenIds -> TokenRow \cup {NoRow}]
              /\ Live' = Live \cup {t} /\ t \notin Live
              /\ tokens'[t] = row /\ \A s \in Live : tokens'[s] = tokens[s]
            BY <2>0, <2>1, <3>1, InsertionKeeps
        <3>3. /\ tokens[grant[g].access].kind = "access"
              /\ tokens[grant[g].access].owner = row.owner
              /\ tokens[grant[g].access].era = row.era
            BY <2>0, <2>1, <2>2 DEF TokenInv, GrantRemembers
        <3>4. OneLink'
            BY <2>1, <2>2, <3>2, <3>3 DEF OneLink, TokenInv
        <3>5. Present'
            BY <2>0, <2>2, <3>2, <3>3 DEF Present, TokenInv
        <3>6. GrantRemembers'
            <4> SUFFICES ASSUME NEW h \in Grants, grant'[h] # NoGrant
                         PROVE  /\ grant'[h].access \in drawn'
                                /\ grant'[h].access \in Live' =>
                                     /\ tokens'[grant'[h].access].kind = "access"
                                     /\ tokens'[grant'[h].access].owner = grant'[h].owner
                                     /\ tokens'[grant'[h].access].era = grant'[h].era
                BY DEF GrantRemembers
            <4>1. grant'[h] = grant[h] /\ grant[h] # NoGrant
                BY <2>0 DEF TokenInv, TokenTypeOK
            <4>2. grant[h].access \in drawn /\ grant[h].access # t
                BY <2>0, <4>1 DEF TokenInv, GrantRemembers
            <4> QED
                BY <2>0, <3>2, <4>1, <4>2 DEF TokenInv, GrantRemembers
        <3>7. TokenTypeOK'
            BY <2>0, <3>2 DEF TokenTypeOK, TokenInv
        <3> QED
            BY <2>0, <3>2, <3>4, <3>5, <3>6, <3>7 DEF TokenInv
    <2>3. CASE grant[g].access \notin Live
        <3>1. tokens' = tokens /\ Live' = Live
            BY <2>0, <2>3, TokenAssumption DEF ParentExists, TokenAssumption, Live
        <3>2. TokenTypeOK'
            BY <2>0, <3>1 DEF TokenTypeOK, TokenInv
        <3>3. GrantRemembers'
            BY <2>0, <3>1 DEF GrantRemembers, TokenInv, TokenTypeOK
        <3>4. OneLink' /\ Present'
            BY <2>0, <3>1 DEF OneLink, Present, TokenInv
        <3> QED
            BY <2>0, <3>1, <3>2, <3>3, <3>4 DEF TokenInv
    <2> QED
        BY <2>2, <2>3
<1>4. ASSUME NEW g \in Grants, GrantFails(g) PROVE TokenInv'
    <2>1. tokens' = tokens /\ Live' = Live /\ UNCHANGED <<drawn, signOuts, renewal>>
          /\ grant' = [grant EXCEPT ![g] = NoGrant]
        BY <1>4 DEF GrantFails, Live
    <2>2. TokenTypeOK'
        BY <2>1 DEF TokenTypeOK, TokenInv
    <2>3. GrantRemembers'
        BY <2>1 DEF GrantRemembers, TokenInv, TokenTypeOK
    <2>4. OneLink' /\ Present'
        BY <2>1 DEF OneLink, Present, TokenInv
    <2> QED
        BY <2>1, <2>2, <2>3, <2>4 DEF TokenInv
<1>5. ASSUME NEW g \in Grants, NEW o \in Owners, StartGrant(g, o) PROVE TokenInv'
    <2> DEFINE new(t) == [access |-> t, owner |-> o, era |-> signOuts[o]]
    <2> PICK t \in TokenIds :
            /\ Draw(t) /\ tokens' = [tokens EXCEPT ![t] = NewToken("access", NoToken, o)]
            /\ grant' = [grant EXCEPT ![g] = new(t)]
        BY <1>5 DEF StartGrant
    <2>0. UNCHANGED <<signOuts, renewal>>
        BY <1>5 DEF StartGrant
    <2>1. /\ tokens' \in [TokenIds -> TokenRow \cup {NoRow}]
          /\ drawn' \subseteq TokenIds /\ drawn \subseteq drawn' /\ t \in drawn' /\ t \notin drawn
          /\ Live' = Live \cup {t}
          /\ tokens'[t] = NewToken("access", NoToken, o)
          /\ \A s \in Live : tokens'[s] = tokens[s]
          /\ Live' \subseteq drawn' /\ OneLink' /\ Present'
        BY <2>0, AccessInserted
    <2>2. new(t) \in [access : TokenIds, owner : Owners, era : Nat]
        BY DEF TokenInv, TokenTypeOK
    <2>3. GrantRemembers'
        <3> SUFFICES ASSUME NEW h \in Grants, grant'[h] # NoGrant
                     PROVE  /\ grant'[h].access \in drawn'
                            /\ grant'[h].access \in Live' =>
                                 /\ tokens'[grant'[h].access].kind = "access"
                                 /\ tokens'[grant'[h].access].owner = grant'[h].owner
                                 /\ tokens'[grant'[h].access].era = grant'[h].era
            BY DEF GrantRemembers
        <3>1. CASE h = g
            <4>1. grant'[h] = new(t)
                BY <3>1 DEF TokenInv, TokenTypeOK
            <4> QED
                BY <2>1, <4>1 DEF NewToken
        <3>2. CASE h # g
            <4>1. grant'[h] = grant[h] /\ grant[h] # NoGrant
                BY <3>2 DEF TokenInv, TokenTypeOK
            <4> QED
                BY <2>1, <4>1 DEF TokenInv, GrantRemembers
        <3> QED
            BY <3>1, <3>2
    <2>4. TokenTypeOK'
        BY <2>0, <2>1, <2>2 DEF TokenTypeOK, TokenInv
    <2> QED
        BY <2>1, <2>3, <2>4 DEF TokenInv
<1>6. ASSUME NEW current \in TokenIds, Renew(current) PROVE TokenInv'
    <2> PICK a \in TokenIds \ drawn, r \in TokenIds \ drawn :
            /\ drawn' = drawn \cup {a, r}
            /\ ~ParentExists(r) =>
                 /\ renewal' = [presented |-> current, granted |-> FALSE]
                 /\ tokens' = tokens
        BY <1>6 DEF Renew
    <2>1. ~ParentExists(r)
        BY TokenAssumption DEF ParentExists, TokenInv, TokenAssumption
    <2>2. tokens' = tokens /\ Live' = Live /\ UNCHANGED <<grant, signOuts>>
        BY <1>6, <2>1 DEF Renew, Live
    <2>3. TokenTypeOK'
        <3>1. drawn' \subseteq TokenIds /\ drawn \subseteq drawn'
            BY DEF TokenTypeOK, TokenInv
        <3>2. renewal' = [presented |-> current, granted |-> FALSE]
            BY <2>1
        <3> QED
            BY <2>2, <3>1, <3>2 DEF TokenTypeOK, TokenInv
    <2>4. GrantRemembers' /\ OneLink' /\ Present'
        BY <2>2 DEF GrantRemembers, OneLink, Present, TokenInv
    <2> QED
        BY <2>2, <2>3, <2>4 DEF TokenInv
<1>7. ASSUME NEW current \in TokenIds, RenewUnknown(current) PROVE TokenInv'
    <2>1. tokens' = tokens /\ Live' = Live /\ UNCHANGED <<drawn, grant, signOuts>>
        BY <1>7 DEF RenewUnknown, Live
    <2>2. TokenTypeOK'
        BY <1>7, <2>1 DEF RenewUnknown, TokenTypeOK, TokenInv
    <2>3. GrantRemembers' /\ OneLink' /\ Present'
        BY <2>1 DEF GrantRemembers, OneLink, Present, TokenInv
    <2> QED
        BY <2>1, <2>2, <2>3 DEF TokenInv
<1>8. ASSUME NEW t \in TokenIds, RevokeToken(t) PROVE TokenInv'
    <2>0. tokens' = Without({t}) /\ UNCHANGED <<drawn, grant, signOuts, renewal>>
        BY <1>8 DEF RevokeToken
    <2>1. /\ tokens' \in [TokenIds -> TokenRow \cup {NoRow}]
          /\ Live' \subseteq Live \ {t}
          /\ \A s \in Live' : tokens'[s] = tokens[s]
          /\ OneLink'
        BY <2>0, DeletionKeeps
    <2>2. Present'
        BY <2>0, <2>1 DEF Present, TokenInv
    <2>3. GrantRemembers'
        BY <2>0, <2>1 DEF GrantRemembers, TokenInv
    <2>4. TokenTypeOK'
        BY <2>0, <2>1 DEF TokenTypeOK, TokenInv
    <2> QED
        BY <2>0, <2>1, <2>2, <2>3, <2>4 DEF TokenInv
<1>9. CASE UNCHANGED tokenVars
    <2>1. Live' = Live
        BY <1>9 DEF tokenVars, Live
    <2> QED
        BY <1>9, <2>1 DEF tokenVars, TokenInv, TokenTypeOK, GrantRemembers, OneLink, Present
<1> QED
    BY <1>1, <1>2, <1>3, <1>4, <1>5, <1>6, <1>7, <1>8, <1>9 DEF TokenNext

LEMMA TokenInvariant == TokenSpec => []TokenInv
<1>1. TokenInit => TokenInv
    BY DEF TokenInit, TokenInv, TokenTypeOK, GrantRemembers, OneLink, Present, Live
<1>2. TokenInv /\ [TokenNext]_tokenVars => TokenInv'
    BY TokenInvStep
<1> QED
    BY <1>1, <1>2, PTL DEF TokenSpec

\* The table, the grants and the answers stay in their domains.
THEOREM TokenTypeCorrect == TokenSpec => []TokenTypeOK
<1>1. TokenInv => TokenTypeOK
    BY DEF TokenInv
<1> QED
    BY <1>1, TokenInvariant, PTL

\* No refresh token outlives its access token or its owner's sign-out, however grants,
\* renewals, revocations and sign-outs interleave.
THEOREM TokensRevokedTogether == TokenSpec => []RevokedTogether
<1>1. TokenInv => RevokedTogether
    BY DEF TokenInv, RevokedTogether, OneLink, Present
<1> QED
    BY <1>1, TokenInvariant, PTL

-----------------------------------------------------------------------------
(* Sessions. An entry is of a session that was drawn, so a session just    *)
(* created finds none; with that, CacheExplained is inductive. That the    *)
(* rows hold no identifier twice is not needed.                            *)

SessionChange ==
    {[step |-> "done"], [step |-> "removeOld"], [step |-> "list"]}
    \cup [step : {"invalidate"}, left : SUBSET SessionIds]

SessionTypeOK ==
    /\ version \in Nat
    /\ sessions \in Seq(SessionIds)
    /\ ended \subseteq SessionIds
    /\ cached \in [SessionIds -> Nat \cup {Absent}]
    /\ filling \in [SessionIds -> Nat \cup {Absent}]
    /\ change \in [SessionRequests -> SessionChange]
    /\ stale \subseteq SessionIds

EntriesDrawn ==
    \A s \in SessionIds :
        cached[s] # Absent \/ filling[s] # Absent => s \in Active \cup ended

SessionInv == SessionTypeOK /\ EntriesDrawn /\ CacheExplained

\* The identifiers of a piece of a sequence.
LEMMA Piece ==
    ASSUME NEW S, NEW q \in Seq(S), NEW m \in Nat \ {0}, NEW n \in Nat, n <= Len(q)
    PROVE  /\ SubSeq(q, m, n) \in Seq(S)
           /\ ToSet(SubSeq(q, m, n)) = {q[j] : j \in m..n}
           /\ ToSet(q) = {q[j] : j \in 1..Len(q)}
           /\ {q[j] : j \in m..n} \subseteq S
<1> DEFINE r == SubSeq(q, m, n)
<1>1. Len(q) \in Nat /\ DOMAIN q = 1..Len(q) /\ \A j \in 1..Len(q) : q[j] \in S
    BY LenProperties, ElementOfSeq
<1>2. \A j \in m..n : j \in 1..Len(q) /\ q[j] \in S
    BY <1>1
<1>3. /\ r \in Seq(S) /\ Len(r) = IF m <= n THEN n - m + 1 ELSE 0
      /\ \A j \in 1..(n - m + 1) : r[j] = q[m + j - 1]
    BY <1>2, SubSeqProperties
<1> HIDE DEF r
<1>4. DOMAIN r = 1..(n - m + 1)
    BY <1>3, LenProperties
<1>5. ASSUME NEW j \in 1..(n - m + 1) PROVE r[j] \in {q[i] : i \in m..n}
    <2>1. m + j - 1 \in m..n
        OBVIOUS
    <2> QED
        BY <1>3, <2>1
<1>6. ASSUME NEW j \in m..n PROVE q[j] \in ToSet(r)
    <2>1. j - m + 1 \in 1..(n - m + 1) /\ m + (j - m + 1) - 1 = j
        OBVIOUS
    <2>2. r[j - m + 1] = q[j]
        BY <1>3, <2>1
    <2> QED
        BY <1>4, <2>1, <2>2 DEF ToSet
<1>7. ToSet(r) = {q[j] : j \in m..n}
    BY <1>4, <1>5, <1>6 DEF ToSet
<1> QED
    BY <1>1, <1>2, <1>3, <1>7 DEF r, ToSet

LEMMA ToSetConcat ==
    ASSUME NEW S, NEW s1 \in Seq(S), NEW s2 \in Seq(S)
    PROVE  s1 \o s2 \in Seq(S) /\ ToSet(s1 \o s2) = ToSet(s1) \cup ToSet(s2)
<1>1. \A q \in {s1, s2, s1 \o s2} : ToSet(q) = Range(q)
    BY DEF ToSet, Range
<1>2. s1 \o s2 \in Seq(S)
    BY ConcatProperties
<1>3. Range(s1 \o s2) = Range(s1) \cup Range(s2)
    BY RangeConcatenation
<1> QED
    BY <1>1, <1>2, <1>3

\* Removing one row leaves every other identifier.
LEMMA RowRemoved ==
    ASSUME NEW S, NEW q \in Seq(S), NEW i \in DOMAIN q
    PROVE  /\ RemoveAt(q, i) \in Seq(S)
           /\ \A x : x # q[i] => (x \in ToSet(RemoveAt(q, i)) <=> x \in ToSet(q))
           /\ ToSet(RemoveAt(q, i)) \subseteq ToSet(q)
<1> DEFINE n == Len(q)
           a == SubSeq(q, 1, i - 1)
           b == SubSeq(q, i + 1, n)
<1>1. n \in Nat /\ i \in 1..n
    BY LenProperties
<1>2. /\ a \in Seq(S) /\ ToSet(a) = {q[j] : j \in 1..(i - 1)} /\ ToSet(q) = {q[j] : j \in 1..n}
    BY <1>1, Piece
<1>3. b \in Seq(S) /\ ToSet(b) = {q[j] : j \in (i + 1)..n}
    BY <1>1, Piece
<1>4. 1..n = 1..(i - 1) \cup {i} \cup (i + 1)..n
    BY <1>1
<1>5. RemoveAt(q, i) = a \o b
    BY DEF RemoveAt
<1> HIDE DEF n, a, b
<1>6. RemoveAt(q, i) \in Seq(S) /\ ToSet(RemoveAt(q, i)) = ToSet(a) \cup ToSet(b)
    BY <1>2, <1>3, <1>5, ToSetConcat
<1> QED
    BY <1>2, <1>3, <1>4, <1>6

\* Appending a row adds its identifier.
LEMMA RowAppended ==
    ASSUME NEW S, NEW q \in Seq(S), NEW x \in S
    PROVE  Append(q, x) \in Seq(S) /\ ToSet(Append(q, x)) = ToSet(q) \cup {x}
<1>1. /\ Append(q, x) \in Seq(S) /\ Len(q) \in Nat /\ Len(Append(q, x)) = Len(q) + 1
      /\ DOMAIN q = 1..Len(q) /\ DOMAIN Append(q, x) = 1..(Len(q) + 1)
      /\ Append(q, x)[Len(q) + 1] = x
      /\ \A j \in 1..Len(q) : Append(q, x)[j] = q[j]
    BY AppendProperties, LenProperties
<1>2. 1..(Len(q) + 1) = (1..Len(q)) \cup {Len(q) + 1}
    BY <1>1
<1> QED
    BY <1>1, <1>2 DEF ToSet

\* What SessionsBut and the cut of the oldest rows leave.
LEMMA ActiveBut ==
    ASSUME SessionTypeOK, NEW s \in SessionIds
    PROVE  /\ SessionsBut(s) \in Seq(SessionIds)
           /\ ToSet(SessionsBut(s)) \subseteq Active
           /\ \A t : t # s => (t \in ToSet(SessionsBut(s)) <=> t \in Active)
<1>1. CASE s \in Active
    <2> DEFINE i == CHOOSE i \in DOMAIN sessions : sessions[i] = s
    <2>1. i \in DOMAIN sessions /\ sessions[i] = s
        BY <1>1 DEF Active, ToSet
    <2>2. SessionsBut(s) = RemoveAt(sessions, i)
        BY <1>1 DEF SessionsBut
    <2> HIDE DEF i
    <2> QED
        BY <2>1, <2>2, RowRemoved DEF Active, SessionTypeOK
<1>2. CASE s \notin Active
    BY <1>2 DEF SessionsBut, Active, SessionTypeOK
<1> QED
    BY <1>1, <1>2

LEMMA OldestCut ==
    ASSUME NEW S, NEW q \in Seq(S), NEW over \in 0..Len(q)
    PROVE  /\ SubSeq(q, over + 1, Len(q)) \in Seq(S)
           /\ {q[i] : i \in 1..over} \subseteq S
           /\ ToSet(q) = {q[i] : i \in 1..over} \cup ToSet(SubSeq(q, over + 1, Len(q)))
<1> DEFINE n == Len(q)
<1>1. n \in Nat
    BY LenProperties
<1>2. /\ SubSeq(q, over + 1, n) \in Seq(S)
      /\ ToSet(SubSeq(q, over + 1, n)) = {q[j] : j \in (over + 1)..n}
      /\ ToSet(q) = {q[j] : j \in 1..n}
    BY <1>1, Piece
<1>3. {q[j] : j \in 1..over} \subseteq S
    BY <1>1, LenProperties, ElementOfSeq
<1>4. 1..n = 1..over \cup (over + 1)..n
    BY <1>1
<1> HIDE DEF n
<1>5. {q[j] : j \in 1..n} = {q[i] : i \in 1..over} \cup {q[j] : j \in (over + 1)..n}
    BY <1>4
<1> QED
    BY <1>2, <1>3, <1>5 DEF n

LEMMA FirstEnds ==
    ASSUME NEW S, NEW q \in Seq(S), q # <<>>
    PROVE  Tail(q) \in Seq(S) /\ Head(q) \in S /\ ToSet(q) = {Head(q)} \cup ToSet(Tail(q))
<1>1. Len(q) \in Nat \ {0} /\ 1 \in 0..Len(q) /\ 1 + 1 = 2
    BY EmptySeq
<1>2. Head(q) = q[1] /\ Head(q) \in S /\ Tail(q) \in Seq(S)
    BY HeadTailProperties
<1>3. Tail(q) = SubSeq(q, 2, Len(q))
    BY TailIsSubSeq
<1>4. ToSet(q) = {q[i] : i \in 1..1} \cup ToSet(SubSeq(q, 1 + 1, Len(q)))
    BY <1>1, OldestCut
<1>5. {q[i] : i \in 1..1} = {q[1]}
    OBVIOUS
<1> QED
    BY <1>1, <1>2, <1>3, <1>4, <1>5

LEMMA ChangeFacts ==
    /\ NothingToDo \in SessionChange /\ NothingToDo.step = "done"
    /\ [step |-> "removeOld"] \in SessionChange /\ [step |-> "list"] \in SessionChange
    /\ \A c \in SessionChange : c.step = "invalidate" => c.left \subseteq SessionIds
    /\ \A ss \in SUBSET SessionIds :
         /\ Invalidate(ss) \in SessionChange
         /\ ss # {} => Invalidate(ss).step = "invalidate" /\ Invalidate(ss).left = ss
BY DEF NothingToDo, SessionChange, Invalidate

LEMMA ActiveIds ==
    ASSUME SessionTypeOK
    PROVE  /\ Active \subseteq SessionIds
           /\ \A s \in SessionIds : SessionUser(s) \in Nat
           /\ Absent \notin Nat
<1>1. \A i \in DOMAIN sessions : sessions[i] \in SessionIds
    BY LenProperties, ElementOfSeq DEF SessionTypeOK
<1> QED
    BY <1>1 DEF Active, ToSet, SessionUser, SessionTypeOK, Absent

\* The extended session stays, as the last.
LEMMA Extended ==
    ASSUME SessionTypeOK, NEW s \in SessionIds, ExtendSession(s)
    PROVE  sessions' \in Seq(SessionIds) /\ Active' = Active
<1> DEFINE q == SessionsBut(s)
<1>1. q \in Seq(SessionIds) /\ ToSet(q) \subseteq Active /\ \A t : t # s => (t \in ToSet(q) <=> t \in Active)
    BY ActiveBut
<1>2. s \in Active /\ sessions' = Append(q, s)
    BY DEF ExtendSession
<1> HIDE DEF q
<1>3. sessions' \in Seq(SessionIds) /\ ToSet(sessions') = ToSet(q) \cup {s}
    BY <1>1, <1>2, RowAppended
<1>4. ToSet(sessions') = Active
    BY <1>1, <1>2, <1>3
<1> QED
    BY <1>3, <1>4 DEF Active

LEMMA SessionTypeStep ==
    ASSUME SessionTypeOK, EntriesDrawn, [SessionNext]_sessionVars
    PROVE  SessionTypeOK' /\ EntriesDrawn'
<1> USE ChangeFacts, ActiveIds
<1>1. ASSUME NEW s \in SessionIds, FillStart(s) PROVE SessionTypeOK' /\ EntriesDrawn'
    BY <1>1 DEF FillStart, SessionTypeOK, EntriesDrawn, Active
<1>2. ASSUME NEW s \in SessionIds, FillEnd(s) PROVE SessionTypeOK' /\ EntriesDrawn'
    <2>1. SessionTypeOK'
        BY <1>2 DEF FillEnd, SessionTypeOK
    <2>2. EntriesDrawn'
        BY <1>2 DEF FillEnd, SessionTypeOK, EntriesDrawn, Active
    <2> QED
        BY <2>1, <2>2
<1>3. ASSUME NEW s \in SessionIds, EntryExpires(s) PROVE SessionTypeOK' /\ EntriesDrawn'
    BY <1>3 DEF EntryExpires, SessionTypeOK, EntriesDrawn, Active
<1>4. ASSUME NEW s \in SessionIds, ExtendSession(s) PROVE SessionTypeOK' /\ EntriesDrawn'
    <2>1. sessions' \in Seq(SessionIds) /\ Active' = Active
        BY <1>4, Extended
    <2> QED
        BY <1>4, <2>1 DEF ExtendSession, SessionTypeOK, EntriesDrawn
<1>5. ASSUME NEW r \in SessionRequests, CreateSession(r) PROVE SessionTypeOK' /\ EntriesDrawn'
    <2> PICK s \in SessionIds : sessions' = Append(sessions, s)
        BY <1>5 DEF CreateSession
    <2>1. sessions' \in Seq(SessionIds) /\ Active \subseteq Active'
        BY RowAppended DEF SessionTypeOK, Active
    <2> QED
        BY <1>5, <2>1 DEF CreateSession, SessionTypeOK, EntriesDrawn
<1>6. ASSUME NEW r \in SessionRequests, RemoveOldSessions(r) PROVE SessionTypeOK' /\ EntriesDrawn'
    <2> DEFINE n == Len(sessions)
               over == IF n > MaxSessionCount THEN n - MaxSessionCount ELSE 0
               old == {sessions[i] : i \in 1..over}
    <2>1. n \in Nat /\ over \in 0..n
        BY LenProperties, SessionAssumption DEF SessionTypeOK, SessionAssumption
    <2>2. sessions' = SubSeq(sessions, over + 1, n) /\ ended' = ended \cup old /\ stale' = stale \cup old
        BY <1>6 DEF RemoveOldSessions
    <2> HIDE DEF over
    <2>3. sessions' \in Seq(SessionIds) /\ old \subseteq SessionIds /\ Active = old \cup Active'
        BY <2>1, <2>2, OldestCut DEF SessionTypeOK, Active
    <2> HIDE DEF old, n
    <2> QED
        BY <1>6, <2>2, <2>3 DEF RemoveOldSessions, SessionTypeOK, EntriesDrawn
<1>7. ASSUME SessionExpires PROVE SessionTypeOK' /\ EntriesDrawn'
    <2>1. sessions' \in Seq(SessionIds) /\ Head(sessions) \in SessionIds
          /\ Active = {Head(sessions)} \cup Active'
        BY <1>7, FirstEnds DEF SessionExpires, SessionTypeOK, Active
    <2> QED
        BY <1>7, <2>1 DEF SessionExpires, SessionTypeOK, EntriesDrawn
<1>8. ASSUME NEW r \in SessionRequests, NEW s \in SessionIds, RemoveSession(r, s)
      PROVE  SessionTypeOK' /\ EntriesDrawn'
    <2>1. sessions' \in Seq(SessionIds) /\ \A t : t # s => (t \in Active' <=> t \in Active)
        BY <1>8, ActiveBut DEF RemoveSession, Active
    <2>2. Invalidate({s}) \in SessionChange
        OBVIOUS
    <2> QED
        BY <1>8, <2>1, <2>2 DEF RemoveSession, SessionTypeOK, EntriesDrawn
<1>9. ASSUME NEW r \in SessionRequests, RemoveUserSessions(r) PROVE SessionTypeOK' /\ EntriesDrawn'
    <2>1. sessions' \in Seq(SessionIds) /\ Invalidate(Active) \in SessionChange
        BY <1>9, EmptySeq DEF RemoveUserSessions
    <2> QED
        BY <1>9, <2>1 DEF RemoveUserSessions, SessionTypeOK, EntriesDrawn
<1>10. ASSUME NEW r \in SessionRequests, UpdateUser(r) PROVE SessionTypeOK' /\ EntriesDrawn'
    BY <1>10 DEF UpdateUser, SessionTypeOK, EntriesDrawn, Active
<1>11. ASSUME NEW r \in SessionRequests, ListSessions(r) PROVE SessionTypeOK' /\ EntriesDrawn'
    <2>1. Invalidate(Active) \in SessionChange
        OBVIOUS
    <2> QED
        BY <1>11, <2>1 DEF ListSessions, SessionTypeOK, EntriesDrawn, Active
<1>12. ASSUME NEW r \in SessionRequests, InvalidateNext(r) PROVE SessionTypeOK' /\ EntriesDrawn'
    <2>1. change[r] \in SessionChange /\ change[r].left \subseteq SessionIds
        BY <1>12 DEF InvalidateNext, SessionTypeOK
    <2> PICK s \in change[r].left :
            /\ cached' = [cached EXCEPT ![s] = Absent] /\ stale' = stale \ {s}
            /\ change' = [change EXCEPT ![r] = Invalidate(change[r].left \ {s})]
        BY <1>12 DEF InvalidateNext
    <2>2. Invalidate(change[r].left \ {s}) \in SessionChange
        BY <2>1
    <2> QED
        BY <1>12, <2>1, <2>2 DEF InvalidateNext, SessionTypeOK, EntriesDrawn, Active
<1>13. ASSUME NEW r \in SessionRequests, ChangeFails(r) PROVE SessionTypeOK' /\ EntriesDrawn'
    <2>1. stale' \subseteq SessionIds
        <3>1. change[r] \in SessionChange
            BY DEF SessionTypeOK
        <3> QED
            BY <1>13, <3>1 DEF ChangeFails, SessionTypeOK
    <2> QED
        BY <1>13, <2>1 DEF ChangeFails, SessionTypeOK, EntriesDrawn, Active
<1>14. ASSUME DeleteUser PROVE SessionTypeOK' /\ EntriesDrawn'
    <2>1. sessions' \in Seq(SessionIds)
        BY <1>14, EmptySeq DEF DeleteUser
    <2> QED
        BY <1>14, <2>1 DEF DeleteUser, SessionTypeOK, EntriesDrawn
<1>15. CASE UNCHANGED sessionVars
    BY <1>15 DEF sessionVars, SessionTypeOK, EntriesDrawn, Active
<1> QED
    BY <1>1, <1>2, <1>3, <1>4, <1>5, <1>6, <1>7, <1>8, <1>9, <1>10, <1>11, <1>12, <1>13,
       <1>14, <1>15 DEF SessionNext

\* A request that has something to do.
Covers(r, s) ==
    \/ change[r].step = "list" /\ s \in Active
    \/ change[r].step = "invalidate" /\ s \in change[r].left

\* A step that takes away no reason for an entry that stays as it is.
LEMMA ReasonsStay ==
    ASSUME CacheExplained, NEW s \in SessionIds,
           cached'[s] = cached[s], SessionUser(s)' = SessionUser(s) \/ s \in stale',
           s \in stale => s \in stale',
           \A r \in SessionRequests : Covers(r, s) => Covers(r, s)' \/ s \in stale',
           cached'[s] \notin {Absent, SessionUser(s)'}
    PROVE  s \in stale' \/ \E r \in SessionRequests : Covers(r, s)'
BY DEF CacheExplained, Covers

LEMMA CacheStep ==
    ASSUME SessionInv, SessionTypeOK', [SessionNext]_sessionVars
    PROVE  CacheExplained'
<1> USE ChangeFacts, ActiveIds DEF SessionInv
<1> SUFFICES ASSUME NEW s \in SessionIds, cached'[s] \notin {Absent, SessionUser(s)'}
             PROVE  s \in stale' \/ \E r \in SessionRequests : Covers(r, s)'
    BY DEF CacheExplained, Covers
<1> DEFINE Explained == s \in stale' \/ \E r \in SessionRequests : Covers(r, s)'
<1>1. ASSUME NEW t \in SessionIds, FillStart(t) PROVE Explained
    BY <1>1, ReasonsStay DEF FillStart, Covers, SessionUser, Active
<1>2. ASSUME NEW t \in SessionIds, FillEnd(t) PROVE Explained
    <2>1. SessionUser(s)' = SessionUser(s) /\ Active' = Active
        BY <1>2 DEF FillEnd, SessionUser, Active
    <2>2. CASE s = t
        BY <1>2, <2>1, <2>2 DEF FillEnd, SessionTypeOK
    <2>3. CASE s # t
        BY <1>2, <2>1, <2>3, ReasonsStay DEF FillEnd, SessionTypeOK, Covers
    <2> QED
        BY <2>2, <2>3
<1>3. ASSUME NEW t \in SessionIds, EntryExpires(t) PROVE Explained
    <2>1. SessionUser(s)' = SessionUser(s) /\ Active' = Active
        BY <1>3 DEF EntryExpires, SessionUser, Active
    <2>2. s # t
        BY <1>3 DEF EntryExpires, SessionTypeOK
    <2> QED
        BY <1>3, <2>1, <2>2, ReasonsStay DEF EntryExpires, SessionTypeOK, Covers
<1>4. ASSUME NEW t \in SessionIds, ExtendSession(t) PROVE Explained
    <2>1. Active' = Active
        BY <1>4, Extended
    <2>2. SessionUser(s)' = SessionUser(s)
        BY <1>4, <2>1 DEF ExtendSession, SessionUser
    <2> QED
        BY <1>4, <2>1, <2>2, ReasonsStay DEF ExtendSession, Covers
<1>5. ASSUME NEW r \in SessionRequests, CreateSession(r) PROVE Explained
    <2> PICK t \in SessionIds \ (Active \cup ended) : sessions' = Append(sessions, t)
        BY <1>5 DEF CreateSession
    <2>1. Active' = Active \cup {t}
        BY RowAppended DEF SessionTypeOK, Active
    <2>2. s # t
        BY <1>5 DEF CreateSession, EntriesDrawn
    <2>3. SessionUser(s)' = SessionUser(s)
        BY <1>5, <2>1, <2>2 DEF CreateSession, SessionUser
    <2> QED
        BY <1>5, <2>1, <2>3, ReasonsStay DEF CreateSession, Covers, SessionTypeOK
<1>6. ASSUME NEW r \in SessionRequests, RemoveOldSessions(r) PROVE Explained
    <2> DEFINE n == Len(sessions)
               over == IF n > MaxSessionCount THEN n - MaxSessionCount ELSE 0
               old == {sessions[i] : i \in 1..over}
    <2>1. n \in Nat /\ over \in 0..n
        BY LenProperties, SessionAssumption DEF SessionTypeOK, SessionAssumption
    <2>2. sessions' = SubSeq(sessions, over + 1, n) /\ stale' = stale \cup old
        BY <1>6 DEF RemoveOldSessions
    <2> HIDE DEF over
    <2>3. Active = old \cup Active'
        BY <2>1, <2>2, OldestCut DEF SessionTypeOK, Active
    <2> HIDE DEF old, n
    <2>4. s \in Active => s \in Active' \/ s \in stale'
        BY <2>2, <2>3
    <2>5. SessionUser(s)' = SessionUser(s) \/ s \in stale'
        BY <1>6, <2>3, <2>4 DEF RemoveOldSessions, SessionUser
    <2> QED
        BY <1>6, <2>2, <2>4, <2>5, ReasonsStay DEF RemoveOldSessions, Covers, SessionTypeOK
<1>7. ASSUME SessionExpires PROVE Explained
    <2>1. Active = {Head(sessions)} \cup Active'
        BY <1>7, FirstEnds DEF SessionExpires, SessionTypeOK, Active
    <2>2. s \in Active => s \in Active' \/ s \in stale'
        BY <1>7, <2>1 DEF SessionExpires
    <2>3. SessionUser(s)' = SessionUser(s) \/ s \in stale'
        BY <1>7, <2>1, <2>2 DEF SessionExpires, SessionUser
    <2> QED
        BY <1>7, <2>2, <2>3, ReasonsStay DEF SessionExpires, Covers
<1>8. ASSUME NEW r \in SessionRequests, NEW t \in SessionIds, RemoveSession(r, t) PROVE Explained
    <2>1. \A u : u # t => (u \in Active' <=> u \in Active)
        BY <1>8, ActiveBut DEF RemoveSession, Active
    <2>2. change'[r] = Invalidate({t}) /\ \A q \in SessionRequests \ {r} : change'[q] = change[q]
        BY <1>8 DEF RemoveSession, SessionTypeOK
    <2>3. CASE s = t
        <3>1. Covers(r, s)'
            BY <2>2, <2>3 DEF Covers
        <3> QED
            BY <3>1
    <2>4. CASE s # t
        <3>1. SessionUser(s)' = SessionUser(s)
            BY <1>8, <2>1, <2>4 DEF RemoveSession, SessionUser
        <3> QED
            BY <1>8, <2>1, <2>2, <2>4, <3>1, ReasonsStay DEF RemoveSession, Covers
    <2> QED
        BY <2>3, <2>4
<1>9. ASSUME NEW r \in SessionRequests, RemoveUserSessions(r) PROVE Explained
    <2>1. change'[r] = Invalidate(Active) /\ \A q \in SessionRequests \ {r} : change'[q] = change[q]
        BY <1>9 DEF RemoveUserSessions, SessionTypeOK
    <2>2. CASE s \in Active
        <3>1. Covers(r, s)'
            BY <2>1, <2>2 DEF Covers
        <3> QED
            BY <3>1
    <2>3. CASE s \notin Active
        <3>1. s \notin Active'
            BY <1>9 DEF RemoveUserSessions, Active, ToSet
        <3>2. SessionUser(s)' = SessionUser(s)
            BY <2>3, <3>1 DEF SessionUser
        <3> QED
            BY <1>9, <2>1, <2>3, <3>2, ReasonsStay DEF RemoveUserSessions, Covers
    <2> QED
        BY <2>2, <2>3
<1>10. ASSUME NEW r \in SessionRequests, UpdateUser(r) PROVE Explained
    <2>1. /\ change'[r].step = "list" /\ \A q \in SessionRequests \ {r} : change'[q] = change[q]
          /\ Active' = Active
        BY <1>10 DEF UpdateUser, SessionTypeOK, Active
    <2>2. CASE s \in Active
        <3>1. Covers(r, s)'
            BY <2>1, <2>2 DEF Covers
        <3> QED
            BY <3>1
    <2>3. CASE s \notin Active
        <3>1. SessionUser(s)' = SessionUser(s)
            BY <2>1, <2>3 DEF SessionUser
        <3> QED
            BY <1>10, <2>1, <3>1, ReasonsStay DEF UpdateUser, Covers
    <2> QED
        BY <2>2, <2>3
<1>11. ASSUME NEW r \in SessionRequests, ListSessions(r) PROVE Explained
    <2>1. /\ change'[r] = Invalidate(Active) /\ \A q \in SessionRequests \ {r} : change'[q] = change[q]
          /\ Active' = Active
        BY <1>11 DEF ListSessions, SessionTypeOK, Active
    <2>2. SessionUser(s)' = SessionUser(s)
        BY <1>11, <2>1 DEF ListSessions, SessionUser
    <2>3. \A q \in SessionRequests : Covers(q, s) => Covers(q, s)'
        BY <1>11, <2>1 DEF ListSessions, Covers
    <2> QED
        BY <1>11, <2>2, <2>3, ReasonsStay DEF ListSessions
<1>12. ASSUME NEW r \in SessionRequests, InvalidateNext(r) PROVE Explained
    <2>1. change[r] \in SessionChange /\ change[r].left \subseteq SessionIds
        BY <1>12 DEF InvalidateNext, SessionTypeOK
    <2> PICK t \in change[r].left :
            /\ cached' = [cached EXCEPT ![t] = Absent] /\ stale' = stale \ {t}
            /\ change' = [change EXCEPT ![r] = Invalidate(change[r].left \ {t})]
        BY <1>12 DEF InvalidateNext
    <2>2. s # t
        BY <2>1 DEF SessionTypeOK
    <2>3. SessionUser(s)' = SessionUser(s) /\ Active' = Active
        BY <1>12 DEF InvalidateNext, SessionUser, Active
    <2>4. /\ change'[r] = Invalidate(change[r].left \ {t})
          /\ \A q \in SessionRequests \ {r} : change'[q] = change[q]
        BY DEF SessionTypeOK
    <2>5. \A q \in SessionRequests : Covers(q, s) => Covers(q, s)'
        <3>1. Covers(r, s) => Covers(r, s)'
            BY <1>12, <2>1, <2>2, <2>4 DEF InvalidateNext, Covers
        <3> QED
            BY <2>3, <2>4, <3>1 DEF Covers
    <2> QED
        BY <2>1, <2>2, <2>3, <2>5, ReasonsStay DEF SessionTypeOK
<1>13. ASSUME NEW r \in SessionRequests, ChangeFails(r) PROVE Explained
    <2>1. SessionUser(s)' = SessionUser(s) /\ Active' = Active
        BY <1>13 DEF ChangeFails, SessionUser, Active
    <2>2. \A q \in SessionRequests \ {r} : change'[q] = change[q]
        BY <1>13 DEF ChangeFails, SessionTypeOK
    <2>3. Covers(r, s) => s \in stale'
        BY <1>13 DEF ChangeFails, Covers
    <2>4. s \in stale => s \in stale'
        <3>1. \/ stale' = stale \cup Active
              \/ stale' = stale \cup change[r].left
              \/ stale' = stale
            BY <1>13 DEF ChangeFails
        <3> QED
            BY <3>1
    <2>5. \A q \in SessionRequests : Covers(q, s) => Covers(q, s)' \/ s \in stale'
        BY <2>1, <2>2, <2>3 DEF Covers
    <2> QED
        BY <1>13, <2>1, <2>4, <2>5, ReasonsStay DEF ChangeFails
<1>14. ASSUME DeleteUser PROVE Explained
    <2>1. CASE s \in Active
        BY <1>14, <2>1 DEF DeleteUser
    <2>2. CASE s \notin Active
        <3>1. s \notin Active'
            BY <1>14 DEF DeleteUser, Active, ToSet
        <3>2. SessionUser(s)' = SessionUser(s)
            BY <2>2, <3>1 DEF SessionUser
        <3> QED
            BY <1>14, <2>2, <3>2, ReasonsStay DEF DeleteUser, Covers
    <2> QED
        BY <2>1, <2>2
<1>15. CASE UNCHANGED sessionVars
    BY <1>15, ReasonsStay DEF sessionVars, SessionUser, Active, Covers
<1> QED
    BY <1>1, <1>2, <1>3, <1>4, <1>5, <1>6, <1>7, <1>8, <1>9, <1>10, <1>11, <1>12, <1>13,
       <1>14, <1>15 DEF SessionNext

LEMMA SessionInvariant == SessionSpec => []SessionInv
<1>1. SessionInit => SessionInv
    BY EmptySeq, ChangeFacts
    DEF SessionInit, SessionInv, SessionTypeOK, EntriesDrawn, CacheExplained, Absent
<1>2. SessionInv /\ [SessionNext]_sessionVars => SessionInv'
    BY SessionTypeStep, CacheStep DEF SessionInv
<1> QED
    BY <1>1, <1>2, PTL DEF SessionSpec

\* However many requests change the account and its sessions while the cache is filled:
\* an entry that is not up to date is about to be invalidated or has a reason in stale.
THEOREM CacheAlwaysExplained == SessionSpec => []CacheExplained
BY SessionInvariant, PTL DEF SessionInv
=============================================================================
