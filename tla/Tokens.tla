------------------------------- MODULE Tokens -------------------------------
(***************************************************************************)
(* The OAuth tokens of the OpenID provider (internal/auth/storage.go and   *)
(* the table oauth_tokens): granting an access and a refresh token in two  *)
(* statements, renewing, revoking, signing out. Rows refer to the row they *)
(* come from: REFERENCES oauth_tokens(id) ON DELETE CASCADE.               *)
(***************************************************************************)
EXTENDS Naturals

CONSTANTS TokenIds,         \* bound: the identifiers that may be drawn
          Owners,           \* pairs of a user and an application
          Grants,           \* grants under way at the same time
          NoToken, MaxSignOuts

ASSUME TokenAssumption == NoToken \notin TokenIds /\ MaxSignOuts \in Nat

VARIABLES
    tokens,             \* rows of oauth_tokens by id; NoRow if there is none
    drawn,              \* identifiers used so far (UUIDs do not repeat)
    grant,              \* a grant between its two statements, or NoGrant
    signOuts,           \* history: sign-outs of each owner
    renewal             \* the last answer to a renewal: token presented, granted

tokenVars == <<tokens, drawn, grant, signOuts, renewal>>

NoRow == [kind |-> "none"]
NoGrant == [access |-> NoToken]
Live == {t \in TokenIds : tokens[t] # NoRow}
NewToken(kind, parent, o) == [kind |-> kind, parent |-> parent, owner |-> o, era |-> signOuts[o]]

\* The foreign key: the row a new row comes from must be there.
ParentExists(parent) == parent = NoToken \/ parent \in Live

\* The rows a deletion takes along. A chain has at most two links: a refresh token comes
\* from an access token, which (in a renewal) comes from a refresh token.
From(ts) == {t \in Live : tokens[t].parent \in ts}
Cascade(ts) == ts \cup From(ts) \cup From(From(ts))
Without(ts) == [t \in TokenIds |-> IF t \in Cascade(ts) THEN NoRow ELSE tokens[t]]

Draw(t) == t \notin drawn /\ drawn' = drawn \cup {t}

-----------------------------------------------------------------------------
\* CreateAccessToken: one statement, no refresh token.
CreateAccessToken(o) ==
    /\ \E t \in TokenIds :
         Draw(t) /\ tokens' = [tokens EXCEPT ![t] = NewToken("access", NoToken, o)]
    /\ UNCHANGED <<grant, signOuts, renewal>>

\* CreateAccessAndRefreshTokens with no current refresh token, and exchangeRefreshToken.
StartGrant(g, o) ==
    /\ grant[g] = NoGrant
    /\ \E t \in TokenIds :
         /\ Draw(t)
         /\ tokens' = [tokens EXCEPT ![t] = NewToken("access", NoToken, o)]
         /\ grant' = [grant EXCEPT ![g] = [access |-> t, owner |-> o, era |-> signOuts[o]]]
    /\ UNCHANGED <<signOuts, renewal>>

\* Mutant of FinishGrant: the refresh token comes from nothing.
FinishOrphan(g) ==
    /\ grant[g] # NoGrant
    /\ \E t \in TokenIds :
         /\ Draw(t)
         /\ tokens' = [tokens EXCEPT ![t] = [kind |-> "refresh", parent |-> NoToken,
                           owner |-> grant[g].owner, era |-> grant[g].era]]
    /\ grant' = [grant EXCEPT ![g] = NoGrant]
    /\ UNCHANGED <<signOuts, renewal>>

\* createRefreshToken: the insertion fails if the access token was revoked meanwhile.
FinishGrant(g) ==
    /\ grant[g] # NoGrant
    /\ \E t \in TokenIds :
         /\ Draw(t)
         /\ tokens' = IF ParentExists(grant[g].access)
                THEN [tokens EXCEPT ![t] = [kind |-> "refresh", parent |-> grant[g].access,
                          owner |-> grant[g].owner, era |-> grant[g].era]]
                ELSE tokens
    /\ grant' = [grant EXCEPT ![g] = NoGrant]
    /\ UNCHANGED <<signOuts, renewal>>

\* A request breaks off between the statements: the access token stays alone.
GrantFails(g) ==
    /\ grant[g] # NoGrant
    /\ grant' = [grant EXCEPT ![g] = NoGrant]
    /\ UNCHANGED <<tokens, drawn, signOuts, renewal>>

\* CreateAccessAndRefreshTokens with a current refresh token: the new access token is to
\* come from the new refresh token, which is inserted only afterwards (renewRefreshToken,
\* after deleting the current one).
Renew(current) ==
    /\ current \in Live /\ tokens[current].kind = "refresh"
    /\ \E a, r \in TokenIds \ drawn :
         /\ a # r
         /\ drawn' = drawn \cup {a, r}
         /\ IF ParentExists(r)
              THEN LET o == tokens[current].owner IN
                   /\ tokens' = [Without({current}) EXCEPT
                          ![a] = NewToken("access", r, o), ![r] = NewToken("refresh", a, o)]
                   /\ renewal' = [presented |-> current, granted |-> TRUE]
              ELSE /\ renewal' = [presented |-> current, granted |-> FALSE]
                   /\ UNCHANGED tokens
    /\ UNCHANGED <<grant, signOuts>>

\* TokenRequestByRefreshToken finds no row.
RenewUnknown(current) ==
    /\ current \in drawn \ Live
    /\ renewal' = [presented |-> current, granted |-> FALSE]
    /\ UNCHANGED <<tokens, drawn, grant, signOuts>>

RevokeToken(t) ==
    /\ t \in Live
    /\ tokens' = Without({t})
    /\ UNCHANGED <<drawn, grant, signOuts, renewal>>

TerminateSession(o) ==
    /\ signOuts[o] < MaxSignOuts
    /\ tokens' = Without({t \in Live : tokens[t].owner = o})
    /\ signOuts' = [signOuts EXCEPT ![o] = @ + 1]
    /\ UNCHANGED <<drawn, grant, renewal>>

TokenInit ==
    /\ tokens = [t \in TokenIds |-> NoRow]
    /\ drawn = {}
    /\ grant = [g \in Grants |-> NoGrant]
    /\ signOuts = [o \in Owners |-> 0]
    /\ renewal = [presented |-> NoToken, granted |-> TRUE]

TokenNext ==
    \/ \E o \in Owners : CreateAccessToken(o) \/ TerminateSession(o)
    \/ \E g \in Grants : FinishGrant(g) \/ GrantFails(g) \/ \E o \in Owners : StartGrant(g, o)
    \/ \E t \in TokenIds : Renew(t) \/ RenewUnknown(t) \/ RevokeToken(t)

TokenSpec == TokenInit /\ [][TokenNext]_tokenVars

-----------------------------------------------------------------------------
TokenRow == [kind : {"access", "refresh"}, parent : TokenIds \cup {NoToken},
             owner : Owners, era : Nat]

\* The domains of the variables; used by the proofs.
TokenTypeOK ==
    /\ tokens \in [TokenIds -> TokenRow \cup {NoRow}]
    /\ drawn \subseteq TokenIds
    /\ grant \in [Grants -> [access : TokenIds, owner : Owners, era : Nat] \cup {NoGrant}]
    /\ signOuts \in [Owners -> Nat]
    /\ renewal \in [presented : TokenIds \cup {NoToken}, granted : BOOLEAN]

\* "if the token is revoked, this token is also revoked": no refresh token outlives the
\* access token it was granted with, and none appears whose grant began before the last
\* sign-out of its owner, although the grant is two statements.
RevokedTogether ==
    \A t \in Live :
        /\ tokens[t].kind = "refresh" => tokens[t].parent \in Live
        /\ tokens[t].era = signOuts[tokens[t].owner]

\* "we therefore will have to check the currentRefreshToken and renew the refresh token":
\* a renewal is refused only to a token that is not a live refresh token.
RenewalWorks ==
    ~renewal.granted =>
        renewal.presented \notin Live \/ tokens[renewal.presented].kind # "refresh"
=============================================================================
