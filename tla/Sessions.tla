------------------------------ MODULE Sessions ------------------------------
(***************************************************************************)
(* Refresh-token sessions.  A login starts a family of refresh tokens;     *)
(* each refresh reads the presented token, reads the user, revokes the     *)
(* token and stores its successor, in four statements with no transaction. *)
(* The error of the revocation is discarded.  Logout revokes every token   *)
(* of the user in one statement.                                           *)
(*                                                                         *)
(* Sources: internal/service/auth_service.go (Login, Refresh, Logout,      *)
(* issueTokenPair), internal/repository/refresh_token_repository.go.       *)
(***************************************************************************)
EXTENDS Integers

CONSTANTS
    Users,
    NumTokens,      \* bound: refresh tokens stored in a behaviour
    Handlers,       \* request goroutines
    Overlap,        \* may requests about one user overlap?
    RevokeMayFail   \* may the UPDATE that revokes one token fail?

ASSUME TokensAssumption == NumTokens \in Nat
ASSUME UsersAssumption == Users # {}
ASSUME FlagsAssumption == Overlap \in BOOLEAN /\ RevokeMayFail \in BOOLEAN

Tokens == 1..NumTokens

\* A row of refresh_tokens.  parent is the token it was exchanged for (0: a
\* login) and family the first token of the session: histories, no columns.
TokenRow == [state : {"none", "live", "revoked", "expired"}, user : Users,
             parent : 0..NumTokens, family : 0..NumTokens]

\* A Login or Refresh: from is the presented token, or 0 for a login.
Request == [user : Users, from : 0..NumTokens,
            step : {"readUser", "revoke", "create"}]
NoRequest == [step |-> "none"]

VARIABLES
    active,         \* users.is_active
    token,          \* refresh_tokens
    req,            \* req[h]: the Login or Refresh h is working on
    ended           \* history: the families a Logout has ended

vars == <<active, token, req, ended>>

Live(k) == token[k].state = "live"
InFlight(h) == req[h] # NoRequest
Quiet(u) == \A h \in Handlers : InFlight(h) => req[h].user # u

-----------------------------------------------------------------------------
Init ==
    /\ active = [u \in Users |-> TRUE]
    /\ \E u \in Users :
          token = [k \in Tokens |-> [state |-> "none", user |-> u,
                                     parent |-> 0, family |-> 0]]
    /\ req = [h \in Handlers |-> NoRequest]
    /\ ended = {}

Begin(h, r) ==
    /\ ~InFlight(h)
    /\ Overlap \/ Quiet(r.user)
    /\ req' = [req EXCEPT ![h] = r]
    /\ UNCHANGED <<active, token, ended>>

\* Login: the password is right and the account active.
Login(h, u) ==
    /\ active[u]
    /\ Begin(h, [user |-> u, from |-> 0, step |-> "create"])

\* Candidates read without revoked_at IS NULL AND expires_at > now.
Refresh_AnyState(h, k) ==
    /\ token[k].state # "none"
    /\ Begin(h, [user |-> token[k].user, from |-> k, step |-> "readUser"])

\* Candidates read without expires_at > now.
Refresh_Expired(h, k) ==
    /\ token[k].state \in {"live", "expired"}
    /\ Begin(h, [user |-> token[k].user, from |-> k, step |-> "readUser"])

\* Refresh, up to ListActiveByUser: the presented token is found among the
\* user's tokens that are neither revoked nor expired.
Refresh(h, k) ==
    /\ Live(k)
    /\ Begin(h, [user |-> token[k].user, from |-> k, step |-> "readUser"])

Goto(h, s) ==
    /\ req' = [req EXCEPT ![h].step = s]
    /\ UNCHANGED <<active, ended>>

\* Refresh: GetByID.  A deactivated account is refused (see Drop).
ReadUser(h) ==
    /\ req[h].step = "readUser"
    /\ active[req[h].user]
    /\ Goto(h, "revoke")
    /\ UNCHANGED token

\* Refresh: Revoke, whose result is ignored, also that it found the token
\* already revoked.
Revoke(h) ==
    /\ req[h].step = "revoke"
    /\ Goto(h, "create")
    /\ \/ token' = [k \in Tokens |-> IF k = req[h].from /\ Live(k)
                                     THEN [token[k] EXCEPT !.state = "revoked"]
                                     ELSE token[k]]
       \/ RevokeMayFail /\ UNCHANGED token

\* The insert given the token's id where the user's belongs.
NewToken_OfAnyone(r, k) ==
    [state |-> "live", user |-> r.from, parent |-> r.from,
     family |-> IF r.from = 0 THEN k ELSE token[r.from].family]

NewToken(r, k) ==
    [state |-> "live", user |-> r.user, parent |-> r.from,
     family |-> IF r.from = 0 THEN k ELSE token[r.from].family]

\* issueTokenPair: the successor is stored and the pair returned.
Create(h) ==
    /\ req[h].step = "create"
    /\ \E k \in Tokens :
          /\ token[k].state = "none"
          /\ \A l \in Tokens : l < k => token[l].state # "none"
          /\ token' = [token EXCEPT ![k] = NewToken(req[h], k)]
    /\ req' = [req EXCEPT ![h] = NoRequest]
    /\ UNCHANGED <<active, ended>>

\* A read or the insert fails, the account is inactive, or the client is
\* gone: the request ends where it is.
Drop(h) ==
    /\ InFlight(h)
    /\ req' = [req EXCEPT ![h] = NoRequest]
    /\ UNCHANGED <<active, token, ended>>

\* A logout that only revokes the tokens sessions began with.
Logout_OfLogins(u) ==
    /\ Overlap \/ Quiet(u)
    /\ token' = [k \in Tokens |-> IF Live(k) /\ token[k].user = u /\ token[k].parent = 0
                                  THEN [token[k] EXCEPT !.state = "revoked"]
                                  ELSE token[k]]
    /\ ended' = ended \cup {token[k].family : k \in {l \in Tokens :
                               token[l].state # "none" /\ token[l].user = u}}
    /\ UNCHANGED <<active, req>>

\* Logout: RevokeAllForUser, "ending every session".
Logout(u) ==
    /\ Overlap \/ Quiet(u)
    /\ token' = [k \in Tokens |-> IF Live(k) /\ token[k].user = u
                                  THEN [token[k] EXCEPT !.state = "revoked"]
                                  ELSE token[k]]
    /\ ended' = ended \cup {token[k].family : k \in {l \in Tokens :
                               token[l].state # "none" /\ token[l].user = u}}
    /\ UNCHANGED <<active, req>>

\* UserService.SetActive by an admin: it revokes no token.
SetActive(u) ==
    /\ active' = [active EXCEPT ![u] = ~@]
    /\ UNCHANGED <<token, req, ended>>

\* expires_at passes.
Expires(k) ==
    /\ Live(k)
    /\ token' = [token EXCEPT ![k].state = "expired"]
    /\ UNCHANGED <<active, req, ended>>

Next ==
    \/ \E h \in Handlers, u \in Users : Login(h, u)
    \/ \E h \in Handlers, k \in Tokens : Refresh(h, k)
    \/ \E h \in Handlers : ReadUser(h) \/ Revoke(h) \/ Create(h) \/ Drop(h)
    \/ \E u \in Users : Logout(u) \/ SetActive(u)
    \/ \E k \in Tokens : Expires(k)

Spec == Init /\ [][Next]_vars

-----------------------------------------------------------------------------
(* Properties **************************************************************)

\* Every variable keeps its type; a stored token belongs to a user.
TypeOK ==
    /\ active \in [Users -> BOOLEAN]
    /\ token \in [Tokens -> TokenRow]
    /\ req \in [Handlers -> Request \cup {NoRequest}]
    /\ ended \subseteq 0..NumTokens

\* Refresh tokens are "single use": a token is exchanged for one pair at
\* most (docs/SECURITY.md, Refresh token rotation).
SingleUse ==
    \A k, l \in Tokens :
        /\ token[k].state # "none" /\ token[l].state # "none"
        /\ token[k].parent = token[l].parent /\ token[k].parent # 0
        => k = l

\* Rotation leaves one usable token per session: a session is not forked.
OneLivePerSession ==
    \A k, l \in Tokens :
        Live(k) /\ Live(l) /\ token[k].family = token[l].family => k = l

\* Logout ends every session: no token of a family that a logout ended is
\* usable afterwards.
LogoutEndsSessions ==
    \A k \in Tokens : Live(k) => token[k].family \notin ended

\* A session as its user sees it: tokens that are accepted, an exchange that
\* is under way, or neither any more.
Stored(k) == token[k].state # "none"
Accepted(s) == {k \in Tokens : Live(k) /\ token[k].family = s}
BeingExchanged(s) ==
    \E h \in Handlers :
        InFlight(h) /\ req[h].from # 0 /\ token[req[h].from].family = s
Phase(s) ==
    IF Accepted(s) # {} THEN "usable"
    ELSE IF BeingExchanged(s) THEN "exchanging"
    ELSE IF \E k \in Tokens : Stored(k) /\ token[k].family = s THEN "over"
    ELSE "absent"

Lifecycle == INSTANCE SessionLifecycle WITH
                Ids <- Tokens,
                phase <- [s \in Tokens |-> Phase(s)],
                accepted <- [s \in Tokens |-> Accepted(s)],
                issued <- {k \in Tokens : Stored(k)}

\* A session is entered with one token at a time, each good for one exchange
\* for a new one, and is over for good once it was logged out, has expired or
\* was left in the middle of an exchange (Refresh, Logout).
ImplementsLifecycle == Lifecycle!Spec
=============================================================================
