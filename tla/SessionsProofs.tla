--------------------------- MODULE SessionsProofs ---------------------------
(***************************************************************************)
(* Theorems about Sessions, for every set of users and handlers and any    *)
(* number of refresh tokens.                                               *)
(***************************************************************************)
EXTENDS Sessions, TLAPS

\* "No request in flight" is not a request.
LEMMA NoRequestIsNone ==
  /\ NoRequest \notin Request
  /\ NoRequest.step = "none"
<1>1. \A r \in Request : r.step # "none"
  BY DEF Request
<1>2. NoRequest.step = "none"
  BY DEF NoRequest
<1>3. QED
  BY <1>1, <1>2

\* A request in flight is a request, and its step says how far it is.
LEMMA RequestsInFlight ==
  ASSUME TypeOK, NEW h \in Handlers, InFlight(h) \/ req[h].step # "none"
  PROVE  /\ InFlight(h)
         /\ req[h] \in Request
         /\ req[h].user \in Users
         /\ req[h].from \in 0..NumTokens
  BY NoRequestIsNone DEF TypeOK, InFlight, Request

LEMMA TokenFields ==
  ASSUME TypeOK, NEW k \in Tokens
  PROVE  /\ token[k].user \in Users
         /\ token[k].parent \in 0..NumTokens
         /\ token[k].family \in 0..NumTokens
         /\ token[k].state \in {"none", "live", "revoked", "expired"}
  BY DEF TypeOK, TokenRow

LEMMA TokensAreIds == Tokens \subseteq 0..NumTokens /\ 0 \notin Tokens
  BY TokensAssumption DEF Tokens

\* Rows whose state alone changes stay rows.
LEMMA RetiredRow ==
  ASSUME NEW r \in TokenRow, NEW s \in {"revoked", "expired"}
  PROVE  [r EXCEPT !.state = s] \in TokenRow
  BY DEF TokenRow

\* The row that issueTokenPair inserts.
LEMMA NewTokenType ==
  ASSUME TypeOK, NEW r \in Request, NEW k \in Tokens
  PROVE  NewToken(r, k) \in TokenRow
<1>1. r.user \in Users /\ r.from \in 0..NumTokens
  BY DEF Request
<1>2. r.from # 0 => r.from \in Tokens
  BY <1>1, TokensAssumption DEF Tokens
<1>3. r.from # 0 => token[r.from].family \in 0..NumTokens
  BY <1>2, TokenFields
<1>4. k \in 0..NumTokens
  BY TokensAreIds
<1>5. QED
  BY <1>1, <1>3, <1>4 DEF NewToken, TokenRow

\* One step keeps every variable's type.
LEMMA TypeStep == TypeOK /\ [Next]_vars => TypeOK'
<1> SUFFICES ASSUME TypeOK, [Next]_vars PROVE TypeOK'
  OBVIOUS
<1>1. ASSUME NEW h \in Handlers, NEW u \in Users, Login(h, u) PROVE TypeOK'
  <2>1. [user |-> u, from |-> 0, step |-> "create"] \in Request
    BY TokensAssumption DEF Request
  <2>2. QED
    BY <1>1, <2>1 DEF Login, Begin, TypeOK
<1>2. ASSUME NEW h \in Handlers, NEW k \in Tokens, Refresh(h, k) PROVE TypeOK'
  <2>1. [user |-> token[k].user, from |-> k, step |-> "readUser"] \in Request
    BY TokenFields, TokensAreIds DEF Request
  <2>2. QED
    BY <1>2, <2>1 DEF Refresh, Begin, TypeOK
<1>3. ASSUME NEW h \in Handlers, NEW s \in {"revoke", "create"},
             InFlight(h), req' = [req EXCEPT ![h].step = s]
      PROVE  req' \in [Handlers -> Request \cup {NoRequest}]
  <2>1. req[h] \in Request
    BY <1>3, RequestsInFlight
  <2>2. [req[h] EXCEPT !.step = s] \in Request
    BY <2>1 DEF Request
  <2>3. QED
    BY <1>3, <2>2 DEF TypeOK
<1>4. ASSUME NEW h \in Handlers, ReadUser(h) PROVE TypeOK'
  <2>1. InFlight(h)
    BY <1>4, RequestsInFlight DEF ReadUser
  <2>2. QED
    BY <1>3, <1>4, <2>1 DEF ReadUser, Goto, TypeOK
<1>5. ASSUME NEW h \in Handlers, Revoke(h) PROVE TypeOK'
  <2>1. InFlight(h)
    BY <1>5, RequestsInFlight DEF Revoke
  <2>2. token' \in [Tokens -> TokenRow]
    BY <1>5, RetiredRow DEF Revoke, TypeOK
  <2>3. QED
    BY <1>3, <1>5, <2>1, <2>2 DEF Revoke, Goto, TypeOK
<1>6. ASSUME NEW h \in Handlers, Create(h) PROVE TypeOK'
  <2>1. req[h] \in Request
    BY <1>6, RequestsInFlight DEF Create
  <2>2. token' \in [Tokens -> TokenRow]
    BY <1>6, <2>1, NewTokenType DEF Create, TypeOK
  <2>3. QED
    BY <1>6, <2>2 DEF Create, TypeOK
<1>7. ASSUME NEW h \in Handlers, Drop(h) PROVE TypeOK'
  BY <1>7 DEF Drop, TypeOK
<1>8. ASSUME NEW u \in Users, Logout(u) PROVE TypeOK'
  <2>1. token' \in [Tokens -> TokenRow]
    BY <1>8, RetiredRow DEF Logout, TypeOK
  <2>2. ended' \subseteq 0..NumTokens
    BY <1>8, TokenFields DEF Logout, TypeOK
  <2>3. QED
    BY <1>8, <2>1, <2>2 DEF Logout, TypeOK
<1>9. ASSUME NEW u \in Users, SetActive(u) PROVE TypeOK'
  BY <1>9 DEF SetActive, TypeOK
<1>10. ASSUME NEW k \in Tokens, Expires(k) PROVE TypeOK'
  BY <1>10, RetiredRow DEF Expires, TypeOK
<1>11. CASE UNCHANGED vars
  BY <1>11 DEF vars, TypeOK
<1>12. QED
  BY <1>1, <1>2, <1>4, <1>5, <1>6, <1>7, <1>8, <1>9, <1>10, <1>11 DEF Next

\* Tokens and requests keep their types, whatever overlaps or fails.
THEOREM TypeCorrect == Spec => []TypeOK
<1>1. Init => TypeOK
  BY TokensAssumption DEF Init, TypeOK, TokenRow
<1>2. QED
  BY <1>1, TypeStep, PTL DEF Spec

-----------------------------------------------------------------------------
(* The kinds of steps ******************************************************)

\* No token changes but for live tokens that end.
Retires ==
    \A k \in Tokens :
        /\ token'[k].user = token[k].user
        /\ token'[k].parent = token[k].parent
        /\ token'[k].family = token[k].family
        /\ \/ token'[k].state = token[k].state
           \/ Live(k) /\ token'[k].state \in {"revoked", "expired"}

\* No request begins.
ReqsKept ==
    \A h \in Handlers : InFlight(h)' =>
        /\ InFlight(h)
        /\ req'[h].user = req[h].user
        /\ req'[h].from = req[h].from

\* A rotating request reaches the insert by revoking what it was given.
RevokesFirst ==
    \A h \in Handlers : InFlight(h)' /\ req'[h].step = "create" =>
        \/ req[h].step = "create"
        \/ RevokeMayFail
        \/ \A k \in Tokens : k = req[h].from => token'[k].state # "live"

\* A login or a refresh begins.
Begins(h, r) ==
    /\ Begin(h, r)
    /\ UNCHANGED token
    /\ \/ r.from = 0
       \/ /\ r.from \in Tokens /\ Live(r.from)
          /\ token[r.from].user = r.user
          /\ r.step = "readUser"

\* The insert: token k is new, everything else stays.
Inserts(h, k) ==
    /\ req[h].step = "create"
    /\ ~Stored(k)
    /\ token'[k].state = "live"
    /\ token'[k].user = req[h].user
    /\ token'[k].parent = req[h].from
    /\ token'[k].family = IF req[h].from = 0 THEN k ELSE token[req[h].from].family
    /\ \A l \in Tokens : l # k => token'[l] = token[l]
    /\ req'[h] = NoRequest
    /\ \A g \in Handlers : g # h => req'[g] = req[g]
    /\ ended' = ended

\* How logins and refreshes begin, and what both come to.
LEMMA LoginBegins ==
  ASSUME TypeOK, NEW h \in Handlers, NEW u \in Users, Login(h, u)
  PROVE  \E r \in Request : Begins(h, r)
<1> DEFINE r == [user |-> u, from |-> 0, step |-> "create"]
<1>1. r \in Request /\ r.from = 0
  BY TokensAssumption DEF Request
<1>2. Begins(h, r)
  BY <1>1 DEF Login, Begins, Begin
<1>3. QED
  BY <1>1, <1>2

LEMMA RefreshBegins ==
  ASSUME TypeOK, NEW h \in Handlers, NEW k \in Tokens, Refresh(h, k)
  PROVE  \E r \in Request : Begins(h, r)
<1> DEFINE r == [user |-> token[k].user, from |-> k, step |-> "readUser"]
<1>1. r \in Request
  BY TokenFields, TokensAreIds DEF Request
<1>2. r.from = k /\ r.user = token[k].user /\ r.step = "readUser"
  OBVIOUS
<1>3. Begins(h, r)
  BY <1>2 DEF Refresh, Begins, Begin
<1>4. QED
  BY <1>1, <1>3

LEMMA CreateInserts ==
  ASSUME TypeOK, NEW h \in Handlers, Create(h)
  PROVE  \E k \in Tokens : Inserts(h, k)
<1>1. PICK k \in Tokens : /\ token[k].state = "none"
                          /\ token' = [token EXCEPT ![k] = NewToken(req[h], k)]
  BY DEF Create
<1>2. token'[k] = NewToken(req[h], k) /\ \A l \in Tokens : l # k => token'[l] = token[l]
  BY <1>1 DEF TypeOK
<1>3. /\ token'[k].state = "live" /\ token'[k].user = req[h].user
      /\ token'[k].parent = req[h].from
      /\ token'[k].family = IF req[h].from = 0 THEN k ELSE token[req[h].from].family
  BY <1>2 DEF NewToken
<1>4. /\ req[h].step = "create" /\ req'[h] = NoRequest /\ ended' = ended
      /\ \A g \in Handlers : g # h => req'[g] = req[g]
  BY DEF Create, TypeOK
<1>5. Inserts(h, k)
  BY <1>1, <1>2, <1>3, <1>4 DEF Inserts, Stored
<1>6. QED
  BY <1>5

\* Every step begins a request, inserts a token, logs a user out, or only
\* retires tokens and moves or ends requests.
LEMMA StepKinds ==
  ASSUME TypeOK, [Next]_vars
  PROVE  \/ \E h \in Handlers, r \in Request : Begins(h, r)
         \/ \E h \in Handlers, k \in Tokens : Inserts(h, k)
         \/ \E u \in Users : Logout(u)
         \/ Retires /\ ReqsKept /\ RevokesFirst /\ ended' = ended
<1> DEFINE Goal == \/ \E h \in Handlers, r \in Request : Begins(h, r)
                   \/ \E h \in Handlers, k \in Tokens : Inserts(h, k)
                   \/ \E u \in Users : Logout(u)
                   \/ Retires /\ ReqsKept /\ RevokesFirst /\ ended' = ended
<1>a. ASSUME UNCHANGED token PROVE Retires
  BY <1>a DEF Retires
<1>b. ASSUME NEW h \in Handlers,
             req' = [req EXCEPT ![h] = NoRequest] \/ UNCHANGED req
      PROVE  ReqsKept /\ RevokesFirst
  BY <1>b DEF ReqsKept, RevokesFirst, InFlight, TypeOK
<1>c. ASSUME NEW h \in Handlers, NEW s, InFlight(h), Goto(h, s)
      PROVE  /\ ReqsKept
             /\ \A g \in Handlers : g # h => req'[g] = req[g]
             /\ req'[h].step = s
  <2>1. req[h] \in Request
    BY <1>c, RequestsInFlight
  <2>2. /\ req'[h] = [req[h] EXCEPT !.step = s]
        /\ \A g \in Handlers : g # h => req'[g] = req[g]
    BY <1>c DEF Goto, TypeOK
  <2>3. req'[h].user = req[h].user /\ req'[h].from = req[h].from /\ req'[h].step = s
    BY <2>1, <2>2 DEF Request
  <2>4. QED
    BY <1>c, <2>2, <2>3 DEF ReqsKept, InFlight
<1>1. ASSUME NEW h \in Handlers, NEW u \in Users, Login(h, u) PROVE Goal
  BY <1>1, LoginBegins
<1>2. ASSUME NEW h \in Handlers, NEW k \in Tokens, Refresh(h, k) PROVE Goal
  BY <1>2, RefreshBegins
<1>3. ASSUME NEW h \in Handlers, ReadUser(h) PROVE Goal
  <2>1. InFlight(h)
    BY <1>3, RequestsInFlight DEF ReadUser
  <2>2. /\ ReqsKept /\ req'[h].step = "revoke"
        /\ \A g \in Handlers : g # h => req'[g] = req[g]
    BY <1>3, <1>c, <2>1 DEF ReadUser
  <2>3. RevokesFirst
    BY <2>2 DEF RevokesFirst
  <2>4. QED
    BY <1>3, <1>a, <2>2, <2>3 DEF ReadUser, Goto
<1>4. ASSUME NEW h \in Handlers, Revoke(h) PROVE Goal
  <2>1. InFlight(h)
    BY <1>4, RequestsInFlight DEF Revoke
  <2>2. /\ ReqsKept
        /\ \A g \in Handlers : g # h => req'[g] = req[g]
    BY <1>4, <1>c, <2>1 DEF Revoke
  <2>3. CASE UNCHANGED token /\ RevokeMayFail
    BY <1>4, <1>a, <2>2, <2>3 DEF Revoke, Goto, RevokesFirst
  <2>4. CASE token' = [k \in Tokens |-> IF k = req[h].from /\ Live(k)
                                        THEN [token[k] EXCEPT !.state = "revoked"]
                                        ELSE token[k]]
    <3>1. \A k \in Tokens : token[k] \in TokenRow
      BY DEF TypeOK
    <3>2. Retires
      BY <2>4, <3>1 DEF Retires, TokenRow
    <3>3. \A k \in Tokens : k = req[h].from => token'[k].state # "live"
      BY <2>4, <3>1 DEF Live, TokenRow
    <3>4. RevokesFirst
      BY <2>2, <3>3 DEF RevokesFirst
    <3>5. QED
      BY <1>4, <2>2, <3>2, <3>4 DEF Revoke, Goto
  <2>5. QED
    BY <1>4, <2>3, <2>4 DEF Revoke
<1>5. ASSUME NEW h \in Handlers, Create(h) PROVE Goal
  BY <1>5, CreateInserts
<1>6. ASSUME NEW h \in Handlers, Drop(h) PROVE Goal
  BY <1>6, <1>a, <1>b DEF Drop
<1>7. ASSUME NEW u \in Users, SetActive(u) PROVE Goal
  BY <1>7, <1>a DEF SetActive, ReqsKept, RevokesFirst, InFlight
<1>8. ASSUME NEW k \in Tokens, Expires(k) PROVE Goal
  <2>1. token[k] \in TokenRow
    BY DEF TypeOK
  <2>2. /\ token'[k] = [token[k] EXCEPT !.state = "expired"]
        /\ \A l \in Tokens : l # k => token'[l] = token[l]
    BY <1>8 DEF Expires, TypeOK
  <2>3. /\ token'[k].user = token[k].user /\ token'[k].parent = token[k].parent
        /\ token'[k].family = token[k].family /\ token'[k].state = "expired"
    BY <2>1, <2>2 DEF TokenRow
  <2>4. Retires
    BY <1>8, <2>2, <2>3 DEF Retires, Expires
  <2>5. QED
    BY <1>8, <2>4 DEF Expires, ReqsKept, RevokesFirst, InFlight
<1>9. CASE UNCHANGED vars
  BY <1>9, <1>a DEF vars, ReqsKept, RevokesFirst, InFlight
<1>10. QED
  BY <1>1, <1>2, <1>3, <1>4, <1>5, <1>6, <1>7, <1>8, <1>9 DEF Next

\* A logout retires every live token of the user and no other.
LEMMA LogoutEffect ==
  ASSUME TypeOK, NEW u \in Users, Logout(u)
  PROVE  /\ Retires
         /\ UNCHANGED req
         /\ \A k \in Tokens : Live(k)' => Live(k) /\ token[k].user # u
<1>1. \A k \in Tokens : token[k] \in TokenRow
  BY DEF TypeOK
<1>2. \A k \in Tokens :
         token'[k] = IF Live(k) /\ token[k].user = u
                     THEN [token[k] EXCEPT !.state = "revoked"] ELSE token[k]
  BY DEF Logout
<1>3. Retires
  BY <1>1, <1>2 DEF Retires, TokenRow
<1>4. \A k \in Tokens : Live(k)' => Live(k) /\ token[k].user # u
  BY <1>1, <1>2 DEF Live, TokenRow
<1>5. QED
  BY <1>3, <1>4 DEF Logout

\* What retiring tokens leaves as it is.
LEMMA RetiresKeeps ==
  ASSUME Retires, NEW k \in Tokens
  PROVE  /\ Stored(k)' <=> Stored(k)
         /\ Live(k)' => Live(k)
         /\ token'[k].user = token[k].user
         /\ token'[k].parent = token[k].parent
         /\ token'[k].family = token[k].family
  BY DEF Retires, Stored, Live

\* What an insert leaves as it is.
LEMMA InsertKeeps ==
  ASSUME NEW h \in Handlers, NEW k \in Tokens, Inserts(h, k),
         NEW l \in Tokens, Stored(l)
  PROVE  /\ l # k
         /\ Stored(l)'
         /\ Live(l)' <=> Live(l)
         /\ token'[l] = token[l]
  BY DEF Inserts, Stored, Live

\* The tokens of an insert are the old ones and k.
LEMMA InsertAdds ==
  ASSUME NEW h \in Handlers, NEW k \in Tokens, Inserts(h, k),
         NEW l \in Tokens, Stored(l)' \/ Live(l)'
  PROVE  l = k \/ (Stored(l) /\ (Live(l)' => Live(l)))
  BY DEF Inserts, Stored, Live

LEMMA LiveIsStored == \A k \in Tokens : Live(k) => Stored(k)
  BY DEF Live, Stored

\* The requests after an insert are those of the other handlers.
LEMMA InsertEnds ==
  ASSUME NEW h \in Handlers, NEW k \in Tokens, Inserts(h, k),
         NEW g \in Handlers, InFlight(g)'
  PROVE  g # h /\ InFlight(g) /\ req'[g] = req[g]
  BY DEF Inserts, InFlight

\* The requests after a beginning are the old ones and r.
LEMMA BeginAdds ==
  ASSUME TypeOK, NEW h \in Handlers, NEW r \in Request, Begins(h, r)
  PROVE  /\ req'[h] = r
         /\ \A g \in Handlers : g # h => req'[g] = req[g]
         /\ ~InFlight(h)
         /\ \A g \in Handlers : InFlight(g)' => g = h \/ InFlight(g)
         /\ UNCHANGED <<token, ended>>
         /\ \A k \in Tokens : (Live(k)' <=> Live(k)) /\ (Stored(k)' <=> Stored(k))
  BY DEF Begins, Begin, InFlight, TypeOK, Live, Stored

-----------------------------------------------------------------------------
(* Families ****************************************************************)

\* A stored token's family is a stored token, and so is its parent.
LineageStored ==
    \A k \in Tokens : Stored(k) =>
        /\ token[k].family \in Tokens /\ Stored(token[k].family)
        /\ token[k].parent # 0 => token[k].parent \in Tokens /\ Stored(token[k].parent)

\* A family belongs to one user.
FamilyOfOneUser ==
    \A k, l \in Tokens :
        Stored(k) /\ Stored(l) /\ token[k].family = token[l].family
            => token[k].user = token[l].user

\* A request exchanges a token of its own user.
PresentsOwnToken ==
    \A h \in Handlers : InFlight(h) /\ req[h].from # 0 =>
        /\ req[h].from \in Tokens /\ Stored(req[h].from)
        /\ token[req[h].from].user = req[h].user

\* Only families that exist have been ended.
EndedAreStored == \A f \in ended : f \in Tokens /\ Stored(f)

FamilyInv ==
    /\ LineageStored
    /\ FamilyOfOneUser
    /\ PresentsOwnToken
    /\ EndedAreStored

\* One step keeps FamilyInv, whatever overlaps or fails.
LEMMA FamilyStep == TypeOK /\ FamilyInv /\ [Next]_vars => FamilyInv'
<1> SUFFICES ASSUME TypeOK, FamilyInv, [Next]_vars PROVE FamilyInv'
  OBVIOUS
<1>1. ASSUME NEW h \in Handlers, NEW r \in Request, Begins(h, r) PROVE FamilyInv'
  <2>1. LineageStored' /\ FamilyOfOneUser' /\ EndedAreStored'
    BY <1>1, BeginAdds
       DEF FamilyInv, LineageStored, FamilyOfOneUser, EndedAreStored, Stored
  <2>2. PresentsOwnToken'
    <3>1. r.from # 0 => /\ r.from \in Tokens /\ Stored(r.from)
                        /\ token[r.from].user = r.user
      BY <1>1, LiveIsStored DEF Begins
    <3>2. QED
      BY <1>1, <3>1, BeginAdds DEF FamilyInv, PresentsOwnToken, Stored
  <2>3. QED
    BY <2>1, <2>2 DEF FamilyInv
<1>2. ASSUME NEW h \in Handlers, NEW k \in Tokens, Inserts(h, k) PROVE FamilyInv'
  <2>1. /\ InFlight(h)
        /\ Stored(k)' /\ ~Stored(k)
        /\ token'[k].user = req[h].user /\ token'[k].parent = req[h].from
        /\ token'[k].family = IF req[h].from = 0 THEN k
                                                 ELSE token[req[h].from].family
    BY <1>2, NoRequestIsNone DEF Inserts, InFlight, Stored
  <2>2. req[h].from # 0 => /\ req[h].from \in Tokens /\ Stored(req[h].from)
                           /\ token[req[h].from].user = req[h].user
                           /\ token[req[h].from].family \in Tokens
                           /\ Stored(token[req[h].from].family)
    BY <2>1 DEF FamilyInv, PresentsOwnToken, LineageStored
  <2>3. LineageStored'
    BY <1>2, <2>1, <2>2, InsertKeeps, InsertAdds DEF FamilyInv, LineageStored
  <2>4. \A l \in Tokens : Stored(l) /\ token[l].family = token'[k].family =>
           token[l].user = token'[k].user
    BY <2>1, <2>2 DEF FamilyInv, FamilyOfOneUser, LineageStored
  <2>5. FamilyOfOneUser'
    BY <1>2, <2>4, InsertKeeps, InsertAdds DEF FamilyInv, FamilyOfOneUser
  <2>6. PresentsOwnToken'
    BY <1>2, InsertEnds, InsertKeeps DEF FamilyInv, PresentsOwnToken
  <2>7. EndedAreStored'
    BY <1>2, InsertKeeps DEF FamilyInv, EndedAreStored, Inserts
  <2>8. QED
    BY <2>3, <2>5, <2>6, <2>7 DEF FamilyInv
<1>3. ASSUME Retires, ReqsKept
      PROVE  LineageStored' /\ FamilyOfOneUser' /\ PresentsOwnToken'
  <2>1. LineageStored' /\ FamilyOfOneUser'
    BY <1>3, RetiresKeeps DEF FamilyInv, LineageStored, FamilyOfOneUser
  <2>2. PresentsOwnToken'
    BY <1>3, RetiresKeeps DEF FamilyInv, PresentsOwnToken, ReqsKept
  <2>3. QED
    BY <2>1, <2>2
<1>4. ASSUME NEW u \in Users, Logout(u) PROVE FamilyInv'
  <2>1. ReqsKept
    BY <1>4, LogoutEffect DEF ReqsKept, InFlight
  <2>2. \A f \in ended' : f \in Tokens /\ Stored(f)
    BY <1>4 DEF Logout, FamilyInv, EndedAreStored, LineageStored, Stored
  <2>3. EndedAreStored'
    BY <1>4, <2>2, LogoutEffect, RetiresKeeps DEF EndedAreStored
  <2>4. QED
    BY <1>3, <1>4, <2>1, <2>3, LogoutEffect DEF FamilyInv
<1>5. ASSUME Retires, ReqsKept, ended' = ended PROVE FamilyInv'
  BY <1>3, <1>5, RetiresKeeps DEF FamilyInv, EndedAreStored
<1>6. QED
  BY <1>1, <1>2, <1>4, <1>5, StepKinds

\* No tokens, no requests, no sessions.
LEMMA NothingYet ==
  ASSUME Init
  PROVE  /\ \A k \in Tokens : ~Stored(k) /\ ~Live(k)
         /\ \A h \in Handlers : ~InFlight(h)
         /\ ended = {}
  BY DEF Init, Stored, Live, InFlight

LEMMA FamilyInit == Init => FamilyInv
  BY NothingYet
     DEF FamilyInv, LineageStored, FamilyOfOneUser, PresentsOwnToken, EndedAreStored

-----------------------------------------------------------------------------
(* Logout ******************************************************************)

\* Two requests in flight concern two users.
OnePerUser ==
    \A g, h \in Handlers :
        InFlight(g) /\ InFlight(h) /\ g # h => req[g].user # req[h].user

\* No request continues a session that was ended.
NoneContinuesEnded ==
    \A h \in Handlers : InFlight(h) /\ req[h].from # 0 =>
        token[req[h].from].family \notin ended

LogoutInv ==
    /\ OnePerUser
    /\ NoneContinuesEnded
    /\ LogoutEndsSessions

\* One step keeps LogoutInv when requests about one user do not overlap,
\* also when revoking one token may fail.
LEMMA LogoutStep ==
  TypeOK /\ FamilyInv /\ LogoutInv /\ ~Overlap /\ [Next]_vars => LogoutInv'
<1> SUFFICES ASSUME TypeOK, FamilyInv, LogoutInv, ~Overlap, [Next]_vars
             PROVE  LogoutInv'
  OBVIOUS
<1>1. ASSUME NEW h \in Handlers, NEW r \in Request, Begins(h, r) PROVE LogoutInv'
  <2>1. \A g \in Handlers : InFlight(g) => req[g].user # r.user
    BY <1>1 DEF Begins, Begin, Quiet
  <2>2. OnePerUser'
    BY <1>1, <2>1, BeginAdds DEF LogoutInv, OnePerUser
  <2>3. r.from # 0 => token[r.from].family \notin ended
    BY <1>1 DEF Begins, LogoutInv, LogoutEndsSessions
  <2>4. NoneContinuesEnded'
    BY <1>1, <2>3, BeginAdds DEF LogoutInv, NoneContinuesEnded
  <2>5. LogoutEndsSessions'
    BY <1>1, BeginAdds DEF LogoutInv, LogoutEndsSessions
  <2>6. QED
    BY <2>2, <2>4, <2>5 DEF LogoutInv
<1>2. ASSUME NEW h \in Handlers, NEW k \in Tokens, Inserts(h, k) PROVE LogoutInv'
  <2>1. OnePerUser'
    BY <1>2, InsertEnds DEF LogoutInv, OnePerUser
  <2>2. \A g \in Handlers : InFlight(g) /\ req[g].from # 0 =>
           token'[req[g].from] = token[req[g].from]
    BY <1>2, InsertKeeps DEF FamilyInv, PresentsOwnToken
  <2>3. NoneContinuesEnded'
    BY <1>2, <2>2, InsertEnds DEF LogoutInv, NoneContinuesEnded, Inserts
  <2>4. InFlight(h)
    BY <1>2, NoRequestIsNone DEF Inserts, InFlight
  <2>5. k \notin ended
    BY <1>2 DEF Inserts, FamilyInv, EndedAreStored
  <2>6. token'[k].family \notin ended
    BY <1>2, <2>4, <2>5 DEF Inserts, LogoutInv, NoneContinuesEnded
  <2>7. \A l \in Tokens : Live(l)' /\ l # k => Live(l) /\ token'[l] = token[l]
    BY <1>2 DEF Inserts, Live
  <2>8. LogoutEndsSessions'
    BY <1>2, <2>6, <2>7 DEF LogoutInv, LogoutEndsSessions, Inserts
  <2>9. QED
    BY <2>1, <2>3, <2>8 DEF LogoutInv
<1>3. ASSUME NEW u \in Users, Logout(u) PROVE LogoutInv'
  <2>1. \A k \in Tokens : /\ Live(k)' => Live(k) /\ token[k].user # u
                          /\ token'[k].family = token[k].family
    BY <1>3, LogoutEffect, RetiresKeeps
  <2>2. \A h \in Handlers : InFlight(h)' => /\ InFlight(h) /\ req'[h] = req[h]
                                            /\ req[h].user # u
    BY <1>3, LogoutEffect DEF Logout, Quiet, InFlight
  <2>3. ended' = ended \cup {token[k].family : k \in {l \in Tokens :
                                token[l].state # "none" /\ token[l].user = u}}
    BY <1>3 DEF Logout
  <2>4. \A k \in Tokens : Stored(k) /\ token[k].user # u
                             /\ token[k].family \notin ended
                          => token[k].family \notin ended'
    BY <2>3 DEF FamilyInv, FamilyOfOneUser, Stored
  <2>5. OnePerUser'
    BY <2>2 DEF LogoutInv, OnePerUser
  <2>6. NoneContinuesEnded'
    BY <2>1, <2>2, <2>4 DEF LogoutInv, NoneContinuesEnded, FamilyInv, PresentsOwnToken
  <2>7. LogoutEndsSessions'
    BY <2>1, <2>4, LiveIsStored DEF LogoutInv, LogoutEndsSessions
  <2>8. QED
    BY <2>5, <2>6, <2>7 DEF LogoutInv
<1>4. ASSUME Retires, ReqsKept, ended' = ended PROVE LogoutInv'
  <2>1. OnePerUser'
    BY <1>4 DEF LogoutInv, OnePerUser, ReqsKept
  <2>2. NoneContinuesEnded'
    BY <1>4, RetiresKeeps
       DEF LogoutInv, NoneContinuesEnded, ReqsKept, FamilyInv, PresentsOwnToken
  <2>3. LogoutEndsSessions'
    BY <1>4, RetiresKeeps DEF LogoutInv, LogoutEndsSessions
  <2>4. QED
    BY <2>1, <2>2, <2>3 DEF LogoutInv
<1>5. QED
  BY <1>1, <1>2, <1>3, <1>4, StepKinds

LEMMA LogoutInit == Init => LogoutInv
  BY NothingYet
     DEF LogoutInv, OnePerUser, NoneContinuesEnded, LogoutEndsSessions

\* "Ending every session": after a logout no token of the sessions the user
\* had is usable, for any number of users, sessions and refreshes, even if
\* revocations of single tokens fail, as long as the requests about one user
\* do not overlap.
THEOREM LogoutIsComplete ==
  ASSUME Overlap = FALSE PROVE Spec => []LogoutEndsSessions
<1>1. /\ TypeOK /\ FamilyInv /\ [Next]_vars => FamilyInv'
      /\ TypeOK /\ FamilyInv /\ LogoutInv /\ [Next]_vars => LogoutInv'
  BY FamilyStep, LogoutStep
<1>2. LogoutInv => LogoutEndsSessions
  BY DEF LogoutInv
<1>3. QED
  BY <1>1, <1>2, FamilyInit, LogoutInit, TypeCorrect, PTL DEF Spec

-----------------------------------------------------------------------------
(* Rotation ****************************************************************)

Childless(k) == \A l \in Tokens : Stored(l) => token[l].parent # k

\* A usable token, and one that is being exchanged, has no successor.
UsableIsChildless ==
    /\ \A k \in Tokens : Live(k) => Childless(k)
    /\ \A h \in Handlers : InFlight(h) /\ req[h].from # 0 => Childless(req[h].from)

\* No other token of a session is usable while one is being exchanged, and
\* that one is not either when its successor is about to be stored.
ExchangedIsAlone ==
    \A h \in Handlers : InFlight(h) /\ req[h].from # 0 =>
        \A k \in Tokens :
            Live(k) /\ token[k].family = token[req[h].from].family =>
                k = req[h].from /\ req[h].step # "create"

RotationInv ==
    /\ OnePerUser
    /\ UsableIsChildless
    /\ ExchangedIsAlone
    /\ OneLivePerSession
    /\ SingleUse

\* Beginning a request: a refresh presents the one live token of a session.
LEMMA BeginRotates ==
  ASSUME TypeOK, FamilyInv, RotationInv, ~Overlap,
         NEW h \in Handlers, NEW r \in Request, Begins(h, r)
  PROVE  RotationInv'
<1>1. \A g \in Handlers : InFlight(g) => req[g].user # r.user
  BY DEF Begins, Begin, Quiet
<1>2. OnePerUser'
  BY <1>1, BeginAdds DEF RotationInv, OnePerUser
<1>3. \A k : Childless(k)' <=> Childless(k)
  BY BeginAdds DEF Childless
<1>4. UsableIsChildless'
  BY <1>3, BeginAdds DEF Begins, RotationInv, UsableIsChildless
<1>5. r.from # 0 => /\ Live(r.from) /\ r.from \in Tokens
                    /\ r.step # "create"
  BY DEF Begins
<1>6. ExchangedIsAlone'
  BY <1>5, BeginAdds DEF RotationInv, ExchangedIsAlone, OneLivePerSession
<1>7. OneLivePerSession' /\ SingleUse'
  BY BeginAdds DEF RotationInv, OneLivePerSession, SingleUse
<1>8. QED
  BY <1>2, <1>4, <1>6, <1>7 DEF RotationInv

\* The insert: the token exchanged had no successor, its session no usable
\* token, and its user no other request.
LEMMA InsertRotates ==
  ASSUME TypeOK, FamilyInv, RotationInv,
         NEW h \in Handlers, NEW k \in Tokens, Inserts(h, k)
  PROVE  RotationInv'
<1>1. /\ InFlight(h) /\ ~Stored(k) /\ k # 0
      /\ req[h].step = "create"
      /\ token'[k].user = req[h].user /\ token'[k].parent = req[h].from
      /\ token'[k].family = IF req[h].from = 0 THEN k
                                               ELSE token[req[h].from].family
  BY NoRequestIsNone, TokensAreIds DEF Inserts, InFlight
<1>2. req[h].from # 0 => /\ req[h].from \in Tokens /\ Stored(req[h].from)
                         /\ Childless(req[h].from)
                         /\ token[req[h].from].user = req[h].user
                         /\ \A l \in Tokens : Live(l) =>
                               token[l].family # token[req[h].from].family
  BY <1>1 DEF FamilyInv, PresentsOwnToken, RotationInv, UsableIsChildless,
              ExchangedIsAlone
<1>3. \A l \in Tokens : Stored(l) =>
         token[l].family # k /\ token[l].parent # k
  BY <1>1 DEF FamilyInv, LineageStored
<1>4. \A l \in Tokens : Live(l) => token[l].family # token'[k].family
  BY <1>1, <1>2, <1>3, LiveIsStored
<1>5. OneLivePerSession'
  <2>1. \A l \in Tokens : Live(l)' /\ l # k =>
           /\ Live(l) /\ token'[l].family = token[l].family
           /\ token'[l].family # token'[k].family
    BY <1>4, LiveIsStored, InsertKeeps, InsertAdds
  <2>2. QED
    BY <2>1 DEF RotationInv, OneLivePerSession
<1>6. SingleUse'
  <2>1. \A l \in Tokens : Stored(l)' /\ l # k =>
           Stored(l) /\ token'[l].parent = token[l].parent
    BY InsertKeeps, InsertAdds
  <2>2. req[h].from # 0 => \A l \in Tokens : Stored(l) => token[l].parent # req[h].from
    BY <1>2 DEF Childless
  <2>3. QED
    BY <1>1, <2>1, <2>2 DEF RotationInv, SingleUse, Stored
<1>7. \A j \in Tokens : Childless(j) /\ j # req[h].from => Childless(j)'
  BY <1>1, InsertKeeps, InsertAdds DEF Childless
<1>8. Childless(k)'
  <2>1. k # req[h].from
    BY <1>1, <1>2
  <2>2. QED
    BY <1>1, <1>3, <2>1, InsertKeeps, InsertAdds DEF Childless
<1>9. \A l \in Tokens : Live(l)' => Childless(l)'
  <2> SUFFICES ASSUME NEW l \in Tokens, Live(l)' PROVE Childless(l)'
    OBVIOUS
  <2>1. CASE l = k
    BY <1>8, <2>1 DEF Childless
  <2>2. CASE l # k
    <3>1. Live(l)
      BY <2>2 DEF Inserts, Live
    <3>2. Childless(l)
      BY <3>1 DEF RotationInv, UsableIsChildless
    <3>n. l # req[h].from
      BY <1>2, <3>1, TokensAreIds
    <3>3. QED
      BY <1>7, <3>2, <3>n
  <2>3. QED
    BY <2>1, <2>2
<1>r. \A g \in Handlers : InFlight(g)' /\ req'[g].from # 0 =>
         \A j \in Tokens : j = req'[g].from => Childless(j)'
  <2> SUFFICES ASSUME NEW g \in Handlers, InFlight(g)', req'[g].from # 0,
                      NEW j \in Tokens, j = req'[g].from
               PROVE  Childless(j)'
    OBVIOUS
  <2>1. /\ g # h /\ InFlight(g) /\ req[g].from = j /\ req[g].from # 0
        /\ token[j].user = req[g].user
        /\ req[g].user # req[h].user
    BY <1>1, InsertEnds DEF FamilyInv, PresentsOwnToken, RotationInv, OnePerUser
  <2>2. Childless(j) /\ j # req[h].from
    BY <1>2, <2>1 DEF RotationInv, UsableIsChildless
  <2>3. QED
    BY <1>7, <2>2
<1>u. UsableIsChildless'
  <2>1. \A g \in Handlers : InFlight(g)' /\ req'[g].from # 0 => req'[g].from \in Tokens
    BY InsertEnds DEF FamilyInv, PresentsOwnToken
  <2>2. QED
    BY <1>9, <1>r, <2>1 DEF UsableIsChildless, Childless
<1>10. ExchangedIsAlone'
  <2>1. \A g \in Handlers : InFlight(g)' /\ req'[g].from # 0 =>
           /\ req'[g] = req[g] /\ InFlight(g)
           /\ req[g].from \in Tokens /\ Stored(req[g].from)
           /\ token[req[g].from].user # req[h].user
           /\ token'[req[g].from] = token[req[g].from]
    BY <1>1, InsertEnds, InsertKeeps
       DEF FamilyInv, PresentsOwnToken, RotationInv, OnePerUser
  <2>2. \A j \in Tokens : Stored(j) /\ token[j].user # req[h].user =>
           token[j].family # token'[k].family
    BY <1>1, <1>2, <1>3 DEF FamilyInv, FamilyOfOneUser
  <2>3. \A l \in Tokens : Live(l)' /\ l # k => Live(l) /\ token'[l] = token[l]
    BY LiveIsStored, InsertKeeps, InsertAdds
  <2>4. QED
    BY <2>1, <2>2, <2>3 DEF RotationInv, ExchangedIsAlone
<1>11. OnePerUser'
  BY InsertEnds DEF RotationInv, OnePerUser
<1>12. QED
  BY <1>5, <1>6, <1>u, <1>10, <1>11 DEF RotationInv

\* Retiring tokens: a rotation that reaches its insert has revoked.
LEMMA RetireRotates ==
  ASSUME TypeOK, FamilyInv, RotationInv, ~RevokeMayFail,
         Retires, ReqsKept, RevokesFirst
  PROVE  RotationInv'
<1>1. OnePerUser'
  BY DEF RotationInv, OnePerUser, ReqsKept
<1>2. \A k : Childless(k) => Childless(k)'
  BY RetiresKeeps DEF Childless
<1>3. UsableIsChildless'
  BY <1>2, RetiresKeeps DEF RotationInv, UsableIsChildless, ReqsKept
<1>4. OneLivePerSession' /\ SingleUse'
  <2>1. OneLivePerSession'
    BY RetiresKeeps DEF RotationInv, OneLivePerSession
  <2>2. SingleUse'
    BY RetiresKeeps DEF RotationInv, SingleUse, Stored
  <2>3. QED
    BY <2>1, <2>2
<1>5. ExchangedIsAlone'
  <2> SUFFICES ASSUME NEW h \in Handlers, InFlight(h)', req'[h].from # 0,
                      NEW k \in Tokens, Live(k)',
                      token'[k].family = token'[req'[h].from].family
               PROVE  k = req'[h].from /\ req'[h].step # "create"
    BY DEF ExchangedIsAlone
  <2>1. InFlight(h) /\ req'[h].from = req[h].from /\ req[h].from \in Tokens
    BY DEF ReqsKept, FamilyInv, PresentsOwnToken
  <2>2. Live(k) /\ token[k].family = token[req[h].from].family
    BY <2>1, RetiresKeeps
  <2>3. k = req[h].from /\ req[h].step # "create"
    BY <2>1, <2>2 DEF RotationInv, ExchangedIsAlone
  <2>4. req'[h].step # "create"
    BY <2>3 DEF RevokesFirst, Live
  <2>5. QED
    BY <2>1, <2>3, <2>4
<1>6. QED
  BY <1>1, <1>3, <1>4, <1>5 DEF RotationInv

\* One step keeps RotationInv when requests about one user do not overlap
\* and revocations succeed.
LEMMA RotationStep ==
  ASSUME TypeOK, FamilyInv, RotationInv, ~Overlap, ~RevokeMayFail, [Next]_vars
  PROVE  RotationInv'
<1>1. ASSUME NEW h \in Handlers, NEW r \in Request, Begins(h, r)
      PROVE  RotationInv'
  BY <1>1, BeginRotates
<1>2. ASSUME NEW h \in Handlers, NEW k \in Tokens, Inserts(h, k)
      PROVE  RotationInv'
  BY <1>2, InsertRotates
<1>3. ASSUME NEW u \in Users, Logout(u) PROVE RotationInv'
  <2>1. ReqsKept /\ RevokesFirst
    BY <1>3, LogoutEffect DEF ReqsKept, RevokesFirst, InFlight
  <2>2. QED
    BY <1>3, <2>1, LogoutEffect, RetireRotates
<1>4. ASSUME Retires, ReqsKept, RevokesFirst PROVE RotationInv'
  BY <1>4, RetireRotates
<1>5. QED
  BY <1>1, <1>2, <1>3, <1>4, StepKinds

LEMMA RotationInit == Init => RotationInv
  BY NothingYet
     DEF RotationInv, OnePerUser, UsableIsChildless, ExchangedIsAlone,
         OneLivePerSession, SingleUse, Stored

\* The two invariants hold together.
LEMMA Rotation ==
  ASSUME Overlap = FALSE, RevokeMayFail = FALSE PROVE Spec => []RotationInv
<1>1. /\ TypeOK /\ FamilyInv /\ [Next]_vars => FamilyInv'
      /\ TypeOK /\ FamilyInv /\ RotationInv /\ [Next]_vars => RotationInv'
  BY FamilyStep, RotationStep
<1>2. QED
  BY <1>1, FamilyInit, RotationInit, TypeCorrect, PTL DEF Spec

\* "Single use": no refresh token is ever exchanged twice, as long as the
\* requests about one user do not overlap and revocations succeed.
THEOREM TokensAreSingleUse ==
  ASSUME Overlap = FALSE, RevokeMayFail = FALSE PROVE Spec => []SingleUse
<1>1. RotationInv => SingleUse
  BY DEF RotationInv
<1>2. QED
  BY <1>1, Rotation, PTL

\* A session has at most one usable token, under the same assumptions.
THEOREM SessionsDoNotFork ==
  ASSUME Overlap = FALSE, RevokeMayFail = FALSE PROVE Spec => []OneLivePerSession
<1>1. RotationInv => OneLivePerSession
  BY DEF RotationInv
<1>2. QED
  BY <1>1, Rotation, PTL

-----------------------------------------------------------------------------
(* The lifecycle of a session **********************************************)

\* A token of session s has been stored.
Known(s) == \E k \in Tokens : Stored(k) /\ token[k].family = s

\* Nothing that its user sees happens to session s.
Unseen(s) == Phase(s)' = Phase(s) /\ Accepted(s)' = Accepted(s)

\* Phase, case by case.
LEMMA Phases ==
  ASSUME NEW s \in Tokens
  PROVE  /\ Accepted(s) # {} => Phase(s) = "usable"
         /\ Accepted(s) = {} /\ BeingExchanged(s) => Phase(s) = "exchanging"
         /\ Accepted(s) = {} /\ ~BeingExchanged(s) /\ Known(s) => Phase(s) = "over"
         /\ Accepted(s) = {} /\ ~BeingExchanged(s) /\ ~Known(s) => Phase(s) = "absent"
  BY DEF Phase, Known

LEMMA PhasesNext ==
  ASSUME NEW s \in Tokens
  PROVE  /\ Accepted(s)' # {} => Phase(s)' = "usable"
         /\ Accepted(s)' = {} /\ BeingExchanged(s)' => Phase(s)' = "exchanging"
         /\ Accepted(s)' = {} /\ ~BeingExchanged(s)' /\ Known(s)' => Phase(s)' = "over"
         /\ Accepted(s)' = {} /\ ~BeingExchanged(s)' /\ ~Known(s)' => Phase(s)' = "absent"
  BY DEF Phase, Known

LEMMA StaysUnseen ==
  ASSUME NEW s \in Tokens, Accepted(s)' = Accepted(s), Known(s)' <=> Known(s),
         Accepted(s) # {} \/ (BeingExchanged(s)' <=> BeingExchanged(s))
  PROVE  Unseen(s)
  BY Phases, PhasesNext DEF Unseen

\* What a session is entered with, and who exchanges it, is settled.
LEMMA SessionFacts ==
  ASSUME TypeOK, FamilyInv, RotationInv
  PROVE  /\ \A k \in Tokens : Live(k) => /\ token[k].family \in Tokens
                                         /\ Accepted(token[k].family) = {k}
         /\ \A h \in Handlers : InFlight(h) /\ req[h].from # 0 =>
               /\ req[h].from \in Tokens /\ token[req[h].from].family \in Tokens
               /\ BeingExchanged(token[req[h].from].family)
               /\ Known(token[req[h].from].family)
               /\ \A k \in Tokens : Live(k) /\ token[k].family = token[req[h].from].family
                                       => k = req[h].from
               /\ \A g \in Handlers :
                     /\ InFlight(g) /\ req[g].from # 0
                     /\ token[req[g].from].family = token[req[h].from].family
                     => g = h
<1>1. ASSUME NEW k \in Tokens, Live(k)
      PROVE  token[k].family \in Tokens /\ Accepted(token[k].family) = {k}
  <2>1. token[k].family \in Tokens
    BY <1>1, LiveIsStored DEF FamilyInv, LineageStored
  <2>2. QED
    BY <1>1, <2>1 DEF Accepted, RotationInv, OneLivePerSession
<1>2. ASSUME NEW h \in Handlers, InFlight(h), req[h].from # 0
      PROVE  /\ req[h].from \in Tokens /\ Stored(req[h].from)
             /\ token[req[h].from].family \in Tokens
             /\ token[req[h].from].user = req[h].user
  BY <1>2 DEF FamilyInv, PresentsOwnToken, LineageStored
<1>3. ASSUME NEW h \in Handlers, InFlight(h), req[h].from # 0
      PROVE  /\ BeingExchanged(token[req[h].from].family)
             /\ Known(token[req[h].from].family)
             /\ \A k \in Tokens : Live(k) /\ token[k].family = token[req[h].from].family
                                     => k = req[h].from
  BY <1>2, <1>3 DEF BeingExchanged, Known, RotationInv, ExchangedIsAlone
<1>4. ASSUME NEW h \in Handlers, InFlight(h), req[h].from # 0,
             NEW g \in Handlers, InFlight(g), req[g].from # 0,
             token[req[g].from].family = token[req[h].from].family
      PROVE  g = h
  <2>1. token[req[g].from].user = token[req[h].from].user
    BY <1>2, <1>4 DEF FamilyInv, FamilyOfOneUser
  <2>2. req[g].user = req[h].user
    BY <1>2, <1>4, <2>1
  <2>3. QED
    BY <1>4, <2>2 DEF RotationInv, OnePerUser
<1>5. QED
  BY <1>1, <1>2, <1>3, <1>4

\* The steps of the lifecycle, said of the tokens.
LEMMA NothingSeen ==
  ASSUME \A s \in Tokens : Unseen(s),
         \A k \in Tokens : Stored(k)' <=> Stored(k)
  PROVE  UNCHANGED Lifecycle!vars
  BY DEF Unseen, Lifecycle!vars

LEMMA ExchangeSeen ==
  ASSUME NEW s \in Tokens, Phase(s) = "usable", Phase(s)' = "exchanging",
         Accepted(s)' = {}, \A x \in Tokens : x # s => Unseen(x),
         \A k \in Tokens : Stored(k)' <=> Stored(k)
  PROVE  Lifecycle!Exchange(s)
  BY DEF Unseen, Lifecycle!Exchange

LEMMA EndSeen ==
  ASSUME NEW S \in SUBSET Tokens,
         \A s \in S : /\ Phase(s) \in {"usable", "exchanging"}
                      /\ Phase(s)' = "over" /\ Accepted(s)' = {},
         \A x \in Tokens \ S : Unseen(x),
         \A k \in Tokens : Stored(k)' <=> Stored(k)
  PROVE  Lifecycle!End(S)
  BY DEF Unseen, Lifecycle!End

LEMMA IssueSeen ==
  ASSUME NEW s \in Tokens, NEW k \in Tokens, ~Stored(k),
         Phase(s)' = "usable", Accepted(s)' = {k},
         \A x \in Tokens : x # s => Unseen(x),
         \A l \in Tokens : Stored(l)' <=> Stored(l) \/ l = k
  PROVE  Lifecycle!Issue(s, k)
  BY DEF Unseen, Lifecycle!Issue

\* A beginning is not seen: the token presented is still the one accepted.
LEMMA BeginUnseen ==
  ASSUME TypeOK, FamilyInv, RotationInv,
         NEW h \in Handlers, NEW r \in Request, Begins(h, r)
  PROVE  UNCHANGED Lifecycle!vars
<1>1. \A k \in Tokens : /\ token'[k] = token[k]
                        /\ (Live(k)' <=> Live(k)) /\ (Stored(k)' <=> Stored(k))
  BY BeginAdds
<1>2. ASSUME NEW s \in Tokens PROVE Unseen(s)
  <2>1. Accepted(s)' = Accepted(s) /\ (Known(s)' <=> Known(s))
    BY <1>1 DEF Accepted, Known
  <2>2. CASE r.from = 0 \/ token[r.from].family # s
    <3>1. BeingExchanged(s)' <=> BeingExchanged(s)
      BY <2>2, BeginAdds DEF BeingExchanged, InFlight
    <3>2. QED
      BY <2>1, <3>1, StaysUnseen
  <2>3. CASE r.from # 0 /\ token[r.from].family = s
    <3>1. Accepted(s) # {}
      BY <2>3 DEF Begins, Accepted
    <3>2. QED
      BY <2>1, <3>1, StaysUnseen
  <2>4. QED
    BY <2>2, <2>3
<1>3. QED
  BY <1>1, <1>2, NothingSeen

\* An insert starts a session or renews one that is being exchanged.
LEMMA InsertSeen ==
  ASSUME TypeOK, FamilyInv, RotationInv,
         NEW h \in Handlers, NEW k \in Tokens, Inserts(h, k)
  PROVE  Lifecycle!Next
<1>1. /\ InFlight(h) /\ ~Stored(k) /\ req[h].step = "create"
      /\ Stored(k)' /\ Live(k)'
      /\ token'[k].family = IF req[h].from = 0 THEN k ELSE token[req[h].from].family
  BY NoRequestIsNone DEF Inserts, InFlight, Stored, Live
<1>2. \A l \in Tokens : l # k => /\ token'[l] = token[l]
                                 /\ (Live(l)' <=> Live(l)) /\ (Stored(l)' <=> Stored(l))
  BY DEF Inserts, Live, Stored
<1>3. ~Live(k)
  BY <1>1, LiveIsStored
<1>4. \A g \in Handlers : InFlight(g)' <=> InFlight(g) /\ g # h
  BY DEF Inserts, InFlight
<1>5. \A g \in Handlers : InFlight(g)' =>
         /\ req'[g] = req[g]
         /\ req[g].from # 0 => token'[req[g].from] = token[req[g].from]
  BY InsertEnds, InsertKeeps DEF FamilyInv, PresentsOwnToken
<1>6. ASSUME NEW s \in Tokens, token'[k].family = s,
             Accepted(s) = {},
             req[h].from # 0 => token[req[h].from].family = s
      PROVE  Lifecycle!Issue(s, k)
  <2>1. Accepted(s)' = {k}
    BY <1>1, <1>2, <1>6 DEF Accepted
  <2>2. Phase(s)' = "usable"
    BY <2>1, PhasesNext
  <2>3. ASSUME NEW x \in Tokens, x # s PROVE Unseen(x)
    <3>1. Accepted(x)' = Accepted(x) /\ (Known(x)' <=> Known(x))
      BY <1>1, <1>2, <1>3, <1>6, <2>3 DEF Accepted, Known
    <3>2. BeingExchanged(x)' <=> BeingExchanged(x)
      BY <1>4, <1>5, <1>6, <2>3 DEF BeingExchanged
    <3>3. QED
      BY <3>1, <3>2, StaysUnseen
  <2>4. QED
    BY <1>1, <1>2, <2>1, <2>2, <2>3, IssueSeen
<1>7. CASE req[h].from = 0
  <2>1. /\ ~Known(k) /\ Accepted(k) = {}
    BY <1>1, LiveIsStored DEF FamilyInv, LineageStored, Known, Accepted
  <2>2. ~BeingExchanged(k)
    BY <1>1, SessionFacts DEF FamilyInv, PresentsOwnToken, LineageStored, BeingExchanged
  <2>3. Phase(k) = "absent"
    BY <2>1, <2>2, Phases
  <2>4. Lifecycle!Issue(k, k)
    BY <1>1, <1>6, <1>7, <2>1
  <2>5. Lifecycle!Start(k)
    BY <2>3, <2>4 DEF Lifecycle!Start
  <2>6. QED
    BY <2>5 DEF Lifecycle!Next
<1>8. CASE req[h].from # 0
  <2> DEFINE s == token[req[h].from].family
  <2>1. s \in Tokens /\ BeingExchanged(s)
    BY <1>1, <1>8, SessionFacts
  <2>2. Accepted(s) = {}
    BY <1>1, <1>8 DEF Accepted, RotationInv, ExchangedIsAlone
  <2>3. token'[k].family = s
    BY <1>1, <1>8
  <2>4. req[h].from # 0 => token[req[h].from].family = s
    OBVIOUS
  <2> HIDE DEF s
  <2>5. PICK f \in Tokens : f = s
    BY <2>1
  <2>6. Phase(f) = "exchanging"
    BY <2>1, <2>2, <2>5, Phases
  <2>7. Lifecycle!Issue(f, k)
    BY <1>6, <2>2, <2>3, <2>4, <2>5
  <2>8. Lifecycle!Renew(f, k)
    BY <2>6, <2>7 DEF Lifecycle!Renew
  <2>9. QED
    BY <2>8 DEF Lifecycle!Next
<1>9. QED
  BY <1>7, <1>8

\* A logout ends the sessions whose accepted token is the user's.
LEMMA LogoutSeen ==
  ASSUME TypeOK, FamilyInv, RotationInv, ~Overlap, NEW u \in Users, Logout(u)
  PROVE  Lifecycle!Next
<1> DEFINE S == {s \in Tokens : \E k \in Accepted(s) : token[k].user = u}
<1>1. /\ Retires /\ UNCHANGED req
      /\ \A k \in Tokens : Live(k)' => Live(k) /\ token[k].user # u
  BY LogoutEffect
<1>2. \A k \in Tokens : Live(k) /\ token[k].user # u => Live(k)'
  BY DEF Logout, Live
<1>3. \A k \in Tokens : /\ token'[k].family = token[k].family
                        /\ token'[k].user = token[k].user
                        /\ (Stored(k)' <=> Stored(k))
  BY <1>1, RetiresKeeps
<1>4. \A g \in Handlers : InFlight(g) => req[g].user # u
  BY DEF Logout, Quiet
<1>5. \A s \in Tokens : /\ (Known(s)' <=> Known(s))
                        /\ (BeingExchanged(s)' <=> BeingExchanged(s))
  BY <1>1, <1>3 DEF Known, BeingExchanged, InFlight, FamilyInv, PresentsOwnToken
<1>6. ASSUME NEW s \in Tokens, s \in S
      PROVE  /\ Phase(s) \in {"usable", "exchanging"}
             /\ Phase(s)' = "over" /\ Accepted(s)' = {}
  <2>1. PICK k \in Tokens : /\ Live(k) /\ token[k].family = s /\ token[k].user = u
                            /\ Accepted(s) = {k}
    BY <1>6, SessionFacts DEF Accepted
  <2>2. Phase(s) = "usable" /\ Known(s)
    BY <2>1, Phases, LiveIsStored DEF Known
  <2>3. Accepted(s)' = {}
    BY <1>1, <1>3, <2>1 DEF Accepted
  <2>4. ~BeingExchanged(s)
    <3>1. ASSUME NEW g \in Handlers, InFlight(g), req[g].from # 0,
                 token[req[g].from].family = s
          PROVE  FALSE
      <4>1. /\ Stored(req[g].from) /\ req[g].from \in Tokens
            /\ token[req[g].from].user = req[g].user
        BY <3>1 DEF FamilyInv, PresentsOwnToken
      <4>2. req[g].user = u
        BY <2>1, <3>1, <4>1, LiveIsStored DEF FamilyInv, FamilyOfOneUser
      <4>3. QED
        BY <1>4, <3>1, <4>2
    <3>2. QED
      BY <3>1 DEF BeingExchanged
  <2>5. Phase(s)' = "over"
    BY <1>5, <2>2, <2>3, <2>4, PhasesNext
  <2>6. QED
    BY <2>2, <2>3, <2>5
<1>7. ASSUME NEW s \in Tokens, s \notin S PROVE Unseen(s)
  <2>1. \A k \in Tokens : Live(k) /\ token[k].family = s => token[k].user # u
    BY <1>7 DEF Accepted
  <2>2. Accepted(s)' = Accepted(s)
    BY <1>1, <1>2, <1>3, <2>1 DEF Accepted
  <2>3. QED
    BY <1>5, <2>2, StaysUnseen
<1>8. S \in SUBSET Tokens
  OBVIOUS
<1> HIDE DEF S
<1>9. Lifecycle!End(S)
  BY <1>3, <1>6, <1>7, <1>8, EndSeen
<1>10. QED
  BY <1>8, <1>9 DEF Lifecycle!Next

\* A revocation takes the accepted token; one that finds it gone is not seen.
LEMMA RevokeSeen ==
  ASSUME TypeOK, FamilyInv, RotationInv, ~RevokeMayFail, NEW h \in Handlers, Revoke(h)
  PROVE  Lifecycle!Next \/ UNCHANGED Lifecycle!vars
<1>1. InFlight(h) /\ req[h] \in Request
  BY RequestsInFlight DEF Revoke
<1>2. \A g \in Handlers : /\ (InFlight(g)' <=> InFlight(g))
                          /\ (InFlight(g) => req'[g].from = req[g].from)
  <2>1. req'[h] = [req[h] EXCEPT !.step = "create"]
    BY DEF Revoke, Goto, TypeOK
  <2>2. req'[h].from = req[h].from /\ req'[h].step = "create"
    BY <1>1, <2>1 DEF Request
  <2>3. \A g \in Handlers : g # h => req'[g] = req[g]
    BY DEF Revoke, Goto, TypeOK
  <2>4. QED
    BY <1>1, <2>2, <2>3, NoRequestIsNone DEF InFlight
<1>3. \A k \in Tokens :
         token'[k] = IF k = req[h].from /\ Live(k)
                     THEN [token[k] EXCEPT !.state = "revoked"] ELSE token[k]
  BY DEF Revoke
<1>4. \A k \in Tokens : token[k] \in TokenRow
  BY DEF TypeOK
<1>5. \A k \in Tokens : /\ token'[k].family = token[k].family
                        /\ (Stored(k)' <=> Stored(k))
                        /\ (Live(k)' <=> Live(k) /\ k # req[h].from)
  BY <1>3, <1>4 DEF TokenRow, Stored, Live
<1>6. \A s \in Tokens : /\ (Known(s)' <=> Known(s))
                        /\ (BeingExchanged(s)' <=> BeingExchanged(s))
  BY <1>2, <1>5 DEF Known, BeingExchanged, FamilyInv, PresentsOwnToken
<1>7. CASE req[h].from \in Tokens /\ Live(req[h].from)
  <2> DEFINE k == req[h].from
  <2>1. PICK s \in Tokens : s = token[k].family
    BY <1>7, SessionFacts
  <2>2. /\ k # 0 /\ Accepted(s) = {k} /\ BeingExchanged(s)
    BY <1>1, <1>7, <2>1, SessionFacts, TokensAreIds
  <2>3. Accepted(s)' = {}
    BY <1>5, <2>2 DEF Accepted
  <2>4. Phase(s) = "usable" /\ Phase(s)' = "exchanging"
    BY <1>6, <2>2, <2>3, Phases, PhasesNext
  <2>5. ASSUME NEW x \in Tokens, x # s PROVE Unseen(x)
    <3>1. Accepted(x)' = Accepted(x)
      BY <1>5, <2>1, <2>5 DEF Accepted
    <3>2. QED
      BY <1>6, <3>1, StaysUnseen
  <2>6. Lifecycle!Exchange(s)
    BY <1>5, <2>3, <2>4, <2>5, ExchangeSeen
  <2>7. QED
    BY <2>6 DEF Lifecycle!Next
<1>8. CASE ~(req[h].from \in Tokens /\ Live(req[h].from))
  <2>1. ASSUME NEW s \in Tokens PROVE Unseen(s)
    <3>1. Accepted(s)' = Accepted(s)
      BY <1>5, <1>8 DEF Accepted
    <3>2. QED
      BY <1>6, <3>1, StaysUnseen
  <2>2. QED
    BY <1>5, <2>1, NothingSeen
<1>9. QED
  BY <1>7, <1>8

\* A request that ends in the middle of an exchange ends its session.
LEMMA DropSeen ==
  ASSUME TypeOK, FamilyInv, RotationInv, NEW h \in Handlers, Drop(h)
  PROVE  Lifecycle!Next \/ UNCHANGED Lifecycle!vars
<1>1. /\ InFlight(h)
      /\ \A g \in Handlers : /\ (InFlight(g)' <=> InFlight(g) /\ g # h)
                             /\ (g # h => req'[g] = req[g])
      /\ UNCHANGED token
  BY DEF Drop, InFlight, TypeOK
<1>2. \A s \in Tokens : Accepted(s)' = Accepted(s) /\ (Known(s)' <=> Known(s))
  BY <1>1 DEF Accepted, Known, Live, Stored
<1>3. \A k \in Tokens : Stored(k)' <=> Stored(k)
  BY <1>1 DEF Stored
<1>4. ASSUME NEW s \in Tokens, req[h].from = 0 \/ token[req[h].from].family # s
      PROVE  Unseen(s)
  <2>1. BeingExchanged(s)' <=> BeingExchanged(s)
    BY <1>1, <1>4 DEF BeingExchanged
  <2>2. QED
    BY <1>2, <2>1, StaysUnseen
<1>5. CASE req[h].from = 0
  BY <1>3, <1>4, <1>5, NothingSeen
<1>6. CASE req[h].from # 0
  <2>1. PICK s \in Tokens : s = token[req[h].from].family
    BY <1>1, <1>6, SessionFacts
  <2>2. CASE Accepted(s) # {}
    <3>1. Unseen(s)
      BY <1>2, <2>2, StaysUnseen
    <3>2. QED
      BY <1>3, <1>4, <2>1, <3>1, NothingSeen
  <2>3. CASE Accepted(s) = {}
    <3>1. BeingExchanged(s) /\ Known(s)
      BY <1>1, <1>6, <2>1, SessionFacts
    <3>2. ~BeingExchanged(s)'
      BY <1>1, <1>6, <2>1, SessionFacts DEF BeingExchanged
    <3>3. Phase(s) = "exchanging" /\ Phase(s)' = "over" /\ Accepted(s)' = {}
      BY <1>2, <2>3, <3>1, <3>2, Phases, PhasesNext
    <3>4. Lifecycle!End({s})
      BY <1>3, <1>4, <2>1, <3>3, EndSeen
    <3>5. QED
      BY <3>4 DEF Lifecycle!Next
  <2>4. QED
    BY <2>2, <2>3
<1>7. QED
  BY <1>5, <1>6

\* An accepted token expires: the session is over, unless it is just being
\* exchanged.
LEMMA ExpirySeen ==
  ASSUME TypeOK, FamilyInv, RotationInv, NEW k \in Tokens, Expires(k)
  PROVE  Lifecycle!Next
<1>1. PICK s \in Tokens : s = token[k].family /\ Accepted(s) = {k}
  BY SessionFacts DEF Expires
<1>2. \A l \in Tokens : /\ token'[l].family = token[l].family
                        /\ (Stored(l)' <=> Stored(l))
                        /\ (Live(l)' <=> Live(l) /\ l # k)
  <2>1. token[k] \in TokenRow
    BY DEF TypeOK
  <2>2. /\ token'[k] = [token[k] EXCEPT !.state = "expired"]
        /\ \A l \in Tokens : l # k => token'[l] = token[l]
    BY DEF Expires, TypeOK
  <2>3. token'[k].family = token[k].family /\ token'[k].state = "expired"
    BY <2>1, <2>2 DEF TokenRow
  <2>4. QED
    BY <2>2, <2>3 DEF Expires, Stored, Live
<1>3. \A x \in Tokens : /\ (Known(x)' <=> Known(x))
                        /\ (BeingExchanged(x)' <=> BeingExchanged(x))
  BY <1>2 DEF Known, BeingExchanged, InFlight, Expires, FamilyInv, PresentsOwnToken
<1>4. Accepted(s)' = {} /\ Known(s)
  BY <1>1, <1>2, LiveIsStored DEF Accepted, Known
<1>5. Phase(s) = "usable"
  BY <1>1, Phases
<1>6. ASSUME NEW x \in Tokens, x # s PROVE Unseen(x)
  <2>1. Accepted(x)' = Accepted(x)
    BY <1>1, <1>2, <1>6 DEF Accepted
  <2>2. QED
    BY <1>3, <2>1, StaysUnseen
<1>7. CASE BeingExchanged(s)
  <2>1. Phase(s)' = "exchanging"
    BY <1>3, <1>4, <1>7, PhasesNext
  <2>2. Lifecycle!Exchange(s)
    BY <1>2, <1>4, <1>5, <1>6, <2>1, ExchangeSeen
  <2>3. QED
    BY <2>2 DEF Lifecycle!Next
<1>8. CASE ~BeingExchanged(s)
  <2>1. Phase(s)' = "over"
    BY <1>3, <1>4, <1>8, PhasesNext
  <2>2. Lifecycle!End({s})
    BY <1>2, <1>4, <1>5, <1>6, <2>1, EndSeen
  <2>3. QED
    BY <2>2 DEF Lifecycle!Next
<1>9. QED
  BY <1>7, <1>8

\* No session sees the user being looked up or an account (de)activated.
LEMMA QuietUnseen ==
  ASSUME TypeOK, UNCHANGED token,
         \/ \E h \in Handlers : ReadUser(h)
         \/ \E u \in Users : SetActive(u)
         \/ UNCHANGED vars
  PROVE  UNCHANGED Lifecycle!vars
<1>1. \A g \in Handlers : /\ (InFlight(g)' <=> InFlight(g))
                          /\ (InFlight(g) => req'[g].from = req[g].from)
  <2>1. CASE UNCHANGED req
    BY <2>1 DEF InFlight
  <2>2. ASSUME NEW h \in Handlers, ReadUser(h)
        PROVE  \A g \in Handlers : /\ (InFlight(g)' <=> InFlight(g))
                                   /\ (InFlight(g) => req'[g].from = req[g].from)
    <3>1. InFlight(h) /\ req[h] \in Request
      BY <2>2, RequestsInFlight DEF ReadUser
    <3>2. /\ req'[h] = [req[h] EXCEPT !.step = "revoke"]
          /\ \A g \in Handlers : g # h => req'[g] = req[g]
      BY <2>2 DEF ReadUser, Goto, TypeOK
    <3>3. req'[h].from = req[h].from /\ req'[h].step = "revoke"
      BY <3>1, <3>2 DEF Request
    <3>4. QED
      BY <3>1, <3>2, <3>3, NoRequestIsNone DEF InFlight
  <2>3. QED
    BY <2>1, <2>2 DEF SetActive, vars
<1>2. \A k \in Tokens : (Live(k)' <=> Live(k)) /\ (Stored(k)' <=> Stored(k))
  BY DEF Live, Stored
<1>3. ASSUME NEW s \in Tokens PROVE Unseen(s)
  <2>1. /\ Accepted(s)' = Accepted(s) /\ (Known(s)' <=> Known(s))
        /\ (BeingExchanged(s)' <=> BeingExchanged(s))
    BY <1>1, <1>2 DEF Accepted, Known, BeingExchanged
  <2>2. QED
    BY <2>1, StaysUnseen
<1>4. QED
  BY <1>2, <1>3, NothingSeen

LEMMA LifecycleStep ==
  ASSUME TypeOK, FamilyInv, RotationInv, ~Overlap, ~RevokeMayFail, [Next]_vars
  PROVE  [Lifecycle!Next]_(Lifecycle!vars)
<1>1. ASSUME NEW h \in Handlers, NEW u \in Users, Login(h, u)
      PROVE  UNCHANGED Lifecycle!vars
  BY <1>1, LoginBegins, BeginUnseen
<1>2. ASSUME NEW h \in Handlers, NEW k \in Tokens, Refresh(h, k)
      PROVE  UNCHANGED Lifecycle!vars
  BY <1>2, RefreshBegins, BeginUnseen
<1>3. ASSUME NEW h \in Handlers, Create(h) PROVE Lifecycle!Next
  BY <1>3, CreateInserts, InsertSeen
<1>4. CASE \/ \E h \in Handlers : ReadUser(h)
           \/ \E u \in Users : SetActive(u)
           \/ UNCHANGED vars
  BY <1>4, QuietUnseen DEF ReadUser, SetActive, vars
<1>5. QED
  BY <1>1, <1>2, <1>3, <1>4, RevokeSeen, DropSeen, LogoutSeen, ExpirySeen DEF Next

\* The four statements of a refresh, the one of a logout and the passing of
\* time are, to the user of a session, the steps of SessionLifecycle, when
\* requests about one user do not overlap and revocations succeed.
THEOREM TokensImplementLifecycle ==
  ASSUME Overlap = FALSE, RevokeMayFail = FALSE PROVE Spec => ImplementsLifecycle
<1>1. Init => Lifecycle!Init
  <2> SUFFICES ASSUME Init PROVE Lifecycle!Init
    OBVIOUS
  <2>1. \A s \in Tokens : Accepted(s) = {} /\ ~BeingExchanged(s) /\ ~Known(s)
    BY NothingYet DEF Accepted, BeingExchanged, Known
  <2>2. \A s \in Tokens : Phase(s) = "absent"
    BY <2>1, Phases
  <2>3. {k \in Tokens : Stored(k)} = {}
    BY NothingYet
  <2>4. QED
    BY <2>1, <2>2, <2>3 DEF Lifecycle!Init
<1>2. TypeOK /\ FamilyInv /\ RotationInv /\ [Next]_vars
         => [Lifecycle!Next]_(Lifecycle!vars)
  BY LifecycleStep
<1>3. /\ TypeOK /\ FamilyInv /\ [Next]_vars => FamilyInv'
      /\ TypeOK /\ FamilyInv /\ RotationInv /\ [Next]_vars => RotationInv'
  BY FamilyStep, RotationStep
<1>4. QED
  BY <1>1, <1>2, <1>3, FamilyInit, RotationInit, TypeCorrect, PTL
     DEF Spec, ImplementsLifecycle, Lifecycle!Spec
=============================================================================
