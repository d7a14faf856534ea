------------------------- MODULE RequestChainProofs -------------------------
(***************************************************************************)
(* Theorems about RequestChain: which requests change a tenant's API keys, *)
(* that a revoked key is of no use, that the feature gate is sound, how    *)
(* many requests the limiter lets pass and whom it refuses, and what is    *)
(* metered.                                                                *)
(***************************************************************************)
EXTENDS RequestChain, TLAPS, FiniteSetTheorems

-----------------------------------------------------------------------------
(* Where a request is in its chain.                                        *)

\* The layers of every chain, one by one.
LEMMA ChainLayers ==
    ASSUME NEW route \in Route
    PROVE  /\ Chain(route)[1] = "auth"
           /\ Chain(route)[2] = "limit"
           /\ Chain(route)[3] = "meter"
           /\ Chain(route)[4] = IF route = "export" THEN "feature" ELSE "role"
           /\ Chain(route)[5] = "handler"
BY DEF Chain, Route

\* The position that belongs to each layer that may stop a request.
LEMMA Positions ==
    ASSUME TypeOK, NEW r \in Requests
    PROVE  /\ Arrived(r) => req[r] \in Request
           /\ In(r, "limit") => req[r].at = 2
           /\ In(r, "role") => req[r].at = 4 /\ req[r].route # "export"
           /\ In(r, "feature") => req[r].at = 4 /\ req[r].route = "export"
           /\ In(r, "handler") => req[r].at = 5
           /\ \A l : In(r, l) => Arrived(r) /\ req[r].out = "none"
<1>1. Arrived(r) => req[r] \in Request
  BY DEF TypeOK, Arrived, NotArrived
<1>2. ASSUME Arrived(r)
      PROVE  /\ Chain(req[r].route)[req[r].at] = "limit" => req[r].at = 2
             /\ Chain(req[r].route)[req[r].at] = "role" =>
                   req[r].at = 4 /\ req[r].route # "export"
             /\ Chain(req[r].route)[req[r].at] = "feature" =>
                   req[r].at = 4 /\ req[r].route = "export"
             /\ Chain(req[r].route)[req[r].at] = "handler" => req[r].at = 5
  <2>1. req[r].route \in Route /\ req[r].at \in 2..5
    BY <1>1, <1>2 DEF Request
  <2>2. req[r].at \in {2, 3, 4, 5}
    BY <2>1
  <2> QED  BY <2>1, <2>2, ChainLayers
<1> QED  BY <1>1, <1>2 DEF In

\* Where next.ServeHTTP takes a request from each position.
LEMMA NextPositions ==
    ASSUME NEW q, q.route \in Route
    PROVE  /\ q.at = 1 => NextLayer(q) = 2
           /\ q.at = 2 => NextLayer(q) = 4
           /\ q.at = 4 => NextLayer(q) = 5
<1> DEFINE c == Chain(q.route)
<1>1. c[2] # "meter" /\ c[3] = "meter" /\ c[5] # "meter"
  BY ChainLayers
<1>2. NextLayer(q) = IF c[q.at + 1] = "meter" THEN q.at + 2 ELSE q.at + 1
  BY DEF NextLayer
<1> HIDE DEF c
<1> QED  BY <1>1, <1>2

\* A request that is passed on keeps what it is and starts in its new layer.
LEMMA ServeTo ==
    ASSUME NEW r \in Requests, NEW q \in Request, Serve(r, q), TypeOK,
           q.at \in {2, 4}
    PROVE  /\ usage' = usage
           /\ req' = [req EXCEPT ![r] = req'[r]]
           /\ req'[r] \in Request
           /\ req'[r].at = IF q.at = 2 THEN 4 ELSE 5
           /\ req'[r].sub = "first"
           /\ req'[r].out = q.out /\ req'[r].route = q.route
           /\ req'[r].target = q.target /\ req'[r].tenant = q.tenant
           /\ req'[r].role = q.role /\ req'[r].plan = q.plan
           /\ req'[r].window = q.window /\ req'[r].redis = q.redis
           /\ req'[r].made = q.made
<1>1. q.route \in Route /\ NextLayer(q) = IF q.at = 2 THEN 4 ELSE 5
  BY NextPositions DEF Request
<1>2. DOMAIN req = Requests
  BY DEF TypeOK
<1> DEFINE n == NextLayer(q)
           v == [q EXCEPT !.at = n, !.sub = "first"]
<1>3. n \in 2..5 /\ n = IF q.at = 2 THEN 4 ELSE 5
  BY <1>1
<1>4. req' = [req EXCEPT ![r] = v] /\ usage' = usage
  BY DEF Serve
<1> HIDE DEF n
<1>5. /\ v \in Request /\ v.at = n /\ v.sub = "first" /\ v.out = q.out
      /\ v.route = q.route /\ v.target = q.target /\ v.tenant = q.tenant
      /\ v.role = q.role /\ v.plan = q.plan
      /\ v.window = q.window /\ v.redis = q.redis /\ v.made = q.made
  BY <1>3 DEF Request
<1> HIDE DEF v
<1>6. req'[r] = v
  BY <1>2, <1>4
<1> QED  BY <1>3, <1>4, <1>5, <1>6

\* A request that is answered keeps what it is and where it is.
LEMMA AnswerTo ==
    ASSUME NEW r \in Requests, NEW q \in Request, NEW out, Answer(r, q, out), TypeOK,
           out \in {"ok", "403", "404", "429", "500"}
    PROVE  /\ usage' \in [Requests -> {"none", "started"}]
           /\ req' = [req EXCEPT ![r] = req'[r]]
           /\ req'[r] \in Request
           /\ req'[r].out = out
           /\ req'[r].at = q.at /\ req'[r].sub = q.sub /\ req'[r].route = q.route
           /\ req'[r].target = q.target /\ req'[r].tenant = q.tenant
           /\ req'[r].role = q.role /\ req'[r].plan = q.plan
           /\ req'[r].window = q.window /\ req'[r].redis = q.redis
           /\ req'[r].made = q.made
<1>1. DOMAIN req = Requests
  BY DEF TypeOK
<1> DEFINE v == [q EXCEPT !.out = out]
<1>2. req' = [req EXCEPT ![r] = v]
  BY DEF Answer
<1>3. usage' \in [Requests -> {"none", "started"}]
  BY DEF Answer, TypeOK
<1>4. /\ v \in Request /\ v.out = out
      /\ v.at = q.at /\ v.sub = q.sub /\ v.route = q.route
      /\ v.target = q.target /\ v.tenant = q.tenant
      /\ v.role = q.role /\ v.plan = q.plan
      /\ v.window = q.window /\ v.redis = q.redis /\ v.made = q.made
  BY DEF Request
<1> HIDE DEF v
<1>5. req'[r] = v
  BY <1>1, <1>2
<1> QED  BY <1>2, <1>3, <1>4, <1>5

-----------------------------------------------------------------------------
(* The inductive invariant.                                                *)

\* What a request knows about the key it is after.
KeyOK(r) ==
    LET q == req[r]
    IN  /\ q.at = 5 /\ q.route # "export" => q.role = "developer"
        /\ q.sub = "expire" => q.at = 2
        /\ q.sub = "deactivate" =>
              /\ q.at = 5 /\ q.route \in Targeted
              /\ key[q.target].state # "none" /\ key[q.target].tenant = q.tenant
        /\ q.sub = "create" =>
              q.at = 5 /\ q.route = "rotate" /\ key[q.target].state = "revoked"
        /\ q.out = "ok" /\ q.route \in Targeted => key[q.target].state = "revoked"

\* What the gate would decide is covered by the tenant's history.
EntitledOK(r) ==
    LET q == req[r]
    IN  q.route = "export" =>
          /\ q.at \in {2, 4} /\ q.out = "none" /\ HasFeature(q.tenant, q.plan)
                => entitled[r]
          /\ q.at = 5 => entitled[r]

IInv ==
    /\ TypeOK
    /\ \A r \in Requests : Arrived(r) => KeyOK(r) /\ EntitledOK(r)

\* Rows of api_keys are never lost, given away or revived.
KeysGrow ==
    \A k \in Keys : key[k].state # "none" =>
        /\ key'[k].state # "none" /\ key'[k].tenant = key[k].tenant
        /\ key[k].state = "revoked" => key'[k].state = "revoked"

\* A step of one request: the others keep their part of the invariant.
LEMMA OthersKeep ==
    ASSUME IInv, NEW r \in Requests, KeysGrow,
           plan' = plan, grant' = grant,
           req' = [req EXCEPT ![r] = req'[r]],
           \A q \in Requests : q # r => entitled'[q] = entitled[q],
           TypeOK', KeyOK(r)', EntitledOK(r)'
    PROVE  IInv'
<1> SUFFICES ASSUME NEW q \in Requests, q # r, Arrived(q)'
             PROVE  KeyOK(q)' /\ EntitledOK(q)'
  BY DEF IInv
<1>1. req'[q] = req[q]
  BY DEF IInv, TypeOK
<1>2. Arrived(q) /\ req[q] \in Request /\ KeyOK(q) /\ EntitledOK(q)
  BY <1>1, Positions DEF IInv, Arrived
<1>3. req[q].target \in Keys
  BY <1>2 DEF Request
<1>4. KeyOK(q)'
  BY <1>1, <1>2, <1>3 DEF KeyOK, KeysGrow
<1>5. EntitledOK(q)'
  BY <1>1, <1>2 DEF EntitledOK, HasFeature
<1> QED  BY <1>4, <1>5

-----------------------------------------------------------------------------
(* One step of a request in each layer.                                    *)

\* A credential names a tenant, its key, and a role.
LEMMA CredentialType ==
    ASSUME TypeOK, NEW c \in Credentials
    PROVE  /\ c.tenant \in Tenants /\ c.by \in 0..NumKeys
           /\ c.role \in {"viewer", "developer"}
           /\ c.by # 0 => c.by \in Keys /\ key[c.by].state = "live"
<1>1. CASE \E k \in Keys : key[k].state = "live"
                /\ c = [by |-> k, tenant |-> key[k].tenant, role |-> "developer"]
  <2>1. PICK k \in Keys : key[k].state = "live"
                /\ c = [by |-> k, tenant |-> key[k].tenant, role |-> "developer"]
    BY <1>1
  <2>2. key[k].tenant \in Tenants
    BY DEF TypeOK
  <2>3. k \in 0..NumKeys
    BY BoundsAssumption DEF Keys
  <2> QED  BY <2>1, <2>2, <2>3
<1>2. CASE \E d \in Tokens : c = [by |-> 0, tenant |-> d.tenant, role |-> d.role]
  <2>1. PICK d \in Tokens : c = [by |-> 0, tenant |-> d.tenant, role |-> d.role]
    BY <1>2
  <2>2. d.tenant \in Tenants /\ d.role \in {"viewer", "developer"}
    BY TokensAssumption
  <2>3. 0 \in 0..NumKeys
    BY BoundsAssumption
  <2> QED  BY <2>1, <2>2, <2>3
<1> QED  BY <1>1, <1>2 DEF Credentials

\* A new request: it knows nothing of the key yet, and its history says
\* whether its tenant has the feature now.
LEMMA AuthStep ==
    ASSUME IInv, NEW r \in Requests, NEW route \in Route, NEW target \in Keys,
           NEW c \in Credentials, Auth(r, route, target, c)
    PROVE  IInv'
<1> DEFINE no == FALSE
           p == IF route = "export" THEN plan[c.tenant] ELSE "free"
           a == [route |-> route, target |-> target, by |-> c.by,
                 tenant |-> c.tenant, role |-> c.role, plan |-> p,
                 at |-> 1, sub |-> "first", window |-> window,
                 redis |-> "none", made |-> no, out |-> "none"]
           v == [a EXCEPT !.at = 2, !.sub = "first"]
<1>1. c.tenant \in Tenants /\ c.by \in 0..NumKeys /\ c.role \in {"viewer", "developer"}
  BY CredentialType DEF IInv
<1>2. NextLayer(a) = 2
  BY NextPositions
<1>3. /\ p \in {"free", "pro"} /\ window \in Windows
      /\ route = "export" => p = plan[c.tenant]
  BY <1>1 DEF IInv, TypeOK
<1>14. no \in BOOLEAN
  OBVIOUS
<1> HIDE DEF p, no
<1>4. v \in Request /\ v.at = 2 /\ v.sub = "first" /\ v.out = "none" /\ v.route = route
      /\ v.tenant = c.tenant /\ (route = "export" => v.plan = plan[c.tenant])
  <2> DEFINE b == [a EXCEPT !.at = 2]
  <2>1. b \in Request /\ b.at = 2 /\ b.sub = "first" /\ b.out = "none" /\ b.route = route
        /\ b.tenant = c.tenant /\ b.plan = p
    BY <1>1, <1>3, <1>14 DEF Request
  <2>2. v = [b EXCEPT !.sub = "first"]
    OBVIOUS
  <2> HIDE DEF b, v
  <2> QED  BY <1>3, <2>1, <2>2 DEF Request
<1>5. req' = [req EXCEPT ![r] = v] /\ usage' = usage
  <2> DEFINE n == NextLayer(a)
  <2>1. req' = [req EXCEPT ![r] = [a EXCEPT !.at = n, !.sub = "first"]] /\ usage' = usage
    BY DEF Auth, Serve, p, no
  <2>2. n = 2
    BY <1>2
  <2> HIDE DEF n
  <2>3. [a EXCEPT !.at = n, !.sub = "first"] = v
    BY <2>2
  <2> QED  BY <2>1, <2>3
<1> HIDE DEF v, a
<1>6. req'[r] = v
  BY <1>5 DEF IInv, TypeOK
<1>7. /\ entitled' = [entitled EXCEPT ![r] = /\ route = "export"
                                             /\ HasFeature(c.tenant, plan[c.tenant])]
      /\ UNCHANGED <<key, counter, window, plan, grant>>
  BY DEF Auth
<1>8. HasFeature(c.tenant, plan[c.tenant]) \in BOOLEAN
  BY <1>1 DEF HasFeature, IInv, TypeOK
<1>9. entitled' \in [Requests -> BOOLEAN]
      /\ entitled'[r] = (route = "export" /\ HasFeature(c.tenant, plan[c.tenant]))
      /\ \A q \in Requests : q # r => entitled'[q] = entitled[q]
  BY <1>7, <1>8 DEF IInv, TypeOK
<1>10. TypeOK'
  BY <1>4, <1>5, <1>7, <1>9 DEF IInv, TypeOK
<1>11. KeyOK(r)'
  BY <1>4, <1>6 DEF KeyOK
<1>12. EntitledOK(r)'
  BY <1>4, <1>6, <1>7, <1>9 DEF EntitledOK, HasFeature
<1>13. KeysGrow
  BY <1>7 DEF KeysGrow
<1> QED  BY <1>5, <1>6, <1>7, <1>9, <1>10, <1>11, <1>12, <1>13, OthersKeep

\* RateLimit's commands.
LEMMA LimitStep ==
    ASSUME IInv, NEW r \in Requests,
           Incr(r) \/ IncrAgain(r) \/ IncrFails(r) \/ Expire(r)
    PROVE  IInv'
<1> USE DEF IInv
<1>1. /\ In(r, "limit") /\ req[r] \in Request /\ req[r].at = 2 /\ req[r].out = "none"
      /\ Arrived(r) /\ EntitledOK(r)
  BY Positions DEF Incr, IncrAgain, IncrFails, Expire
<1>2. UNCHANGED <<key, window, plan, grant, entitled>>
  BY DEF Incr, IncrAgain, IncrFails, Expire
<1>3. Identity(r) \in Identities /\ req[r].window \in Windows
  BY <1>1 DEF Identity, Identities, Request
<1> DEFINE Cells == [n : Nat, ttl : BOOLEAN]
<1>4. counter' \in [Identities -> [Windows -> Cells]]
  <2>1. counter \in [Identities -> [Windows -> Cells]]
    BY DEF TypeOK
  <2> DEFINE i == Identity(r)
             w == req[r].window
             m == counter[i][w].n + 1
  <2>2. i \in Identities /\ w \in Windows
    BY <1>3
  <2>3. counter[i][w] \in Cells /\ m \in Nat
    BY <2>1, <2>2
  <2>4. \/ counter' = counter
        \/ counter' = [counter EXCEPT ![i][w].n = m]
        \/ counter' = [counter EXCEPT ![i][w].ttl = TRUE]
    BY DEF Incr, IncrAgain, IncrFails, Expire
  <2> HIDE DEF i, w, m
  <2>5. CASE counter' = [counter EXCEPT ![i][w].n = m]
    <3>1. [counter[i][w] EXCEPT !.n = m] \in Cells
      BY <2>3
    <3>2. counter' = [counter EXCEPT ![i] =
                        [counter[i] EXCEPT ![w] = [counter[i][w] EXCEPT !.n = m]]]
      BY <2>5, <2>1, <2>2
    <3> HIDE DEF Cells
    <3> QED  BY <2>1, <2>2, <3>1, <3>2
  <2>6. CASE counter' = [counter EXCEPT ![i][w].ttl = TRUE]
    <3>1. [counter[i][w] EXCEPT !.ttl = TRUE] \in Cells
      BY <2>3
    <3>2. counter' = [counter EXCEPT ![i] =
                        [counter[i] EXCEPT ![w] = [counter[i][w] EXCEPT !.ttl = TRUE]]]
      BY <2>6, <2>1, <2>2
    <3> HIDE DEF Cells
    <3> QED  BY <2>1, <2>2, <3>1, <3>2
  <2> QED  BY <2>1, <2>4, <2>5, <2>6
<1>5. \E rd \in {"counted", "retried", "failed", "kept", "none"}, md \in BOOLEAN :
        LET q == [req[r] EXCEPT !.redis = rd, !.made = md]
        IN  \/ Serve(r, q)
            \/ q.sub = "first" /\ Answer(r, q, "429")
            \/ Goto(r, [q EXCEPT !.sub = "expire"])
            \/ q.sub = "first" /\ Goto(r, q)
  <2> DEFINE n == counter[Identity(r)][req[r].window].n + 1
  <2>1. CASE Incr(r)
    <3> DEFINE rd == IF req[r].redis = "none" THEN "counted" ELSE req[r].redis
               md == req[r].made \/ n = 1
    <3>1. rd \in {"counted", "retried", "failed", "kept", "none"} /\ md \in BOOLEAN
      BY <1>1 DEF Request
    <3>2. LET q == [req[r] EXCEPT !.redis = rd, !.made = md]
          IN  \/ Serve(r, q)
              \/ q.sub = "first" /\ Answer(r, q, "429")
              \/ Goto(r, [q EXCEPT !.sub = "expire"])
      BY <2>1 DEF Incr
    <3> HIDE DEF rd, md
    <3> QED  BY <3>1, <3>2
  <2>2. CASE IncrAgain(r)
    <3> DEFINE md == n = 1
    <3>1. md \in BOOLEAN
      OBVIOUS
    <3>2. req[r].sub = "first" /\ Goto(r, [req[r] EXCEPT !.redis = "retried", !.made = md])
      BY <2>2 DEF IncrAgain
    <3> HIDE DEF md
    <3> QED  BY <1>1, <3>1, <3>2 DEF Request
  <2>3. CASE IncrFails(r)
    <3>1. [req[r] EXCEPT !.redis = "failed"]
             = [req[r] EXCEPT !.redis = "failed", !.made = req[r].made]
      BY <1>1 DEF Request
    <3>2. req[r].made \in BOOLEAN /\ Serve(r, [req[r] EXCEPT !.redis = "failed"])
      BY <1>1, <2>3 DEF IncrFails, Request
    <3> QED  BY <3>1, <3>2
  <2>4. CASE Expire(r)
    <3>1. \A rd \in {"counted", "retried", "failed", "kept", "none"} :
             [req[r] EXCEPT !.redis = rd]
                = [req[r] EXCEPT !.redis = rd, !.made = req[r].made]
      BY <1>1 DEF Request
    <3>2. /\ req[r].redis \in {"counted", "retried", "failed", "kept", "none"}
          /\ req[r] = [req[r] EXCEPT !.redis = req[r].redis]
          /\ req[r].made \in BOOLEAN
      BY <1>1 DEF Request
    <3>3. Serve(r, req[r]) \/ Serve(r, [req[r] EXCEPT !.redis = "kept"])
      BY <2>4 DEF Expire
    <3>4. CASE Serve(r, req[r])
      <4>1. req[r] = [req[r] EXCEPT !.redis = req[r].redis, !.made = req[r].made]
        BY <3>1, <3>2
      <4>2. Serve(r, [req[r] EXCEPT !.redis = req[r].redis, !.made = req[r].made])
        BY <3>4, <4>1
      <4> QED  BY <3>2, <4>2
    <3>5. CASE Serve(r, [req[r] EXCEPT !.redis = "kept"])
      <4>1. Serve(r, [req[r] EXCEPT !.redis = "kept", !.made = req[r].made])
        BY <3>1, <3>5
      <4> QED  BY <3>2, <4>1
    <3> QED  BY <3>3, <3>4, <3>5
  <2> QED  BY <2>1, <2>2, <2>3, <2>4
<1>6. PICK rd \in {"counted", "retried", "failed", "kept", "none"}, md \in BOOLEAN :
        LET q == [req[r] EXCEPT !.redis = rd, !.made = md]
        IN  \/ Serve(r, q)
            \/ q.sub = "first" /\ Answer(r, q, "429")
            \/ Goto(r, [q EXCEPT !.sub = "expire"])
            \/ q.sub = "first" /\ Goto(r, q)
  BY <1>5
<1> DEFINE q == [req[r] EXCEPT !.redis = rd, !.made = md]
<1>7. /\ q \in Request /\ q.at = 2 /\ q.out = "none" /\ q.route = req[r].route
      /\ q.tenant = req[r].tenant /\ q.plan = req[r].plan
  BY <1>1 DEF Request
<1> HIDE DEF q
<1>8. /\ usage' \in [Requests -> {"none", "started"}]
      /\ req' = [req EXCEPT ![r] = req'[r]]
      /\ req'[r] \in Request
      /\ req'[r].sub \in {"first", "expire"} /\ req'[r].out \in {"none", "429"}
      /\ req'[r].sub = "expire" => req'[r].at = 2
      /\ req'[r].at \in {2, 4} /\ req'[r].route = req[r].route
      /\ req'[r].tenant = req[r].tenant /\ req'[r].plan = req[r].plan
  <2>1. CASE Serve(r, q)
    BY <2>1, <1>7, ServeTo DEF TypeOK
  <2>2. CASE q.sub = "first" /\ Answer(r, q, "429")
    BY <2>2, <1>7, AnswerTo
  <2>3. CASE Goto(r, [q EXCEPT !.sub = "expire"])
    <3> DEFINE v == [q EXCEPT !.sub = "expire"]
    <3>1. v \in Request /\ v.sub = "expire" /\ v.at = 2 /\ v.out = "none"
          /\ v.route = q.route /\ v.tenant = q.tenant /\ v.plan = q.plan
      BY <1>7 DEF Request
    <3>2. req' = [req EXCEPT ![r] = v] /\ usage' = usage
      BY <2>3 DEF Goto
    <3> HIDE DEF v
    <3>3. req'[r] = v
      BY <3>2 DEF TypeOK
    <3> QED  BY <1>7, <3>1, <3>2, <3>3 DEF TypeOK
  <2>4. CASE q.sub = "first" /\ Goto(r, q)
    <3>1. req' = [req EXCEPT ![r] = q] /\ usage' = usage
      BY <2>4 DEF Goto
    <3>2. req'[r] = q
      BY <3>1 DEF TypeOK
    <3> QED  BY <1>7, <2>4, <3>1, <3>2 DEF TypeOK
  <2> QED  BY <1>6, <2>1, <2>2, <2>3, <2>4 DEF q
<1>9. TypeOK'
  BY <1>2, <1>4, <1>8 DEF TypeOK
<1>10. KeyOK(r)'
  BY <1>8 DEF KeyOK
<1>11. EntitledOK(r)'
  BY <1>1, <1>2, <1>8 DEF EntitledOK, HasFeature
<1>12. KeysGrow
  BY <1>2 DEF KeysGrow
<1> QED  BY <1>2, <1>8, <1>9, <1>10, <1>11, <1>12, OthersKeep

\* RequireRole and RequireFeature.
LEMMA GateStep ==
    ASSUME IInv, NEW r \in Requests, RequireRole(r) \/ RequireFeature(r)
    PROVE  IInv'
<1> USE DEF IInv
<1> DEFINE admits == IF req[r].route = "export"
                     THEN HasFeature(req[r].tenant, req[r].plan)
                     ELSE req[r].role = "developer"
<1>1. /\ req[r] \in Request /\ req[r].at = 4 /\ req[r].out = "none"
      /\ Arrived(r) /\ KeyOK(r) /\ EntitledOK(r)
  BY Positions DEF RequireRole, RequireFeature
<1>2. (Serve(r, req[r]) /\ admits) \/ Answer(r, req[r], "403")
  BY Positions DEF RequireRole, RequireFeature
<1>3. UNCHANGED <<key, counter, window, plan, grant, entitled>>
  BY DEF RequireRole, RequireFeature
<1>4. /\ usage' \in [Requests -> {"none", "started"}]
      /\ req' = [req EXCEPT ![r] = req'[r]]
      /\ req'[r] \in Request
      /\ req'[r].route = req[r].route /\ req'[r].role = req[r].role
      /\ req'[r].sub = "first"
      /\ \/ req'[r].at = 5 /\ req'[r].out = "none" /\ admits
         \/ req'[r].at = 4 /\ req'[r].out = "403"
  <2>1. CASE Serve(r, req[r]) /\ admits
    BY <1>1, <2>1, ServeTo DEF TypeOK
  <2>2. CASE Answer(r, req[r], "403")
    <3>1. req[r].sub = "first"
      BY <1>1 DEF KeyOK, Request
    <3> QED  BY <1>1, <2>2, <3>1, AnswerTo
  <2> QED  BY <1>2, <2>1, <2>2
<1>5. TypeOK'
  BY <1>3, <1>4 DEF TypeOK
<1>6. KeyOK(r)'
  BY <1>4 DEF KeyOK
<1>7. EntitledOK(r)'
  BY <1>1, <1>3, <1>4 DEF EntitledOK
<1>8. KeysGrow
  BY <1>3 DEF KeysGrow
<1> QED  BY <1>3, <1>4, <1>5, <1>6, <1>7, <1>8, OthersKeep

-----------------------------------------------------------------------------
(* One step of a request in its handler.                                   *)

\* A request that is answered keeps the invariant if what the answer says of
\* its key is true.
LEMMA AnswerKeeps ==
    ASSUME IInv, NEW r \in Requests, NEW out \in {"ok", "404", "500"},
           Arrived(r), Answer(r, req[r], out),
           KeysGrow, key' \in [Keys -> [state : {"none", "live", "revoked"},
                                       tenant : Tenants]],
           UNCHANGED <<counter, window, plan, grant, entitled>>,
           out = "ok" /\ req[r].route \in Targeted =>
              key'[req[r].target].state = "revoked",
           req[r].out = "none"
    PROVE  IInv'
<1> USE DEF IInv
<1>1. req[r] \in Request /\ KeyOK(r) /\ EntitledOK(r)
  BY Positions
<1>2. /\ usage' \in [Requests -> {"none", "started"}]
      /\ req' = [req EXCEPT ![r] = req'[r]]
      /\ req'[r] \in Request
      /\ req'[r].out = out
      /\ req'[r].at = req[r].at /\ req'[r].sub = req[r].sub
      /\ req'[r].route = req[r].route /\ req'[r].target = req[r].target
      /\ req'[r].tenant = req[r].tenant /\ req'[r].role = req[r].role
      /\ req'[r].plan = req[r].plan
  BY <1>1, AnswerTo
<1>3. TypeOK'
  BY <1>2 DEF TypeOK
<1>4. req[r].target \in Keys
  BY <1>1 DEF Request
<1>5. KeyOK(r)'
  BY <1>1, <1>2, <1>4 DEF KeyOK, KeysGrow
<1>6. EntitledOK(r)'
  BY <1>1, <1>2 DEF EntitledOK
<1> QED  BY <1>2, <1>3, <1>5, <1>6, OthersKeep

\* A request that goes on to the next statement of its handler keeps the
\* invariant if it knows what that statement relies on.
LEMMA GotoKeeps ==
    ASSUME IInv, NEW r \in Requests, NEW sub \in {"deactivate", "create"},
           In(r, "handler"), Goto(r, [req[r] EXCEPT !.sub = sub]),
           KeysGrow, key' \in [Keys -> [state : {"none", "live", "revoked"},
                                       tenant : Tenants]],
           UNCHANGED <<counter, window, plan, grant, entitled>>,
           sub = "deactivate" => /\ req[r].route \in Targeted
                                 /\ key'[req[r].target].state # "none"
                                 /\ key'[req[r].target].tenant = req[r].tenant,
           sub = "create" => /\ req[r].route = "rotate"
                             /\ key'[req[r].target].state = "revoked"
    PROVE  IInv'
<1> USE DEF IInv
<1>1. /\ req[r] \in Request /\ KeyOK(r) /\ EntitledOK(r)
      /\ req[r].at = 5 /\ req[r].out = "none"
  BY Positions
<1> DEFINE v == [req[r] EXCEPT !.sub = sub]
<1>2. /\ v \in Request /\ v.sub = sub /\ v.at = 5 /\ v.out = "none"
      /\ v.route = req[r].route /\ v.target = req[r].target
      /\ v.tenant = req[r].tenant /\ v.role = req[r].role /\ v.plan = req[r].plan
  BY <1>1 DEF Request
<1>3. req' = [req EXCEPT ![r] = v] /\ usage' = usage
  BY DEF Goto
<1> HIDE DEF v
<1>4. req'[r] = v
  BY <1>3 DEF TypeOK
<1>5. TypeOK'
  BY <1>2, <1>3 DEF TypeOK
<1>6. KeyOK(r)'
  BY <1>1, <1>2, <1>4 DEF KeyOK
<1>7. EntitledOK(r)'
  BY <1>1, <1>2, <1>4 DEF EntitledOK
<1> QED  BY <1>3, <1>4, <1>5, <1>6, <1>7, OthersKeep

\* The handlers' statements, and those that fail.
LEMMA HandlerStep ==
    ASSUME IInv, NEW r \in Requests,
           \/ ServeExport(r) \/ ReadKey(r) \/ DeactivateKey(r)
           \/ CreateKey(r) \/ StatementFails(r)
    PROVE  IInv'
<1> USE DEF IInv
<1> DEFINE Rows == [Keys -> [state : {"none", "live", "revoked"}, tenant : Tenants]]
<1>1. key \in Rows
  BY DEF TypeOK
<1>2. key' = key => KeysGrow /\ key' \in Rows
  BY <1>1 DEF KeysGrow
<1>3. /\ Arrived(r) /\ req[r] \in Request /\ KeyOK(r) /\ req[r].out = "none"
      /\ req[r].target \in Keys
  <2>1. Arrived(r) /\ req[r].out = "none"
    BY Positions DEF ServeExport, ReadKey, DeactivateKey, CreateKey,
                     StatementFails, AtHandler
  <2> QED  BY <2>1, Positions DEF Request
<1>4. CASE ServeExport(r)
  <2>1. Answer(r, req[r], "ok") /\ req[r].route \notin Targeted
        /\ UNCHANGED <<key, counter, window, plan, grant, entitled>>
    BY <1>4 DEF ServeExport, AtHandler, Targeted
  <2> QED  BY <1>2, <1>3, <2>1, AnswerKeeps
<1>5. CASE ReadKey(r)
  <2>1. In(r, "handler") /\ req[r].route \in Targeted
        /\ UNCHANGED <<key, counter, window, plan, grant, entitled>>
    BY <1>5 DEF ReadKey, AtHandler
  <2>2. CASE FindKey(r)
    <3>1. Goto(r, [req[r] EXCEPT !.sub = "deactivate"])
      BY <1>5, <2>2 DEF ReadKey
    <3> QED  BY <1>2, <2>1, <2>2, <3>1, GotoKeeps DEF FindKey
  <2>3. CASE ~FindKey(r)
    <3>1. Answer(r, req[r], "404")
      BY <1>5, <2>3 DEF ReadKey
    <3> QED  BY <1>2, <1>3, <2>1, <3>1, AnswerKeeps
  <2> QED  BY <2>2, <2>3
<1>6. CASE DeactivateKey(r)
  <2> DEFINE k == req[r].target
  <2>1. /\ In(r, "handler") /\ req[r].route \in Targeted
        /\ req[r].sub = "deactivate"
        /\ key' = [key EXCEPT ![k] = Revoked(@)]
        /\ UNCHANGED <<counter, window, plan, grant, entitled>>
    BY <1>6 DEF DeactivateKey, AtHandler
  <2>2. /\ key[k] \in [state : {"live", "revoked"}, tenant : Tenants]
        /\ key[k].tenant = req[r].tenant
    BY <1>1, <1>3, <2>1 DEF KeyOK
  <2>3. /\ Revoked(key[k]) \in [state : {"revoked"}, tenant : Tenants]
        /\ Revoked(key[k]).tenant = key[k].tenant
    BY <2>2 DEF Revoked
  <2>4. key' \in Rows /\ KeysGrow /\ key'[k].state = "revoked"
    BY <1>1, <1>3, <2>1, <2>2, <2>3 DEF KeysGrow
  <2>5. CASE Goto(r, [req[r] EXCEPT !.sub = "create"]) /\ req[r].route = "rotate"
    BY <2>1, <2>4, <2>5, GotoKeeps
  <2>6. CASE \E out \in {"ok", "500"} : Answer(r, req[r], out)
    BY <1>3, <2>1, <2>4, <2>6, AnswerKeeps
  <2> QED  BY <1>6, <2>5, <2>6 DEF DeactivateKey
<1>7. CASE CreateKey(r)
  <2>1. PICK k \in Keys : /\ key[k].state = "none"
                          /\ key' = [key EXCEPT ![k] = [state |-> "live",
                                                        tenant |-> req[r].tenant]]
    BY <1>7 DEF CreateKey
  <2>2. req[r].tenant \in Tenants
    BY <1>3 DEF Request
  <2>3. key' \in Rows /\ KeysGrow
    BY <1>1, <2>1, <2>2 DEF KeysGrow
  <2>4. PICK out \in {"ok", "500"} : Answer(r, req[r], out)
    BY <1>7 DEF CreateKey
  <2>5. UNCHANGED <<counter, window, plan, grant, entitled>>
    BY <1>7 DEF CreateKey
  <2>6. req[r].route \in Targeted => key'[req[r].target].state = "revoked"
    <3> SUFFICES ASSUME req[r].route \in Targeted
                 PROVE  key'[req[r].target].state = "revoked"
      OBVIOUS
    <3>1. req[r].sub = "create"
      BY <1>7 DEF CreateKey, AtHandler, Targeted
    <3> QED  BY <1>3, <2>3, <3>1 DEF KeyOK, KeysGrow
  <2> QED  BY <1>3, <2>3, <2>4, <2>5, <2>6, AnswerKeeps
<1>8. CASE StatementFails(r)
  <2>1. Answer(r, req[r], "500")
        /\ UNCHANGED <<key, counter, window, plan, grant, entitled>>
    BY <1>8 DEF StatementFails
  <2> QED  BY <1>2, <1>3, <2>1, AnswerKeeps
<1> QED  BY <1>4, <1>5, <1>6, <1>7, <1>8

-----------------------------------------------------------------------------
(* The steps of the surroundings.                                          *)

\* A request that is gone keeps what it knows; nothing else moves.
LEMMA GoneStep ==
    ASSUME IInv, NEW r \in Requests, Gone(r)
    PROVE  IInv'
<1> USE DEF IInv
<1>1. /\ req[r] \in Request /\ KeyOK(r) /\ EntitledOK(r)
  BY Positions DEF Gone
<1> DEFINE v == [req[r] EXCEPT !.out = "gone", !.sub = "first"]
<1>2. /\ v \in Request /\ v.out = "gone" /\ v.at = req[r].at /\ v.sub = "first"
      /\ v.route = req[r].route /\ v.target = req[r].target
      /\ v.tenant = req[r].tenant /\ v.role = req[r].role /\ v.plan = req[r].plan
  BY <1>1 DEF Request
<1>3. /\ req' = [req EXCEPT ![r] = v]
      /\ UNCHANGED <<key, counter, window, plan, grant, entitled, usage>>
  BY DEF Gone
<1> HIDE DEF v
<1>4. req'[r] = v
  BY <1>3 DEF TypeOK
<1>5. TypeOK'
  BY <1>2, <1>3 DEF TypeOK
<1>6. KeyOK(r)'
  BY <1>1, <1>2, <1>3, <1>4 DEF KeyOK
<1>7. EntitledOK(r)'
  BY <1>1, <1>2, <1>3, <1>4 DEF EntitledOK
<1>8. KeysGrow
  BY <1>3 DEF KeysGrow
<1> QED  BY <1>3, <1>4, <1>5, <1>6, <1>7, <1>8, OthersKeep

\* The clock and Redis do not touch requests, keys or
\* entitlements.
LEMMA SurroundingsStep ==
    ASSUME IInv,
           \/ Tick
           \/ \E i \in Identities, w \in Windows : CounterExpires(i, w)
           \/ UNCHANGED vars
    PROVE  IInv'
<1> USE DEF IInv
<1>1. UNCHANGED <<key, plan, grant, req, entitled>>
  BY DEF Tick, CounterExpires, vars
<1>2. TypeOK'
  <2>2. CASE Tick
    <3>1. window + 1 \in Windows
      BY <2>2, BoundsAssumption DEF Tick, TypeOK, Windows
    <3>2. window' \in Windows /\ counter' = counter /\ usage' = usage
      BY <2>2, <3>1 DEF Tick
    <3> QED  BY <1>1, <3>2 DEF TypeOK
  <2>3. CASE \E i \in Identities, w \in Windows : CounterExpires(i, w)
    <3>1. PICK i \in Identities, w \in Windows : CounterExpires(i, w)
      BY <2>3
    <3> DEFINE Cells == [n : Nat, ttl : BOOLEAN]
    <3>2. counter \in [Identities -> [Windows -> Cells]] /\ NoCounter \in Cells
      BY DEF TypeOK, NoCounter
    <3>3. counter' = [counter EXCEPT ![i] = [counter[i] EXCEPT ![w] = NoCounter]]
      BY <3>1, <3>2 DEF CounterExpires
    <3>4. counter' \in [Identities -> [Windows -> Cells]]
      <4> HIDE DEF Cells
      <4> QED  BY <3>2, <3>3
    <3>5. window' = window /\ usage' = usage
      BY <3>1 DEF CounterExpires
    <3> QED  BY <1>1, <3>4, <3>5 DEF TypeOK
  <2>4. CASE UNCHANGED vars
    BY <2>4 DEF vars, TypeOK
  <2> QED  BY <2>2, <2>3, <2>4
<1>3. ASSUME NEW q \in Requests, Arrived(q)'
      PROVE  KeyOK(q)' /\ EntitledOK(q)'
  <2>1. Arrived(q) /\ KeyOK(q) /\ EntitledOK(q)
    BY <1>1, <1>3 DEF Arrived
  <2> QED  BY <1>1, <2>1 DEF KeyOK, EntitledOK, HasFeature
<1> QED  BY <1>2, <1>3

\* An operator may entitle the tenant of a request on its way to the gate:
\* the history takes note of that.
LEMMA OperateStep ==
    ASSUME IInv, NEW t \in Managed, Operate(t)
    PROVE  IInv'
<1> USE DEF IInv
<1>1. UNCHANGED <<key, counter, window, req, usage>>
  BY DEF Operate
<1>2. t \in Tenants
  BY ManagedAssumption
<1>3. plan' \in [Tenants -> {"free", "pro"}] /\ grant' \in [Tenants -> BOOLEAN]
  BY <1>2 DEF Operate, TypeOK
<1>4. \A u \in Tenants : u # t => plan'[u] = plan[u] /\ grant'[u] = grant[u]
  BY <1>2 DEF Operate, TypeOK
<1>5. /\ entitled' \in [Requests -> BOOLEAN]
      /\ \A q \in Requests : entitled'[q] =
            (\/ entitled[q]
             \/ /\ In(q, "limit") \/ In(q, "feature")
                /\ req[q].route = "export" /\ req[q].tenant = t
                /\ grant'[t] \/ plan'[t] = "pro")
  <2> DEFINE e(q) == \/ entitled[q]
                     \/ /\ In(q, "limit") \/ In(q, "feature")
                        /\ req[q].route = "export" /\ req[q].tenant = t
                        /\ grant'[t] \/ plan'[t] = "pro"
  <2>1. entitled' = [q \in Requests |-> e(q)]
    BY DEF Operate
  <2>2. \A q \in Requests : e(q) \in BOOLEAN
    BY DEF TypeOK
  <2> HIDE DEF e
  <2>3. /\ entitled' \in [Requests -> BOOLEAN]
        /\ \A q \in Requests : entitled'[q] = e(q)
    BY <2>1, <2>2
  <2> QED  BY <2>3 DEF e
<1>6. TypeOK'
  BY <1>1, <1>3, <1>5 DEF TypeOK
<1>7. ASSUME NEW q \in Requests, Arrived(q)'
      PROVE  KeyOK(q)' /\ EntitledOK(q)'
  <2>1. /\ Arrived(q) /\ req[q] \in Request /\ KeyOK(q) /\ EntitledOK(q)
        /\ req[q].tenant \in Tenants
    BY <1>1, <1>7, Positions DEF Arrived, Request
  <2>2. KeyOK(q)'
    BY <1>1, <2>1 DEF KeyOK
  <2>3. EntitledOK(q)'
    <3>1. SUFFICES ASSUME req[q].route = "export", req[q].at \in {2, 4},
                          req[q].out = "none", HasFeature(req[q].tenant, req[q].plan)'
                   PROVE  entitled'[q]
      BY <1>1, <1>5, <2>1 DEF EntitledOK
    <3>2. CASE req[q].tenant # t
      BY <1>1, <1>4, <1>5, <2>1, <3>1, <3>2 DEF EntitledOK, HasFeature
    <3>3. CASE req[q].tenant = t
      <4>1. In(q, "limit") \/ In(q, "feature")
        BY <2>1, <3>1, ChainLayers DEF In, Request
      <4>2. CASE req[q].plan = "pro"
        BY <1>5, <2>1, <3>1, <4>2 DEF EntitledOK, HasFeature
      <4>3. CASE grant'[t]
        BY <1>5, <3>1, <3>3, <4>1, <4>3
      <4> QED  BY <1>1, <3>1, <3>3, <4>2, <4>3 DEF HasFeature
    <3> QED  BY <3>2, <3>3
  <2> QED  BY <2>2, <2>3
<1> QED  BY <1>6, <1>7

-----------------------------------------------------------------------------
(* The theorems.                                                           *)

LEMMA InitInv == Init => IInv
<1> SUFFICES ASSUME Init PROVE IInv
  OBVIOUS
<1>1. \A r \in Requests : ~Arrived(r)
  BY DEF Init, Arrived, NotArrived
<1>2. key \in [Keys -> [state : {"none", "live", "revoked"}, tenant : Tenants]]
  <2>1. (CHOOSE t \in Tenants : TRUE) \in Tenants
    BY TenantsAssumption
  <2> QED  BY <2>1, IssuedAssumption DEF Init
<1>3. window \in Windows
  BY BoundsAssumption DEF Init, Windows
<1>4. counter \in [Identities -> [Windows -> [n : Nat, ttl : BOOLEAN]]]
  BY DEF Init, NoCounter
<1>5. TypeOK
  BY <1>2, <1>3, <1>4 DEF Init, TypeOK
<1> QED  BY <1>1, <1>5 DEF IInv

LEMMA NextInv == IInv /\ [Next]_vars => IInv'
<1> SUFFICES ASSUME IInv, [Next]_vars PROVE IInv'
  OBVIOUS
<1>1. CASE \E r \in Requests, route \in Route, k \in Keys, c \in Credentials :
             Auth(r, route, k, c)
  BY <1>1, AuthStep
<1>2. ASSUME NEW r \in Requests,
             Incr(r) \/ IncrAgain(r) \/ IncrFails(r) \/ Expire(r)
      PROVE  IInv'
  BY <1>2, LimitStep
<1>3. ASSUME NEW r \in Requests, RequireRole(r) \/ RequireFeature(r)
      PROVE  IInv'
  BY <1>3, GateStep
<1>4. ASSUME NEW r \in Requests,
             \/ ServeExport(r) \/ ReadKey(r) \/ DeactivateKey(r)
             \/ CreateKey(r) \/ StatementFails(r)
      PROVE  IInv'
  BY <1>4, HandlerStep
<1>5. ASSUME NEW r \in Requests, Gone(r)
      PROVE  IInv'
  BY <1>5, GoneStep
<1>6. CASE \/ Tick
           \/ \E i \in Identities, w \in Windows : CounterExpires(i, w)
           \/ UNCHANGED vars
  BY <1>6, SurroundingsStep
<1>7. ASSUME NEW t \in Managed, Operate(t)
      PROVE  IInv'
  BY <1>7, OperateStep
<1> QED  BY <1>1, <1>2, <1>3, <1>4, <1>5, <1>6, <1>7 DEF Next

LEMMA Inductive == Spec => []IInv
BY InitInv, NextInv, PTL DEF Spec

\* Every variable keeps its type, whatever requests, Redis and the database do.
THEOREM TypeCorrect == Spec => []TypeOK
<1>1. IInv => TypeOK
  BY DEF IInv
<1> QED  BY <1>1, Inductive, PTL

\* RequireFeature is sound although it joins the plan Auth read with a grant
\* it reads itself: the tenant of a request that reached an export handler
\* had the feature at some moment of the request.
THEOREM EntitledRequestsOnly == Spec => []EntitledWhenServed
<1>1. IInv => EntitledWhenServed
  <2> SUFFICES ASSUME IInv, NEW r \in Requests, Arrived(r),
                      req[r].route = "export", Passed(r, "feature")
               PROVE  entitled[r]
    BY DEF EntitledWhenServed
  <2>1. req[r] \in Request /\ EntitledOK(r)
    BY Positions DEF IInv
  <2>2. PICK i \in 1..(req[r].at - 1) : Chain("export")[i] = "feature"
    BY DEF Passed
  <2>3. req[r].at \in 2..5 /\ i \in 1..4
    BY <2>1 DEF Request
  <2>4. i = 4
    BY <2>2, <2>3, ChainLayers DEF Route
  <2> QED  BY <2>1, <2>3, <2>4 DEF EntitledOK
<1> QED  BY <1>1, Inductive, PTL

\* API keys change only on behalf of a developer of the tenant they belong
\* to (RequireRole, then GetByID's comparison of the tenants).
THEOREM KeysAreOwn == Spec => OwnKeysOnly
<1> DEFINE A == \A k \in Keys : key'[k] # key[k] =>
                  \E r \in Requests : /\ In(r, "handler")
                                      /\ req[r].role = "developer"
                                      /\ req[r].tenant = key'[k].tenant
<1>1. IInv /\ [Next]_vars => [A]_vars
  <2> SUFFICES ASSUME IInv, Next, NEW k \in Keys, key'[k] # key[k]
               PROVE  \E r \in Requests : /\ In(r, "handler")
                                          /\ req[r].role = "developer"
                                          /\ req[r].tenant = key'[k].tenant
    OBVIOUS
  <2>1. PICK r \in Requests : DeactivateKey(r) \/ CreateKey(r)
    BY DEF Next, Auth, Incr, IncrAgain, IncrFails, Expire, RequireRole,
           RequireFeature, ServeExport, ReadKey, StatementFails, Gone,
           Tick, CounterExpires, Operate
  <2>2. In(r, "handler") /\ req[r].route # "export"
    BY <2>1 DEF DeactivateKey, CreateKey, AtHandler, Targeted
  <2>3. req[r].role = "developer" /\ req[r] \in Request /\ KeyOK(r)
    BY <2>2, Positions DEF IInv, KeyOK
  <2>4. key \in [Keys -> [state : {"none", "live", "revoked"}, tenant : Tenants]]
    BY DEF IInv, TypeOK
  <2>5. req[r].tenant = key'[k].tenant
    <3>1. CASE DeactivateKey(r)
      <4>1. /\ req[r].sub = "deactivate"
            /\ key' = [key EXCEPT ![req[r].target] = Revoked(@)]
        BY <3>1 DEF DeactivateKey, AtHandler
      <4>2. k = req[r].target /\ key'[k] = Revoked(key[k])
        BY <2>4, <4>1
      <4>3. Revoked(key[k]).tenant = key[k].tenant
        BY <2>4 DEF Revoked
      <4> QED  BY <2>3, <4>1, <4>2, <4>3 DEF KeyOK
    <3>2. CASE CreateKey(r)
      BY <2>4, <3>2 DEF CreateKey
    <3> QED  BY <2>1, <3>1, <3>2
  <2> QED  BY <2>2, <2>3, <2>5
<1> QED  BY <1>1, Inductive, PTL DEF Spec, OwnKeysOnly

\* Whoever was told that a key is revoked can rely on it: no request is
\* authenticated with that key any more.
THEOREM RevokedKeysStayRefused == Spec => RevokedKeysAreRefused
<1> DEFINE A == \A r, q \in Requests :
                  /\ ~Arrived(r) /\ Arrived(r)'
                  /\ Arrived(q) /\ req[q].out = "ok" /\ req[q].route \in Targeted
                  => req'[r].by # req[q].target
<1>1. IInv /\ [Next]_vars => [A]_vars
  <2> SUFFICES ASSUME IInv, Next, NEW r \in Requests, NEW q \in Requests,
                      ~Arrived(r), Arrived(r)', Arrived(q),
                      req[q].out = "ok", req[q].route \in Targeted
               PROVE  req'[r].by # req[q].target
    OBVIOUS
  <2>1. key[req[q].target].state = "revoked" /\ req[q].target \in Keys
    BY Positions DEF IInv, KeyOK, Request
  <2>2. 0 \notin Keys
    BY DEF Keys
  <2>3. PICK s \in Requests, route \in Route, k \in Keys, c \in Credentials :
             Auth(s, route, k, c)
    <3>1. req'[r] # req[r]
      BY DEF Arrived
    <3>2. ASSUME NEW s \in Requests, NEW v, Arrived(s), req' = [req EXCEPT ![s] = v]
          PROVE  FALSE
      BY <3>1, <3>2 DEF IInv, TypeOK
    <3>3. ASSUME NEW s \in Requests, NEW q2, Arrived(s), Serve(s, q2)
          PROVE  FALSE
      BY <3>2, <3>3 DEF Serve
    <3>4. ASSUME NEW s \in Requests, NEW q2, NEW out, Arrived(s), Answer(s, q2, out)
          PROVE  FALSE
      BY <3>2, <3>4 DEF Answer
    <3>5. ASSUME NEW s \in Requests, NEW q2, Arrived(s), Goto(s, q2)
          PROVE  FALSE
      BY <3>2, <3>5 DEF Goto
    <3>6. ASSUME NEW s \in Requests,
                 Incr(s) \/ IncrAgain(s) \/ IncrFails(s) \/ Expire(s)
          PROVE  FALSE
      BY <3>3, <3>4, <3>5, <3>6 DEF Incr, IncrAgain, IncrFails, Expire, In
    <3>7. ASSUME NEW s \in Requests,
                 RequireRole(s) \/ RequireFeature(s) \/ StatementFails(s)
          PROVE  FALSE
      BY <3>3, <3>4, <3>7 DEF RequireRole, RequireFeature, StatementFails, In
    <3>8. ASSUME NEW s \in Requests,
                 ServeExport(s) \/ ReadKey(s) \/ DeactivateKey(s) \/ CreateKey(s)
          PROVE  FALSE
      BY <3>4, <3>5, <3>8 DEF ServeExport, ReadKey, DeactivateKey, CreateKey,
                             AtHandler, In
    <3>9. ASSUME NEW s \in Requests, Gone(s)
          PROVE  FALSE
      BY <3>1, <3>9 DEF Gone, IInv, TypeOK
    <3> QED  BY <3>1, <3>6, <3>7, <3>8, <3>9
             DEF Next, Tick, CounterExpires, Operate
  <2>4. req'[r].by = c.by
    <3> DEFINE a == [route |-> route, target |-> k, by |-> c.by,
                     tenant |-> c.tenant, role |-> c.role,
                     plan |-> IF route = "export" THEN plan[c.tenant] ELSE "free",
                     at |-> 1, sub |-> "first", window |-> window,
                     redis |-> "none", made |-> FALSE, out |-> "none"]
               n == NextLayer(a)
               v == [a EXCEPT !.at = n, !.sub = "first"]
    <3>1. req' = [req EXCEPT ![s] = v]
      BY <2>3 DEF Auth, Serve
    <3>2. s = r
      BY <3>1 DEF Arrived, IInv, TypeOK
    <3> HIDE DEF n
    <3>3. v.by = c.by
      OBVIOUS
    <3> HIDE DEF v
    <3> QED  BY <3>1, <3>2, <3>3 DEF IInv, TypeOK
  <2>5. c.by # 0 => key[c.by].state = "live"
    BY CredentialType DEF IInv
  <2> QED  BY <2>1, <2>2, <2>4, <2>5
<1> QED  BY <1>1, Inductive, PTL DEF Spec, RevokedKeysAreRefused
-----------------------------------------------------------------------------
(* The limiter's account of a tenant's requests in a window.               *)

\* Before its INCR; one whose INCR is repeated is there twice.
Asking(q) == q.at = 2 /\ q.sub = "first" /\ q.out = "none"
Counted(q) == q.redis # "none"
Doubled(q) == q.redis = "retried" /\ ~Asking(q)

\* Past the limiter, or about to be when it has set the TTL.
Admitted(q) == q.redis # "failed" /\ (q.at > 2 \/ q.sub = "expire")

Charged(t, w) == {r \in Of(t, w) : Counted(req[r])}
ChargedTwice(t, w) == {r \in Of(t, w) : Doubled(req[r])}
Through(t, w) == {r \in Of(t, w) : Admitted(req[r])}
Charge(t, w) == Cardinality(Charged(t, w)) + Cardinality(ChargedTwice(t, w))

\* Nobody will send another INCR for this window.
Over(t, w) == w < window /\ \A r \in Of(t, w) : ~(req[r].at = 2 /\ req[r].out = "none")

\* The counter never says more than was charged, and as long as it may be
\* asked it says at least how many are through.
Account(t, w) ==
    /\ IsFiniteSet(Of(t, w))
    /\ counter[t][w].n <= Charge(t, w)
    /\ Cardinality(Through(t, w)) <= Limit
    /\ Cardinality(Through(t, w)) <= counter[t][w].n \/ Over(t, w)

\* What a request at the limiter has done to the counter.
Turn(r) ==
    LET q == req[r]
    IN  /\ q.sub = "expire" => q.at = 2 /\ q.redis = "counted" /\ q.out = "none"
        /\ Asking(q) => q.redis \in {"none", "retried"}
        /\ Asking(q) /\ q.redis = "retried" => counter[q.tenant][q.window].n > 0
        /\ q.out = "429" => \A t \in Tenants, w \in Windows :
                              r \in Of(t, w) => Charge(t, w) > Limit

LimitInv ==
    /\ \A t \in Tenants, w \in Windows : Account(t, w)
    /\ \A r \in Requests : Arrived(r) => Turn(r)

\* A request is metered when its response passes UsageMetering.
Metered(r) ==
    /\ ~Arrived(r) \/ req[r].out = "none" => usage[r] = "none"
    /\ Arrived(r) /\ req[r].out = "429" => req[r].at = 2 /\ usage[r] = "none"
    /\ Arrived(r) /\ req[r].out \in {"ok", "403", "404", "500"} => usage[r] = "started"


\* Which layers a request has passed depends on where it is alone.
LEMMA PassedLayers ==
    ASSUME TypeOK, NEW r \in Requests, Arrived(r)
    PROVE  /\ Passed(r, "limit") <=> req[r].at > 2
           /\ Passed(r, "meter") <=> req[r].at > 3
           /\ Identity(r) = req[r].tenant
           /\ req[r].tenant \in Tenants /\ req[r].window \in Windows
<1>1. req[r] \in Request
  BY Positions
<1>2. req[r].at \in {2, 3, 4, 5} /\ req[r].route \in Route
  BY <1>1 DEF Request
<1> DEFINE c == Chain(req[r].route)
<1>3. c[1] = "auth" /\ c[2] = "limit" /\ c[3] = "meter"
      /\ c[4] \in {"feature", "role"} /\ c[5] = "handler"
  BY <1>2, ChainLayers
<1>4. \A l : Passed(r, l) <=> \E i \in 1..(req[r].at - 1) : c[i] = l
  BY DEF Passed
<1> HIDE DEF c
<1>5. Passed(r, "auth") /\ (Passed(r, "limit") <=> req[r].at > 2)
  BY <1>2, <1>3, <1>4
<1>6. Passed(r, "meter") <=> req[r].at > 3
  BY <1>2, <1>3, <1>4
<1> QED  BY <1>1, <1>5, <1>6 DEF Identity, Request

\* The response of a request is metered behind UsageMetering.
LEMMA AnswerMeters ==
    ASSUME TypeOK, NEW r \in Requests, Arrived(r), NEW q, NEW out, Answer(r, q, out)
    PROVE  usage' = IF req[r].at > 3 THEN [usage EXCEPT ![r] = "started"] ELSE usage
  BY PassedLayers DEF Answer

-----------------------------------------------------------------------------
(* What the steps do to a request, as far as limiter and metering care.    *)

\* A step of r alone, which stays the request of its tenant and window.
Moves(r) ==
    /\ Arrived(r) /\ req[r] \in Request /\ req[r].out = "none"
    /\ req' = [req EXCEPT ![r] = req'[r]] /\ req'[r] \in Request
    /\ req'[r].tenant = req[r].tenant /\ req'[r].window = req[r].window
    /\ window' = window

\* Behind the limiter a request is answered or goes on.
LEMMA LaterMoves ==
    ASSUME TypeOK, NEW r \in Requests,
           \/ RequireRole(r) \/ RequireFeature(r) \/ ServeExport(r) \/ ReadKey(r)
           \/ DeactivateKey(r) \/ CreateKey(r) \/ StatementFails(r)
    PROVE  /\ Moves(r) /\ UNCHANGED counter
           /\ req[r].at > 3 /\ req'[r].at > 3
           /\ req'[r].redis = req[r].redis /\ req'[r].made = req[r].made
           /\ req'[r].sub # "expire" \/ req[r].sub = "expire"
           /\ \/ req'[r].out = "none" /\ usage' = usage
              \/ /\ req'[r].out \in {"ok", "403", "404", "500"}
                 /\ usage' = [usage EXCEPT ![r] = "started"]
<1>1. /\ Arrived(r) /\ req[r] \in Request /\ req[r].out = "none"
      /\ req[r].at \in {4, 5} /\ UNCHANGED <<counter, window>>
  BY Positions DEF RequireRole, RequireFeature, ServeExport, ReadKey, DeactivateKey,
                   CreateKey, StatementFails, AtHandler
<1>2. \/ req[r].at = 4 /\ Serve(r, req[r])
      \/ \E out \in {"ok", "403", "404", "500"} : Answer(r, req[r], out)
      \/ \E sub \in {"deactivate", "create"} : Goto(r, [req[r] EXCEPT !.sub = sub])
  BY Positions DEF RequireRole, RequireFeature, ServeExport, ReadKey, DeactivateKey,
                   CreateKey, StatementFails
<1>3. CASE req[r].at = 4 /\ Serve(r, req[r])
  BY <1>1, <1>3, ServeTo DEF Moves
<1>4. ASSUME NEW out \in {"ok", "403", "404", "500"}, Answer(r, req[r], out)
      PROVE  /\ Moves(r) /\ req'[r].at > 3 /\ req'[r].redis = req[r].redis
             /\ req'[r].made = req[r].made
             /\ req'[r].sub = req[r].sub /\ req'[r].out = out
             /\ usage' = [usage EXCEPT ![r] = "started"]
  <2>1. usage' = [usage EXCEPT ![r] = "started"]
    BY <1>1, <1>4, AnswerMeters
  <2> QED  BY <1>1, <1>4, <2>1, AnswerTo DEF Moves
<1>5. ASSUME NEW sub \in {"deactivate", "create"}, Goto(r, [req[r] EXCEPT !.sub = sub])
      PROVE  /\ Moves(r) /\ req'[r].at > 3 /\ req'[r].redis = req[r].redis
             /\ req'[r].made = req[r].made
             /\ req'[r].sub = sub /\ req'[r].out = "none" /\ usage' = usage
  <2> DEFINE v == [req[r] EXCEPT !.sub = sub]
  <2>1. /\ v \in Request /\ v.sub = sub /\ v.out = "none" /\ v.at = req[r].at
        /\ v.redis = req[r].redis /\ v.made = req[r].made
        /\ v.tenant = req[r].tenant /\ v.window = req[r].window
    BY <1>1 DEF Request
  <2>2. req' = [req EXCEPT ![r] = v] /\ usage' = usage
    BY <1>5 DEF Goto
  <2> HIDE DEF v
  <2>3. req'[r] = v
    BY <2>2 DEF TypeOK
  <2>4. req' = [req EXCEPT ![r] = req'[r]]
    BY <2>2, <2>3
  <2> QED  BY <1>1, <2>1, <2>2, <2>3, <2>4 DEF Moves
<1>6. CASE \E out \in {"ok", "403", "404", "500"} : Answer(r, req[r], out)
  BY <1>1, <1>4, <1>6
<1>7. CASE \E sub \in {"deactivate", "create"} : Goto(r, [req[r] EXCEPT !.sub = sub])
  <2>1. PICK sub \in {"deactivate", "create"} : Goto(r, [req[r] EXCEPT !.sub = sub])
    BY <1>7
  <2> QED  BY <1>1, <1>5, <2>1
<1> QED  BY <1>2, <1>3, <1>6, <1>7

\* Only the counter of r's tenant and window is r's to change.
CountsTo(r, n) ==
    \A j \in Identities, v \in Windows :
        counter'[j][v].n = IF j = req[r].tenant /\ v = req[r].window
                           THEN n ELSE counter[j][v].n

OwnCounter(r, n) ==
    /\ CountsTo(r, n)
    /\ \A j \in Identities, v \in Windows : counter'[j][v].ttl = counter[j][v].ttl

\* A request at the limiter.
LEMMA AtLimiter ==
    ASSUME TypeOK, NEW r \in Requests, In(r, "limit")
    PROVE  /\ Arrived(r) /\ req[r] \in Request /\ req[r].at = 2 /\ req[r].out = "none"
           /\ Identity(r) = req[r].tenant
           /\ req[r].tenant \in Identities /\ req[r].window \in Windows
           /\ counter[req[r].tenant][req[r].window] \in [n : Nat, ttl : BOOLEAN]
<1>1. /\ Arrived(r) /\ req[r] \in Request /\ req[r].at = 2 /\ req[r].out = "none"
  BY Positions
<1>2. /\ Identity(r) = req[r].tenant
      /\ req[r].tenant \in Identities /\ req[r].window \in Windows
  BY <1>1, PassedLayers DEF Identities
<1> QED  BY <1>1, <1>2 DEF TypeOK

LEMMA CountsOne ==
    ASSUME TypeOK, NEW r \in Requests, In(r, "limit"), NEW n \in Nat,
           counter' = [counter EXCEPT ![Identity(r)][req[r].window].n = n]
    PROVE  OwnCounter(r, n)
<1> DEFINE t == req[r].tenant
           w == req[r].window
<1>1. t \in Identities /\ w \in Windows /\ Identity(r) = t
  BY AtLimiter
<1>2. counter \in [Identities -> [Windows -> [n : Nat, ttl : BOOLEAN]]]
  BY DEF TypeOK
<1>3. counter' = [counter EXCEPT ![t][w].n = n]
  BY <1>1
<1> HIDE DEF t, w
<1>4. ASSUME NEW j \in Identities, NEW v \in Windows
      PROVE  /\ counter'[j][v].n = IF j = t /\ v = w THEN n ELSE counter[j][v].n
             /\ counter'[j][v].ttl = counter[j][v].ttl
  <2>1. CASE j = t /\ v = w
    BY <1>1, <1>2, <1>3, <2>1
  <2>2. CASE j = t /\ v # w
    BY <1>1, <1>2, <1>3, <2>2
  <2>3. CASE j # t
    BY <1>1, <1>2, <1>3, <2>3
  <2> QED  BY <2>1, <2>2, <2>3
<1> QED  BY <1>4 DEF OwnCounter, CountsTo, t, w

\* INCR: the counter is one higher, and its value decides.
LEMMA IncrMoves ==
    ASSUME TypeOK, NEW r \in Requests, Incr(r)
    PROVE  LET n == counter[req[r].tenant][req[r].window].n + 1
           IN  /\ Moves(r) /\ Asking(req[r]) /\ In(r, "limit")
               /\ OwnCounter(r, n) /\ usage' = usage
               /\ req'[r].redis = IF req[r].redis = "none" THEN "counted" ELSE req[r].redis
               /\ req[r].made \/ n = 1 => req'[r].made
               /\ \/ n = 1 /\ req'[r].at = 2 /\ req'[r].sub = "expire" /\ req'[r].out = "none"
                  \/ /\ n > 1 /\ n > Limit
                     /\ req'[r].at = 2 /\ req'[r].sub = "first" /\ req'[r].out = "429"
                  \/ /\ n > 1 /\ n <= Limit
                     /\ req'[r].at = 4 /\ req'[r].sub = "first" /\ req'[r].out = "none"
<1> DEFINE n == counter[req[r].tenant][req[r].window].n + 1
           rd == IF req[r].redis = "none" THEN "counted" ELSE req[r].redis
           md == req[r].made \/ n = 1
           q == [req[r] EXCEPT !.redis = rd, !.made = md]
<1>1. In(r, "limit") /\ req[r].sub = "first" /\ window' = window
  <2> DEFINE m == counter[Identity(r)][req[r].window].n + 1
  <2>1. [req[r] EXCEPT !.redis = IF @ = "none" THEN "counted" ELSE @,
                       !.made = @ \/ m = 1].sub = req[r].sub
    BY Positions DEF Incr, Request
  <2> QED  BY <2>1 DEF Incr
<1>2. /\ Arrived(r) /\ req[r] \in Request /\ req[r].at = 2 /\ req[r].out = "none"
      /\ Identity(r) = req[r].tenant /\ n \in Nat /\ n >= 1
  BY <1>1, AtLimiter
<1>3. rd \in {"none", "counted", "retried", "failed", "kept"} /\ md \in BOOLEAN
  BY <1>2 DEF Request
<1>4. counter' = [counter EXCEPT ![Identity(r)][req[r].window].n = n]
  BY <1>2 DEF Incr
<1>5. \/ n = 1 /\ Goto(r, [q EXCEPT !.sub = "expire"])
      \/ n # 1 /\ n > Limit /\ Answer(r, q, "429")
      \/ n # 1 /\ ~(n > Limit) /\ Serve(r, q)
  BY <1>2 DEF Incr, SetsExpiry, Exceeds
<1> HIDE DEF n, rd, md
<1>6. /\ q \in Request /\ q.at = 2 /\ q.out = "none" /\ q.sub = "first" /\ q.redis = rd
      /\ q.made = md
      /\ q.tenant = req[r].tenant /\ q.window = req[r].window
  BY <1>1, <1>2, <1>3 DEF Request
<1> HIDE DEF q
<1>7. OwnCounter(r, n)
  BY <1>1, <1>2, <1>4, CountsOne
<1>8. /\ Moves(r) /\ usage' = usage /\ req'[r].redis = rd /\ req'[r].made = md
      /\ \/ n = 1 /\ req'[r].at = 2 /\ req'[r].sub = "expire" /\ req'[r].out = "none"
         \/ /\ n > 1 /\ n > Limit
            /\ req'[r].at = 2 /\ req'[r].sub = "first" /\ req'[r].out = "429"
         \/ /\ n > 1 /\ n <= Limit
            /\ req'[r].at = 4 /\ req'[r].sub = "first" /\ req'[r].out = "none"
  <2>1. CASE n = 1 /\ Goto(r, [q EXCEPT !.sub = "expire"])
    <3> DEFINE v == [q EXCEPT !.sub = "expire"]
    <3>1. /\ v \in Request /\ v.sub = "expire" /\ v.at = 2 /\ v.out = "none"
          /\ v.redis = rd /\ v.made = md
          /\ v.tenant = req[r].tenant /\ v.window = req[r].window
      BY <1>6 DEF Request
    <3>2. req' = [req EXCEPT ![r] = v] /\ usage' = usage
      BY <2>1 DEF Goto
    <3> HIDE DEF v
    <3>3. req'[r] = v
      BY <3>2 DEF TypeOK
    <3>4. req' = [req EXCEPT ![r] = req'[r]]
      BY <3>2, <3>3
    <3> QED  BY <1>1, <1>2, <2>1, <3>1, <3>2, <3>3, <3>4 DEF Moves
  <2>2. CASE n # 1 /\ n > Limit /\ Answer(r, q, "429")
    <3>1. usage' = usage
      BY <1>2, <2>2, AnswerMeters
    <3> QED  BY <1>1, <1>2, <1>6, <2>2, <3>1, AnswerTo DEF Moves
  <2>3. CASE n # 1 /\ ~(n > Limit) /\ Serve(r, q)
    <3>1. n > 1 /\ n <= Limit
      BY <1>2, <2>3, LimitAssumption
    <3> QED  BY <1>1, <1>2, <1>6, <2>3, <3>1, ServeTo DEF Moves
  <2> QED  BY <1>5, <2>1, <2>2, <2>3
<1> QED  BY <1>1, <1>2, <1>7, <1>8 DEF Asking, n, rd, md

\* An INCR whose reply is lost: the counter is one higher, r will ask again.
LEMMA IncrAgainMoves ==
    ASSUME TypeOK, NEW r \in Requests, IncrAgain(r)
    PROVE  /\ Moves(r) /\ Asking(req[r]) /\ Asking(req'[r])
           /\ OwnCounter(r, counter[req[r].tenant][req[r].window].n + 1)
           /\ usage' = usage
           /\ req[r].redis = "none" /\ req'[r].redis = "retried"
           /\ counter[req[r].tenant][req[r].window].n = 0 => req'[r].made
<1> DEFINE n == counter[req[r].tenant][req[r].window].n + 1
           md == n = 1
           v == [req[r] EXCEPT !.redis = "retried", !.made = md]
<1>1. /\ In(r, "limit") /\ req[r].sub = "first" /\ req[r].redis = "none"
      /\ window' = window /\ usage' = usage /\ req' = [req EXCEPT ![r] = v]
  BY AtLimiter DEF IncrAgain, Goto
<1>2. /\ Arrived(r) /\ req[r] \in Request /\ req[r].at = 2 /\ req[r].out = "none"
      /\ Identity(r) = req[r].tenant /\ n \in Nat /\ md \in BOOLEAN
  BY <1>1, AtLimiter
<1>8. counter[req[r].tenant][req[r].window].n = 0 => md
  OBVIOUS
<1> HIDE DEF md
<1>3. /\ v \in Request /\ v.at = 2 /\ v.out = "none" /\ v.sub = "first"
      /\ v.made = md
      /\ v.redis = "retried" /\ v.tenant = req[r].tenant /\ v.window = req[r].window
  BY <1>1, <1>2 DEF Request
<1>4. counter' = [counter EXCEPT ![Identity(r)][req[r].window].n = n]
  <2>1. req[r].tenant \in Identities /\ req[r].window \in Windows
    BY <1>1, AtLimiter
  <2> QED  BY <1>2, <2>1 DEF IncrAgain, TypeOK
<1> HIDE DEF n, v
<1>5. req'[r] = v
  BY <1>1 DEF TypeOK
<1>6. req' = [req EXCEPT ![r] = req'[r]]
  BY <1>1, <1>5
<1>7. OwnCounter(r, n)
  BY <1>1, <1>2, <1>4, CountsOne
<1> QED  BY <1>1, <1>2, <1>3, <1>5, <1>6, <1>7, <1>8 DEF Moves, Asking, n

\* Redis is not reached: r is through, and not counted on.
LEMMA IncrFailsMoves ==
    ASSUME TypeOK, NEW r \in Requests, IncrFails(r)
    PROVE  /\ Moves(r) /\ Asking(req[r]) /\ UNCHANGED <<counter, usage>>
           /\ req'[r].at = 4 /\ req'[r].sub = "first" /\ req'[r].out = "none"
           /\ req'[r].redis = "failed" /\ req'[r].made = req[r].made
<1> DEFINE q == [req[r] EXCEPT !.redis = "failed"]
<1>1. /\ In(r, "limit") /\ req[r].sub = "first" /\ Serve(r, q)
      /\ UNCHANGED <<window, counter>>
  BY DEF IncrFails
<1>2. Arrived(r) /\ req[r] \in Request /\ req[r].at = 2 /\ req[r].out = "none"
  BY <1>1, AtLimiter
<1>3. /\ q \in Request /\ q.at = 2 /\ q.out = "none" /\ q.redis = "failed"
      /\ q.made = req[r].made
      /\ q.tenant = req[r].tenant /\ q.window = req[r].window
  BY <1>2 DEF Request
<1> HIDE DEF q
<1> QED  BY <1>1, <1>2, <1>3, ServeTo DEF Moves, Asking

\* EXPIRE: the counter has its TTL now, or Redis failed.
LEMMA ExpireMoves ==
    ASSUME TypeOK, NEW r \in Requests, Expire(r)
    PROVE  /\ Moves(r) /\ usage' = usage
           /\ req[r].at = 2 /\ req[r].sub = "expire"
           /\ req'[r].at = 4 /\ req'[r].sub = "first" /\ req'[r].out = "none"
           /\ \A j \in Identities, v \in Windows :
                 /\ counter'[j][v].n = counter[j][v].n
                 /\ counter[j][v].ttl => counter'[j][v].ttl
           /\ req'[r].made = req[r].made
           /\ \/ /\ req'[r].redis = req[r].redis
                 /\ counter'[req[r].tenant][req[r].window].ttl
              \/ req'[r].redis = "kept"
<1> DEFINE t == req[r].tenant
           w == req[r].window
<1>1. In(r, "limit") /\ req[r].sub = "expire" /\ window' = window
  BY DEF Expire
<1>2. /\ Arrived(r) /\ req[r] \in Request /\ req[r].at = 2 /\ req[r].out = "none"
      /\ Identity(r) = t /\ t \in Identities /\ w \in Windows
  BY <1>1, AtLimiter
<1>3. counter \in [Identities -> [Windows -> [n : Nat, ttl : BOOLEAN]]]
  BY DEF TypeOK
<1>4. CASE counter' = [counter EXCEPT ![t][w].ttl = TRUE] /\ Serve(r, req[r])
  <2>1. counter' = [counter EXCEPT ![t][w].ttl = TRUE]
    BY <1>4
  <2> HIDE DEF t, w
  <2>2. ASSUME NEW j \in Identities, NEW v \in Windows
        PROVE  /\ counter'[j][v].n = counter[j][v].n
               /\ counter[j][v].ttl => counter'[j][v].ttl
               /\ j = t /\ v = w => counter'[j][v].ttl
    <3>1. CASE j = t /\ v = w
      BY <1>2, <1>3, <2>1, <3>1
    <3>2. CASE j = t /\ v # w
      BY <1>2, <1>3, <2>1, <3>2
    <3>3. CASE j # t
      BY <1>2, <1>3, <2>1, <3>3
    <3> QED  BY <3>1, <3>2, <3>3
  <2>3. counter'[t][w].ttl
    BY <1>2, <2>2
  <2> QED  BY <1>1, <1>2, <1>4, <2>2, <2>3, ServeTo DEF Moves, t, w
<1>5. CASE UNCHANGED counter /\ Serve(r, [req[r] EXCEPT !.redis = "kept"])
  <2> DEFINE q == [req[r] EXCEPT !.redis = "kept"]
  <2>1. /\ q \in Request /\ q.at = 2 /\ q.out = "none" /\ q.redis = "kept"
        /\ q.made = req[r].made
        /\ q.tenant = t /\ q.window = w
    BY <1>2 DEF Request
  <2>2. Serve(r, q) /\ counter' = counter
    BY <1>5
  <2> HIDE DEF q
  <2> QED  BY <1>1, <1>2, <2>1, <2>2, ServeTo DEF Moves
<1> QED  BY <1>2, <1>4, <1>5 DEF Expire

\* The process dies: r stays where it was and takes no further step.
LEMMA GoneMoves ==
    ASSUME TypeOK, NEW r \in Requests, Gone(r)
    PROVE  /\ Moves(r) /\ UNCHANGED <<counter, usage>>
           /\ req'[r].at = req[r].at /\ req'[r].sub = "first"
           /\ req'[r].redis = req[r].redis /\ req'[r].out = "gone"
           /\ req'[r].made = req[r].made
<1> DEFINE v == [req[r] EXCEPT !.out = "gone", !.sub = "first"]
<1>1. /\ Arrived(r) /\ req[r] \in Request /\ req[r].out = "none"
      /\ req' = [req EXCEPT ![r] = v] /\ UNCHANGED <<counter, window, usage>>
  BY Positions DEF Gone
<1>2. /\ v \in Request /\ v.out = "gone" /\ v.at = req[r].at /\ v.sub = "first"
      /\ v.made = req[r].made
      /\ v.redis = req[r].redis /\ v.tenant = req[r].tenant /\ v.window = req[r].window
  BY <1>1 DEF Request
<1> HIDE DEF v
<1>3. req'[r] = v
  BY <1>1 DEF TypeOK
<1>4. req' = [req EXCEPT ![r] = req'[r]]
  BY <1>1, <1>3
<1> QED  BY <1>1, <1>2, <1>3, <1>4 DEF Moves

\* A new request at the limiter of its tenant, in the current minute.
LEMMA AuthMoves ==
    ASSUME TypeOK, NEW r \in Requests, NEW route \in Route, NEW target \in Keys,
           NEW c \in Credentials, Auth(r, route, target, c)
    PROVE  /\ ~Arrived(r) /\ Arrived(r)'
           /\ req' = [req EXCEPT ![r] = req'[r]]
           /\ Asking(req'[r]) /\ req'[r].redis = "none" /\ req'[r].window = window
           /\ UNCHANGED <<counter, window, usage>>
<1> DEFINE a == [route |-> route, target |-> target, by |-> c.by,
                 tenant |-> c.tenant, role |-> c.role,
                 plan |-> IF route = "export" THEN plan[c.tenant] ELSE "free",
                 at |-> 1, sub |-> "first", window |-> window,
                 redis |-> "none", made |-> FALSE, out |-> "none"]
           v == [a EXCEPT !.at = NextLayer(a), !.sub = "first"]
<1>1. /\ ~Arrived(r) /\ UNCHANGED <<counter, window, usage>>
      /\ req' = [req EXCEPT ![r] = v]
  BY DEF Auth, Serve
<1>2. NextLayer(a) = 2
  BY NextPositions
<1>3. v.at = 2 /\ v.sub = "first" /\ v.out = "none" /\ v.redis = "none" /\ v.window = window
  BY <1>2
<1> HIDE DEF v, a
<1>4. req'[r] = v
  BY <1>1 DEF TypeOK
<1>5. req' = [req EXCEPT ![r] = req'[r]]
  BY <1>1, <1>4
<1> QED  BY <1>1, <1>3, <1>4, <1>5 DEF Asking, Arrived

-----------------------------------------------------------------------------
(* Counting.                                                               *)

\* One more element.
LEMMA OneMore ==
    ASSUME NEW S, IsFiniteSet(S), NEW T, NEW x, T \cup {x} \subseteq S, x \notin T
    PROVE  Cardinality(T) + 1 <= Cardinality(S)
<1>1. IsFiniteSet(T)
  BY FS_Subset
<1>2. IsFiniteSet(T \cup {x}) /\ Cardinality(T \cup {x}) = Cardinality(T) + 1
  BY <1>1, FS_AddElement
<1>3. Cardinality(T \cup {x}) <= Cardinality(S)
  BY FS_Subset
<1> QED  BY <1>2, <1>3

LEMMA AtMostOneMore ==
    ASSUME NEW S, IsFiniteSet(S), NEW x, NEW T, T \subseteq S \cup {x}
    PROVE  Cardinality(T) <= Cardinality(S) + 1
<1> DEFINE U == S \cup {x}
<1>1. Cardinality(S) \in Nat
  BY FS_CardinalityType
<1>2. IsFiniteSet(U) /\ Cardinality(U) = IF x \in S THEN Cardinality(S) ELSE Cardinality(S) + 1
  BY FS_AddElement
<1> HIDE DEF U
<1>3. IsFiniteSet(T) /\ Cardinality(T) <= Cardinality(U)
  BY <1>2, FS_Subset DEF U
<1>4. Cardinality(T) \in Nat
  BY <1>3, FS_CardinalityType
<1> QED  BY <1>1, <1>2, <1>3, <1>4

\* The three counts are about requests of the tenant and window.
LEMMA Counts ==
    ASSUME NEW t \in Tenants, NEW w \in Windows, IsFiniteSet(Of(t, w))
    PROVE  /\ IsFiniteSet(Charged(t, w)) /\ IsFiniteSet(ChargedTwice(t, w))
           /\ IsFiniteSet(Through(t, w))
           /\ Cardinality(Charged(t, w)) \in Nat /\ Cardinality(ChargedTwice(t, w)) \in Nat
           /\ Cardinality(Through(t, w)) \in Nat /\ Charge(t, w) \in Nat
<1>1. /\ IsFiniteSet(Charged(t, w)) /\ IsFiniteSet(ChargedTwice(t, w))
      /\ IsFiniteSet(Through(t, w))
  BY FS_Subset DEF Charged, ChargedTwice, Through
<1>2. /\ Cardinality(Charged(t, w)) \in Nat /\ Cardinality(ChargedTwice(t, w)) \in Nat
      /\ Cardinality(Through(t, w)) \in Nat
  BY <1>1, FS_CardinalityType
<1> QED  BY <1>1, <1>2 DEF Charge

\* A step of r leaves the counts of other tenants and windows alone.
LEMMA SameRequests ==
    ASSUME TypeOK, NEW r \in Requests, Moves(r), NEW t \in Tenants, NEW w \in Windows
    PROVE  /\ Arrived(r)' /\ \A q \in Requests : q # r => req'[q] = req[q]
           /\ Of(t, w)' = Of(t, w)
           /\ r \in Of(t, w) <=> req[r].tenant = t /\ req[r].window = w
           /\ r \notin Of(t, w) =>
                 /\ Charged(t, w)' = Charged(t, w)
                 /\ ChargedTwice(t, w)' = ChargedTwice(t, w)
                 /\ Through(t, w)' = Through(t, w)
                 /\ Charge(t, w)' = Charge(t, w)
                 /\ Over(t, w) => Over(t, w)'
<1>1. Arrived(r) /\ Arrived(r)'
  BY DEF Moves, Arrived, Request
<1>2. \A q \in Requests : q # r => req'[q] = req[q]
  BY DEF Moves, TypeOK
<1>3. /\ Of(t, w)' = Of(t, w)
      /\ r \in Of(t, w) <=> req[r].tenant = t /\ req[r].window = w
  BY <1>1, <1>2 DEF Of, Moves, Arrived
<1>4. ASSUME r \notin Of(t, w)
      PROVE  /\ Charged(t, w)' = Charged(t, w)
             /\ ChargedTwice(t, w)' = ChargedTwice(t, w)
             /\ Through(t, w)' = Through(t, w)
             /\ Over(t, w) => Over(t, w)'
  <2>1. \A q \in Of(t, w) : q \in Requests /\ req'[q] = req[q]
    BY <1>2, <1>4 DEF Of
  <2>2. Charged(t, w)' = Charged(t, w)
    BY <1>3, <2>1 DEF Charged
  <2>3. ChargedTwice(t, w)' = ChargedTwice(t, w)
    BY <1>3, <2>1 DEF ChargedTwice
  <2>4. Through(t, w)' = Through(t, w)
    BY <1>3, <2>1 DEF Through
  <2>5. Over(t, w) => Over(t, w)'
    BY <1>3, <2>1 DEF Over, Moves
  <2> QED  BY <2>2, <2>3, <2>4, <2>5
<1> QED  BY <1>1, <1>2, <1>3, <1>4 DEF Charge

\* Charges are not taken back.
Charging(r) ==
    /\ Counted(req[r]) => Counted(req'[r])
    /\ Doubled(req[r]) => Doubled(req'[r])

LEMMA MoveCounts ==
    ASSUME TypeOK, NEW r \in Requests, Moves(r), Charging(r),
           NEW t \in Tenants, NEW w \in Windows, IsFiniteSet(Of(t, w))
    PROVE  /\ Charged(t, w) \subseteq Charged(t, w)'
           /\ ChargedTwice(t, w) \subseteq ChargedTwice(t, w)'
           /\ IsFiniteSet(Charged(t, w)') /\ IsFiniteSet(ChargedTwice(t, w)')
           /\ IsFiniteSet(Through(t, w)')
           /\ Cardinality(Charged(t, w)') \in Nat /\ Cardinality(ChargedTwice(t, w)') \in Nat
           /\ Cardinality(Through(t, w)') \in Nat /\ Charge(t, w)' \in Nat
           /\ Cardinality(Charged(t, w)) <= Cardinality(Charged(t, w)')
           /\ Cardinality(ChargedTwice(t, w)) <= Cardinality(ChargedTwice(t, w)')
           /\ Charge(t, w) <= Charge(t, w)'
<1>1. Of(t, w)' = Of(t, w) /\ \A q \in Requests : q # r => req'[q] = req[q]
  BY SameRequests
<1>2. Charged(t, w) \subseteq Charged(t, w)'
  BY <1>1 DEF Charged, Charging, Of
<1>3. ChargedTwice(t, w) \subseteq ChargedTwice(t, w)'
  BY <1>1 DEF ChargedTwice, Charging, Of
<1>4. /\ Charged(t, w)' \subseteq Of(t, w) /\ ChargedTwice(t, w)' \subseteq Of(t, w)
      /\ Through(t, w)' \subseteq Of(t, w)
  BY <1>1 DEF Charged, ChargedTwice, Through
<1>5. /\ IsFiniteSet(Charged(t, w)') /\ IsFiniteSet(ChargedTwice(t, w)')
      /\ IsFiniteSet(Through(t, w)')
  BY <1>4, FS_Subset
<1>6. /\ Cardinality(Charged(t, w)') \in Nat /\ Cardinality(ChargedTwice(t, w)') \in Nat
      /\ Cardinality(Through(t, w)') \in Nat
  BY <1>5, FS_CardinalityType
<1>7. /\ Cardinality(Charged(t, w)) <= Cardinality(Charged(t, w)')
      /\ Cardinality(ChargedTwice(t, w)) <= Cardinality(ChargedTwice(t, w)')
  BY <1>2, <1>3, <1>5, FS_Subset
<1>8. Charge(t, w)' \in Nat /\ Charge(t, w) <= Charge(t, w)'
  BY <1>6, <1>7, Counts DEF Charge
<1> QED  BY <1>2, <1>3, <1>5, <1>6, <1>7, <1>8

\* Nobody begins to ask.
Asks(r) == req'[r].at = 2 /\ req'[r].out = "none" => req[r].at = 2 /\ req[r].out = "none"

\* What is left to show of a step of r: its own account and its own turn.
LEMMA MoveKeeps ==
    ASSUME TypeOK, LimitInv, NEW r \in Requests, Moves(r), Charging(r),
           NEW n \in Nat, CountsTo(r, n), n >= counter[req[r].tenant][req[r].window].n,
           \A t \in Tenants, w \in Windows : r \in Of(t, w) => Account(t, w)',
           Turn(r)'
    PROVE  LimitInv'
<1>1. ASSUME NEW t \in Tenants, NEW w \in Windows PROVE Account(t, w)'
  <2>1. CASE r \in Of(t, w)
    BY <2>1
  <2>2. CASE r \notin Of(t, w)
    <3>1. Account(t, w)
      BY DEF LimitInv
    <3>2. counter'[t][w].n = counter[t][w].n
      BY <2>2, SameRequests DEF CountsTo, Identities
    <3> QED  BY <2>2, <3>1, <3>2, SameRequests DEF Account
  <2> QED  BY <2>1, <2>2
<1>2. ASSUME NEW q \in Requests, q # r, Arrived(q)'
      PROVE  Turn(q)'
  <2>1. req'[q] = req[q] /\ Arrived(q)
    BY <1>2 DEF Arrived, Moves, TypeOK
  <2>2. Turn(q) /\ req[q].tenant \in Tenants /\ req[q].window \in Windows
    BY <2>1, PassedLayers DEF LimitInv
  <2>3. counter'[req[q].tenant][req[q].window].n
           >= counter[req[q].tenant][req[q].window].n
    BY <2>2 DEF CountsTo, TypeOK, Identities
  <2>4. counter'[req[q].tenant][req[q].window].n \in Nat
        /\ counter[req[q].tenant][req[q].window].n \in Nat
    BY <2>2 DEF CountsTo, TypeOK, Identities
  <2>5. ASSUME NEW t \in Tenants, NEW w \in Windows, q \in Of(t, w)', req[q].out = "429"
        PROVE  Charge(t, w)' > Limit
    <3>1. q \in Of(t, w) /\ IsFiniteSet(Of(t, w))
      BY <2>5, SameRequests DEF LimitInv, Account
    <3>2. Charge(t, w) > Limit
      BY <2>2, <2>5, <3>1 DEF Turn
    <3> QED  BY <3>1, <3>2, MoveCounts, Counts, LimitAssumption
  <2> QED  BY <2>1, <2>2, <2>3, <2>4, <2>5 DEF Turn
<1> QED  BY <1>1, <1>2 DEF LimitInv

\* Nothing that the limiter cares about, but perhaps fewer that still ask.
LEMMA QuietKeeps ==
    ASSUME TypeOK, LimitInv, NEW r \in Requests, Moves(r), Charging(r), Asks(r),
           Admitted(req'[r]) => Admitted(req[r]),
           \A j \in Identities, v \in Windows : counter'[j][v].n = counter[j][v].n,
           req'[r].sub # "expire",
           Asking(req'[r]) => FALSE,
           req'[r].out # "429"
    PROVE  LimitInv'
<1> DEFINE n == counter[req[r].tenant][req[r].window].n
<1>1. req[r].tenant \in Tenants /\ req[r].window \in Windows
  BY DEF Moves, Request
<1>2. n \in Nat /\ CountsTo(r, n)
  BY <1>1 DEF CountsTo, TypeOK, Identities
<1>3. Turn(r)'
  BY DEF Turn
<1>4. ASSUME NEW t \in Tenants, NEW w \in Windows
      PROVE  Account(t, w)'
  <2>1. Account(t, w)
    BY DEF LimitInv
  <2>2. Of(t, w)' = Of(t, w) /\ \A q \in Requests : q # r => req'[q] = req[q]
    BY SameRequests
  <2>3. IsFiniteSet(Of(t, w)')
    BY <2>1, <2>2 DEF Account
  <2>4. counter'[t][w].n = counter[t][w].n /\ counter[t][w].n \in Nat
    BY DEF TypeOK, Identities
  <2>5. Through(t, w)' \subseteq Through(t, w)
    BY <2>2 DEF Through, Of
  <2>6. Cardinality(Through(t, w)') <= Cardinality(Through(t, w))
    BY <2>1, <2>5, Counts, FS_Subset DEF Account
  <2>7. Over(t, w) => Over(t, w)'
    BY <2>2 DEF Over, Asks, Moves, Of
  <2>8. IsFiniteSet(Of(t, w))
    BY <2>1 DEF Account
  <2>9. /\ Charge(t, w) <= Charge(t, w)' /\ Charge(t, w)' \in Nat /\ Charge(t, w) \in Nat
        /\ Cardinality(Through(t, w)') \in Nat /\ Cardinality(Through(t, w)) \in Nat
    BY <2>8, MoveCounts, Counts
  <2> QED  BY <2>1, <2>3, <2>4, <2>6, <2>7, <2>9, LimitAssumption DEF Account
<1> HIDE DEF n
<1>5. n >= n
  BY <1>2
<1> QED  BY <1>2, <1>3, <1>4, <1>5, MoveKeeps DEF n

\* An INCR that is accounted for.
LEMMA ChargeOne ==
    ASSUME TypeOK, NEW r \in Requests, Moves(r), Charging(r),
           NEW t \in Tenants, NEW w \in Windows, IsFiniteSet(Of(t, w)), r \in Of(t, w),
           \/ ~Counted(req[r]) /\ Counted(req'[r])
           \/ ~Doubled(req[r]) /\ Doubled(req'[r])
    PROVE  Charge(t, w) + 1 <= Charge(t, w)'
<1>1. Of(t, w)' = Of(t, w)
  BY SameRequests
<1>2. CASE ~Counted(req[r]) /\ Counted(req'[r])
  <2>1. r \notin Charged(t, w) /\ r \in Charged(t, w)'
    BY <1>1, <1>2 DEF Charged
  <2>2. Cardinality(Charged(t, w)) + 1 <= Cardinality(Charged(t, w)')
    BY <2>1, MoveCounts, OneMore
  <2> QED  BY <2>2, MoveCounts, Counts DEF Charge
<1>3. CASE ~Doubled(req[r]) /\ Doubled(req'[r])
  <2>1. r \notin ChargedTwice(t, w) /\ r \in ChargedTwice(t, w)'
    BY <1>1, <1>3 DEF ChargedTwice
  <2>2. Cardinality(ChargedTwice(t, w)) + 1 <= Cardinality(ChargedTwice(t, w)')
    BY <2>1, MoveCounts, OneMore
  <2> QED  BY <2>2, MoveCounts, Counts DEF Charge
<1> QED  BY <1>2, <1>3

\* A request that still asks keeps its window open.
LEMMA AskingOpens ==
    ASSUME TypeOK, LimitInv, NEW r \in Requests, Arrived(r), Asking(req[r]),
           NEW t \in Tenants, NEW w \in Windows, r \in Of(t, w)
    PROVE  /\ IsFiniteSet(Of(t, w))
           /\ req[r].tenant = t /\ req[r].window = w
           /\ counter[t][w].n \in Nat /\ counter[t][w].n <= Charge(t, w)
           /\ Cardinality(Through(t, w)) <= counter[t][w].n
           /\ Cardinality(Through(t, w)) <= Limit
           /\ r \notin Through(t, w)
<1>1. ~Over(t, w)
  BY DEF Over, Asking
<1>2. Account(t, w)
  BY DEF LimitInv
<1>3. counter[t][w].n \in Nat
  BY DEF TypeOK, Identities
<1>4. r \notin Through(t, w)
  BY DEF Through, Admitted, Asking
<1> QED  BY <1>1, <1>2, <1>3, <1>4 DEF Account, Of

LEMMA IncrKeeps ==
    ASSUME TypeOK, LimitInv, NEW r \in Requests, Incr(r)
    PROVE  LimitInv'
<1> DEFINE n == counter[req[r].tenant][req[r].window].n + 1
<1>1. /\ Moves(r) /\ Asking(req[r]) /\ CountsTo(r, n)
      /\ req'[r].redis = IF req[r].redis = "none" THEN "counted" ELSE req[r].redis
      /\ \/ n = 1 /\ req'[r].at = 2 /\ req'[r].sub = "expire" /\ req'[r].out = "none"
         \/ /\ n > 1 /\ n > Limit
            /\ req'[r].at = 2 /\ req'[r].sub = "first" /\ req'[r].out = "429"
         \/ /\ n > 1 /\ n <= Limit
            /\ req'[r].at = 4 /\ req'[r].sub = "first" /\ req'[r].out = "none"
  BY IncrMoves DEF OwnCounter
<1>2. Arrived(r) /\ Turn(r) /\ req[r].tenant \in Tenants /\ req[r].window \in Windows
  BY <1>1 DEF Moves, LimitInv, Request
<1>3. n \in Nat /\ n >= counter[req[r].tenant][req[r].window].n /\ n >= 1
  BY <1>2 DEF TypeOK, Identities
<1>4. req[r].redis \in {"none", "retried"}
  BY <1>1, <1>2 DEF Turn
<1>5. req[r].redis = "retried" => n > 1
  <2>1. req[r].redis = "retried" => counter[req[r].tenant][req[r].window].n > 0
    BY <1>1, <1>2 DEF Turn
  <2>2. counter[req[r].tenant][req[r].window].n \in Nat
    BY <1>2 DEF TypeOK, Identities
  <2> QED  BY <2>1, <2>2
<1>6. CountsTo(r, n)
  BY <1>1
<1> HIDE DEF n
<1>7. /\ Charging(r) /\ ~Asking(req'[r])
      /\ \/ ~Counted(req[r]) /\ Counted(req'[r])
         \/ ~Doubled(req[r]) /\ Doubled(req'[r])
  BY <1>1, <1>4 DEF Charging, Counted, Doubled, Asking
<1>8. ASSUME NEW t \in Tenants, NEW w \in Windows, r \in Of(t, w)
      PROVE  Account(t, w)' /\ n <= Charge(t, w)'
  <2> DEFINE T == Through(t, w)
             U == Through(t, w)'
  <2>1. /\ IsFiniteSet(Of(t, w)) /\ counter[t][w].n \in Nat /\ counter[t][w].n <= Charge(t, w)
        /\ Cardinality(T) <= counter[t][w].n /\ Cardinality(T) <= Limit
        /\ req[r].tenant = t /\ req[r].window = w
    BY <1>1, <1>2, <1>8, AskingOpens
  <2>2. n = counter[t][w].n + 1
    BY <2>1 DEF n
  <2>3. counter'[t][w].n = n
    BY <1>6, <2>1 DEF CountsTo, Identities
  <2>4. Charge(t, w) + 1 <= Charge(t, w)' /\ Charge(t, w) \in Nat /\ Charge(t, w)' \in Nat
    BY <1>1, <1>7, <1>8, <2>1, ChargeOne, MoveCounts, Counts
  <2>5. n <= Charge(t, w)'
    BY <2>1, <2>2, <2>4
  <2>6. Of(t, w)' = Of(t, w) /\ \A q \in Requests : q # r => req'[q] = req[q]
    BY <1>1, SameRequests
  <2>7. U \subseteq T \cup {r} /\ (req'[r].out = "429" => U \subseteq T)
    BY <1>1, <2>6 DEF Through, Of, Admitted
  <2>8. IsFiniteSet(T) /\ Cardinality(T) \in Nat
    BY <2>1, Counts
  <2>9. IsFiniteSet(U) /\ Cardinality(U) \in Nat
    BY <1>1, <1>7, <2>1, MoveCounts
  <2> HIDE DEF T, U
  <2>10. Cardinality(U) <= Cardinality(T) + 1
    BY <2>7, <2>8, AtMostOneMore
  <2>11. Cardinality(U) <= n
    BY <2>1, <2>2, <2>8, <2>9, <2>10
  <2>12. Cardinality(U) <= Limit
    <3>1. CASE req'[r].out = "429"
      <4>1. Cardinality(U) <= Cardinality(T)
        BY <2>7, <2>8, <3>1, FS_Subset
      <4> QED  BY <2>1, <2>8, <2>9, <4>1, LimitAssumption
    <3>2. CASE n <= Limit
      BY <1>3, <2>9, <2>11, <3>2, LimitAssumption
    <3>3. CASE n = 1
      BY <2>9, <2>11, <3>3, LimitAssumption
    <3> QED  BY <1>1, <3>1, <3>2, <3>3
  <2> QED  BY <2>1, <2>3, <2>5, <2>6, <2>11, <2>12 DEF Account, U
<1>9. Turn(r)'
  <2>1. req'[r].sub = "expire" =>
           req'[r].at = 2 /\ req'[r].redis = "counted" /\ req'[r].out = "none"
    BY <1>1, <1>4, <1>5
  <2>2. ASSUME NEW t \in Tenants, NEW w \in Windows, r \in Of(t, w)', req'[r].out = "429"
        PROVE  Charge(t, w)' > Limit
    <3>1. r \in Of(t, w)
      BY <1>1, <2>2, SameRequests
    <3>2. n > Limit
      BY <1>1, <2>2
    <3>3. IsFiniteSet(Of(t, w))
      BY <1>1, <1>2, <3>1, AskingOpens
    <3> QED  BY <1>1, <1>3, <1>7, <1>8, <3>1, <3>2, <3>3, MoveCounts, LimitAssumption
  <2> QED  BY <1>7, <2>1, <2>2 DEF Turn
<1> QED  BY <1>1, <1>3, <1>6, <1>7, <1>8, <1>9, MoveKeeps

LEMMA IncrAgainKeeps ==
    ASSUME TypeOK, LimitInv, NEW r \in Requests, IncrAgain(r)
    PROVE  LimitInv'
<1> DEFINE n == counter[req[r].tenant][req[r].window].n + 1
<1>1. /\ Moves(r) /\ Asking(req[r]) /\ Asking(req'[r]) /\ CountsTo(r, n)
      /\ req[r].redis = "none" /\ req'[r].redis = "retried"
  BY IncrAgainMoves DEF OwnCounter
<1>2. Arrived(r) /\ req[r].tenant \in Tenants /\ req[r].window \in Windows
  BY <1>1 DEF Moves, Request
<1>3. n \in Nat /\ n >= counter[req[r].tenant][req[r].window].n /\ n > 0
  BY <1>2 DEF TypeOK, Identities
<1>4. CountsTo(r, n)
  BY <1>1
<1>5. counter'[req[r].tenant][req[r].window].n = n
  BY <1>2, <1>4 DEF CountsTo, Identities
<1> HIDE DEF n
<1>6. /\ Charging(r) /\ ~Counted(req[r]) /\ Counted(req'[r])
  BY <1>1 DEF Charging, Counted, Doubled
<1>7. ASSUME NEW t \in Tenants, NEW w \in Windows, r \in Of(t, w)
      PROVE  Account(t, w)'
  <2>1. /\ IsFiniteSet(Of(t, w)) /\ counter[t][w].n \in Nat /\ counter[t][w].n <= Charge(t, w)
        /\ Cardinality(Through(t, w)) <= counter[t][w].n
        /\ Cardinality(Through(t, w)) <= Limit
        /\ req[r].tenant = t /\ req[r].window = w
    BY <1>1, <1>2, <1>7, AskingOpens
  <2>2. n = counter[t][w].n + 1 /\ counter'[t][w].n = n
    BY <1>5, <2>1 DEF n
  <2>3. Charge(t, w) + 1 <= Charge(t, w)' /\ Charge(t, w) \in Nat /\ Charge(t, w)' \in Nat
    BY <1>1, <1>6, <1>7, <2>1, ChargeOne, MoveCounts, Counts
  <2>4. Of(t, w)' = Of(t, w) /\ \A q \in Requests : q # r => req'[q] = req[q]
    BY <1>1, SameRequests
  <2>5. Through(t, w)' \subseteq Through(t, w)
    BY <1>1, <2>4 DEF Through, Of, Admitted, Asking
  <2>6. /\ Cardinality(Through(t, w)') <= Cardinality(Through(t, w))
        /\ Cardinality(Through(t, w)) \in Nat
    BY <2>1, <2>5, Counts, FS_Subset
  <2>7. Cardinality(Through(t, w)') \in Nat
    BY <1>1, <1>6, <2>1, MoveCounts
  <2>8. n <= Charge(t, w)'
    BY <2>1, <2>2, <2>3
  <2>9. Cardinality(Through(t, w)') <= n /\ Cardinality(Through(t, w)') <= Limit
    BY <2>1, <2>2, <2>6, <2>7, LimitAssumption
  <2> QED  BY <2>1, <2>2, <2>4, <2>8, <2>9 DEF Account
<1>8. Turn(r)'
  BY <1>1, <1>3, <1>5 DEF Turn, Asking, Moves
<1> QED  BY <1>1, <1>3, <1>4, <1>6, <1>7, <1>8, MoveKeeps

\* A request that arrives is not counted yet, and its window is not over.
LEMMA AuthKeeps ==
    ASSUME TypeOK, LimitInv, NEW r \in Requests, NEW route \in Route, NEW k \in Keys,
           NEW c \in Credentials, Auth(r, route, k, c)
    PROVE  LimitInv'
<1>1. /\ ~Arrived(r) /\ Arrived(r)' /\ req' = [req EXCEPT ![r] = req'[r]]
      /\ Asking(req'[r]) /\ req'[r].redis = "none" /\ req'[r].window = window
      /\ UNCHANGED <<counter, window>>
  BY AuthMoves
<1>2. \A q \in Requests : q # r => req'[q] = req[q] /\ (Arrived(q)' <=> Arrived(q))
  BY <1>1 DEF TypeOK, Arrived
<1>3. ASSUME NEW t \in Tenants, NEW w \in Windows
      PROVE  /\ Of(t, w) \subseteq Of(t, w)' /\ Of(t, w)' \subseteq Of(t, w) \cup {r}
             /\ Charge(t, w)' = Charge(t, w) /\ Account(t, w)'
  <2>1. r \notin Of(t, w)
    BY <1>1 DEF Of
  <2>2. \A q \in Requests : q # r => (q \in Of(t, w)' <=> q \in Of(t, w))
    BY <1>2 DEF Of
  <2>3. Of(t, w) \subseteq Of(t, w)' /\ Of(t, w)' \subseteq Of(t, w) \cup {r}
    BY <2>1, <2>2 DEF Of
  <2>4. ~Counted(req'[r]) /\ ~Doubled(req'[r]) /\ ~Admitted(req'[r])
    BY <1>1 DEF Counted, Doubled, Admitted, Asking
  <2>5. Charged(t, w)' = Charged(t, w)
    BY <1>2, <2>1, <2>3, <2>4 DEF Charged, Of
  <2>6. ChargedTwice(t, w)' = ChargedTwice(t, w)
    BY <1>2, <2>1, <2>3, <2>4 DEF ChargedTwice, Of
  <2>7. Through(t, w)' = Through(t, w)
    BY <1>2, <2>1, <2>3, <2>4 DEF Through, Of
  <2>8. Charge(t, w)' = Charge(t, w)
    BY <2>5, <2>6 DEF Charge
  <2>9. Account(t, w)
    BY DEF LimitInv
  <2>10. IsFiniteSet(Of(t, w) \cup {r})
    BY <2>9, FS_AddElement DEF Account
  <2>11. IsFiniteSet(Of(t, w)')
    BY <2>3, <2>10, FS_Subset
  <2>12. Over(t, w) => Over(t, w)'
    <3> SUFFICES ASSUME Over(t, w) PROVE Over(t, w)'
      OBVIOUS
    <3>1. r \notin Of(t, w)'
      BY <1>1 DEF Over, Of, TypeOK, Windows
    <3> QED  BY <1>1, <1>2, <2>3, <3>1 DEF Over, Of
  <2> QED  BY <1>1, <2>3, <2>7, <2>8, <2>9, <2>11, <2>12 DEF Account
<1>4. Turn(r)'
  BY <1>1 DEF Turn, Asking
<1>5. ASSUME NEW q \in Requests, q # r, Arrived(q)'
      PROVE  Turn(q)'
  <2>1. req'[q] = req[q] /\ Turn(q)
    BY <1>2, <1>5 DEF LimitInv
  <2>2. \A t \in Tenants, w \in Windows : q \in Of(t, w)' => q \in Of(t, w)
    BY <1>3, <1>5
  <2>3. \A t \in Tenants, w \in Windows : Charge(t, w)' = Charge(t, w)
    BY <1>3
  <2> QED  BY <1>1, <2>1, <2>2, <2>3 DEF Turn
<1> QED  BY <1>3, <1>4, <1>5 DEF LimitInv

\* A request that still asks is in the limiter.
LEMMA InLimit ==
    ASSUME TypeOK, NEW r \in Requests, Arrived(r), req[r].at = 2, req[r].out = "none"
    PROVE  In(r, "limit")
BY Positions, ChainLayers DEF In, Request

\* When a counter expires its window is over, and nobody asks it again.
LEMMA ExpiryKeeps ==
    ASSUME TypeOK, LimitInv, NEW i \in Identities, NEW w \in Windows, CounterExpires(i, w)
    PROVE  LimitInv'
<1>1. /\ w < window /\ \A r \in Requests : In(r, "limit") => req[r].window # w
      /\ UNCHANGED <<req, window>>
  BY DEF CounterExpires
<1>2. \A j \in Identities, v \in Windows :
         counter'[j][v].n = IF j = i /\ v = w THEN 0 ELSE counter[j][v].n
  <2>1. counter \in [Identities -> [Windows -> [n : Nat, ttl : BOOLEAN]]]
    BY DEF TypeOK
  <2>2. counter' = [counter EXCEPT ![i][w] = NoCounter]
    BY DEF CounterExpires
  <2>3. NoCounter.n = 0
    BY DEF NoCounter
  <2> HIDE DEF NoCounter
  <2>4. ASSUME NEW j \in Identities, NEW v \in Windows
        PROVE  counter'[j][v].n = IF j = i /\ v = w THEN 0 ELSE counter[j][v].n
    <3>1. CASE j = i /\ v = w
      BY <2>1, <2>2, <2>3, <3>1
    <3>2. CASE j = i /\ v # w
      BY <2>1, <2>2, <3>2
    <3>3. CASE j # i
      BY <2>1, <2>2, <3>3
    <3> QED  BY <3>1, <3>2, <3>3
  <2> QED  BY <2>4
<1>3. \A t \in Tenants, v \in Windows :
         /\ Of(t, v)' = Of(t, v) /\ Through(t, v)' = Through(t, v)
         /\ Charge(t, v)' = Charge(t, v) /\ Over(t, v)' = Over(t, v)
  BY <1>1 DEF Of, Through, Charge, Charged, ChargedTwice, Over, Arrived
<1>4. ASSUME NEW t \in Tenants, NEW v \in Windows PROVE Account(t, v)'
  <2>1. Account(t, v) /\ Charge(t, v) \in Nat
    BY Counts DEF LimitInv, Account
  <2>2. CASE t = i /\ v = w
    <3>1. Over(t, v)
      BY <1>1, <2>2, InLimit DEF Over, Of
    <3>2. counter'[t][v].n = 0
      BY <1>2, <2>2
    <3> QED  BY <1>3, <2>1, <3>1, <3>2 DEF Account
  <2>3. CASE ~(t = i /\ v = w)
    <3>1. counter'[t][v].n = counter[t][v].n
      BY <1>2, <2>3 DEF Identities
    <3> QED  BY <1>3, <2>1, <3>1 DEF Account
  <2> QED  BY <2>2, <2>3
<1>5. ASSUME NEW q \in Requests, Arrived(q)' PROVE Turn(q)'
  <2>1. req'[q] = req[q] /\ Arrived(q) /\ Turn(q)
    BY <1>1, <1>5 DEF LimitInv, Arrived
  <2>2. req[q].tenant \in Identities /\ req[q].window \in Windows
    BY <2>1, PassedLayers DEF Identities
  <2>3. Asking(req[q]) => req[q].window # w
    BY <1>1, <2>1, InLimit DEF Asking
  <2>4. Asking(req[q]) => counter'[req[q].tenant][req[q].window].n
                             = counter[req[q].tenant][req[q].window].n
    BY <1>2, <2>2, <2>3
  <2>5. \A t \in Tenants, v \in Windows :
           Of(t, v)' = Of(t, v) /\ Charge(t, v)' = Charge(t, v)
    BY <1>3
  <2> QED  BY <2>1, <2>4, <2>5 DEF Turn
<1> QED  BY <1>4, <1>5 DEF LimitInv

LEMMA ClockKeeps ==
    ASSUME TypeOK, LimitInv, UNCHANGED <<req, counter>>, window' \in Windows, window <= window'
    PROVE  LimitInv'
<1>1. \A t \in Tenants, v \in Windows :
         /\ Of(t, v)' = Of(t, v) /\ Through(t, v)' = Through(t, v)
         /\ Charge(t, v)' = Charge(t, v)
  BY DEF Of, Through, Charge, Charged, ChargedTwice, Arrived
<1>2. \A t \in Tenants, v \in Windows : Over(t, v) => Over(t, v)'
  BY <1>1 DEF Over, TypeOK, Windows
<1>3. \A t \in Tenants, v \in Windows : Account(t, v)'
  BY <1>1, <1>2 DEF LimitInv, Account
<1>4. \A q \in Requests : Arrived(q)' => Turn(q)'
  BY <1>1 DEF LimitInv, Turn, Arrived
<1> QED  BY <1>3, <1>4 DEF LimitInv

LEMMA LimitNext == IInv /\ LimitInv /\ [Next]_vars => LimitInv'
<1> SUFFICES ASSUME IInv, LimitInv, [Next]_vars PROVE LimitInv'
  OBVIOUS
<1>0. TypeOK
  BY DEF IInv
<1>1. ASSUME NEW r \in Requests, IncrFails(r)
      PROVE  LimitInv'
  <2>1. /\ Moves(r) /\ Asking(req[r]) /\ UNCHANGED counter
        /\ req'[r].at = 4 /\ req'[r].sub = "first" /\ req'[r].out = "none"
        /\ req'[r].redis = "failed"
    BY <1>0, <1>1, IncrFailsMoves
  <2>2. Charging(r) /\ Asks(r) /\ ~Admitted(req'[r]) /\ ~Asking(req'[r])
    BY <2>1 DEF Charging, Counted, Doubled, Asks, Admitted, Asking
  <2> QED  BY <1>0, <2>1, <2>2, QuietKeeps
<1>2. ASSUME NEW r \in Requests, Expire(r)
      PROVE  LimitInv'
  <2>1. /\ Moves(r) /\ req[r].at = 2 /\ req[r].sub = "expire"
        /\ req'[r].at = 4 /\ req'[r].sub = "first" /\ req'[r].out = "none"
        /\ \A j \in Identities, v \in Windows : counter'[j][v].n = counter[j][v].n
        /\ req'[r].redis = req[r].redis \/ req'[r].redis = "kept"
    BY <1>0, <1>2, ExpireMoves
  <2>2. req[r].redis = "counted"
    BY <2>1 DEF LimitInv, Turn, Moves
  <2>3. /\ Charging(r) /\ Asks(r) /\ Admitted(req[r]) /\ ~Asking(req'[r])
    BY <2>1, <2>2 DEF Charging, Counted, Doubled, Asks, Admitted, Asking
  <2> QED  BY <1>0, <2>1, <2>3, QuietKeeps
<1>3. ASSUME NEW r \in Requests, Gone(r)
      PROVE  LimitInv'
  <2>1. /\ Moves(r) /\ UNCHANGED counter
        /\ req'[r].at = req[r].at /\ req'[r].sub = "first"
        /\ req'[r].redis = req[r].redis /\ req'[r].out = "gone"
    BY <1>0, <1>3, GoneMoves
  <2>3. /\ Charging(r) /\ Asks(r) /\ ~Asking(req'[r])
        /\ Admitted(req'[r]) => Admitted(req[r])
    BY <2>1 DEF Charging, Counted, Doubled, Asks, Admitted, Asking
  <2> QED  BY <1>0, <2>1, <2>3, QuietKeeps
<1>4. ASSUME NEW r \in Requests,
             \/ RequireRole(r) \/ RequireFeature(r) \/ ServeExport(r) \/ ReadKey(r)
             \/ DeactivateKey(r) \/ CreateKey(r) \/ StatementFails(r)
      PROVE  LimitInv'
  <2>1. /\ Moves(r) /\ UNCHANGED counter
        /\ req[r].at > 3 /\ req'[r].at > 3 /\ req'[r].redis = req[r].redis
        /\ req'[r].sub # "expire" \/ req[r].sub = "expire"
        /\ req'[r].out \in {"none", "ok", "403", "404", "500"}
    BY <1>0, <1>4, LaterMoves
  <2>2. req[r].sub # "expire"
    BY <2>1 DEF LimitInv, Turn, Moves
  <2>3. req'[r].sub # "expire" /\ req'[r].at # 2 /\ req[r].at > 2
    BY <2>1, <2>2 DEF Moves, Request
  <2>4. /\ Charging(r) /\ Asks(r) /\ ~Asking(req'[r])
        /\ Admitted(req'[r]) => Admitted(req[r])
    BY <2>1, <2>3 DEF Charging, Counted, Doubled, Asks, Admitted, Asking
  <2> QED  BY <1>0, <2>1, <2>3, <2>4, QuietKeeps
<1>5. CASE Tick
  <2>1. UNCHANGED <<req, counter>> /\ window' \in Windows /\ window <= window'
    BY <1>0, <1>5, BoundsAssumption DEF Tick, TypeOK, Windows
  <2> QED  BY <1>0, <2>1, ClockKeeps
<1>6. CASE UNCHANGED vars \/ \E t \in Managed : Operate(t)
  <2>1. UNCHANGED <<req, counter, window>>
    BY <1>6 DEF Operate, vars
  <2>2. window' \in Windows /\ window <= window'
    BY <1>0, <2>1 DEF TypeOK, Windows
  <2> QED  BY <1>0, <2>1, <2>2, ClockKeeps
<1> QED  BY <1>0, <1>1, <1>2, <1>3, <1>4, <1>5, <1>6,
            AuthKeeps, IncrKeeps, IncrAgainKeeps, ExpiryKeeps DEF Next

LEMMA LimitInitially == Init => LimitInv
<1> SUFFICES ASSUME Init PROVE LimitInv
  OBVIOUS
<1>1. \A r \in Requests : ~Arrived(r)
  BY DEF Init, Arrived, NotArrived
<1>2. ASSUME NEW t \in Tenants, NEW w \in Windows PROVE Account(t, w)
  <2>1. Of(t, w) = {} /\ Through(t, w) = {}
    BY <1>1 DEF Of, Through
  <2>2. IsFiniteSet(Of(t, w)) /\ Cardinality(Through(t, w)) = 0
    BY <2>1, FS_EmptySet
  <2>3. Charge(t, w) \in Nat
    BY <2>2, Counts
  <2>4. counter[t][w].n = 0
    BY DEF Init, NoCounter, Identities
  <2> QED  BY <2>2, <2>3, <2>4, LimitAssumption DEF Account
<1> QED  BY <1>1, <1>2 DEF LimitInv

LEMMA LimitAlways == Spec => []LimitInv
BY Inductive, LimitInitially, LimitNext, PTL DEF Spec

\* The counter in Redis is shared by every instance and every request of the
\* tenant; in whatever order their INCRs, EXPIREs and retries come, no more
\* than Limit requests of one window are passed on.
THEOREM LimitIsKept == Spec => []LimitHolds
<1>1. IInv /\ LimitInv => LimitHolds
  <2> SUFFICES ASSUME IInv, LimitInv, NEW t \in Tenants, NEW w \in Windows
               PROVE  Cardinality({r \in Of(t, w) : Passed(r, "limit")
                                                    /\ req[r].redis # "failed"}) <= Limit
    BY DEF LimitHolds
  <2> DEFINE P == {r \in Of(t, w) : Passed(r, "limit") /\ req[r].redis # "failed"}
  <2>1. TypeOK /\ Account(t, w)
    BY DEF IInv, LimitInv
  <2>2. P \subseteq Through(t, w)
    BY <2>1, PassedLayers DEF Of, Through, Admitted
  <2> HIDE DEF P
  <2>3. /\ IsFiniteSet(Through(t, w)) /\ Cardinality(Through(t, w)) \in Nat
        /\ Cardinality(Through(t, w)) <= Limit
    BY <2>1, Counts DEF Account
  <2>4. IsFiniteSet(P) /\ Cardinality(P) <= Cardinality(Through(t, w))
    BY <2>2, <2>3, FS_Subset
  <2>5. Cardinality(P) \in Nat
    BY <2>4, FS_CardinalityType
  <2>6. Cardinality(P) <= Limit
    BY <2>3, <2>4, <2>5, LimitAssumption
  <2> QED  BY <2>6 DEF P
<1> QED  BY <1>1, Inductive, LimitAlways, PTL

\* Who is refused has been refused by the requests of its own tenant.
THEOREM NeighboursAreQuiet == Spec => []NoNoisyNeighbour
<1>1. IInv /\ LimitInv => NoNoisyNeighbour
  <2> SUFFICES ASSUME IInv, LimitInv, NEW r \in Requests, Arrived(r), req[r].out = "429",
                      NEW t \in Tenants, NEW w \in Windows,
                      t = req[r].tenant, w = req[r].window
               PROVE  LET own == {q \in Of(t, w) : req[q].redis # "none"}
                      IN  Cardinality(own)
                             + Cardinality({q \in own : req[q].redis = "retried"}) > Limit
    BY PassedLayers DEF NoNoisyNeighbour, IInv
  <2> DEFINE own == {q \in Of(t, w) : req[q].redis # "none"}
             twice == {q \in own : req[q].redis = "retried"}
  <2>1. own = Charged(t, w)
    BY DEF Charged, Counted
  <2>2. ChargedTwice(t, w) \subseteq twice /\ twice \subseteq Of(t, w)
    BY DEF ChargedTwice, Doubled
  <2> HIDE DEF own, twice
  <2>3. Charge(t, w) > Limit
    BY DEF LimitInv, Turn, Of
  <2>4. IsFiniteSet(Of(t, w))
    BY DEF LimitInv, Account
  <2>5. IsFiniteSet(twice) /\ Cardinality(ChargedTwice(t, w)) <= Cardinality(twice)
    BY <2>2, <2>4, FS_Subset
  <2>6. Cardinality(twice) \in Nat
    BY <2>5, FS_CardinalityType
  <2>7. Cardinality(own) + Cardinality(twice) > Limit
    BY <2>1, <2>3, <2>4, <2>5, <2>6, Counts, LimitAssumption DEF Charge
  <2> QED  BY <2>7 DEF own, twice
<1> QED  BY <1>1, Inductive, LimitAlways, PTL

-----------------------------------------------------------------------------
(* The TTL of the counters.                                                *)

\* It created its counter, and is about to set the TTL or was cut off before.
Owes(q) ==
    /\ q.made
    /\ \/ q.sub = "expire"
       \/ q.redis \in {"retried", "failed", "kept"}
       \/ q.out = "gone" /\ q.at = 2

ShortInv ==
    \A i \in Identities, w \in Windows :
        counter[i][w].n > 0 /\ ~counter[i][w].ttl =>
            \E r \in Requests : /\ Arrived(r) /\ Owes(req[r])
                                /\ req[r].tenant = i /\ req[r].window = w

LEMMA OwesKeeps ==
    ASSUME TypeOK, ShortInv, NEW r \in Requests, Moves(r),
           Owes(req[r]) => \/ Owes(req'[r])
                           \/ counter'[req[r].tenant][req[r].window].ttl,
           \A j \in Identities, v \in Windows :
              /\ counter[j][v].ttl => counter'[j][v].ttl
              /\ counter'[j][v].n > 0 =>
                    \/ counter[j][v].n > 0
                    \/ j = req[r].tenant /\ v = req[r].window /\ Owes(req'[r])
    PROVE  ShortInv'
<1> SUFFICES ASSUME NEW i \in Identities, NEW w \in Windows,
                    counter'[i][w].n > 0, ~counter'[i][w].ttl
             PROVE  \E q \in Requests : /\ Arrived(q)' /\ Owes(req'[q])
                                        /\ req'[q].tenant = i /\ req'[q].window = w
  BY DEF ShortInv
<1>1. Arrived(r) /\ Arrived(r)' /\ req'[r].tenant = req[r].tenant
      /\ req'[r].window = req[r].window
  BY DEF Moves, Arrived, Request
<1>2. \A q \in Requests : q # r => req'[q] = req[q] /\ (Arrived(q)' <=> Arrived(q))
  BY DEF Moves, TypeOK, Arrived
<1>3. CASE i = req[r].tenant /\ w = req[r].window /\ Owes(req'[r])
  BY <1>1, <1>3
<1>4. CASE counter[i][w].n > 0 /\ ~counter[i][w].ttl
  <2>1. PICK q \in Requests : /\ Arrived(q) /\ Owes(req[q])
                              /\ req[q].tenant = i /\ req[q].window = w
    BY <1>4 DEF ShortInv
  <2>2. CASE q = r
    BY <1>1, <2>1, <2>2
  <2>3. CASE q # r
    BY <1>2, <2>1, <2>3
  <2> QED  BY <2>2, <2>3
<1> QED  BY <1>3, <1>4

LEMMA ShortNext == IInv /\ LimitInv /\ ShortInv /\ [Next]_vars => ShortInv'
<1> SUFFICES ASSUME IInv, LimitInv, ShortInv, [Next]_vars PROVE ShortInv'
  OBVIOUS
<1>0. TypeOK
  BY DEF IInv
<1>1. ASSUME NEW r \in Requests, Incr(r) PROVE ShortInv'
  <2> DEFINE n == counter[req[r].tenant][req[r].window].n + 1
  <2>1. /\ Moves(r) /\ Asking(req[r]) /\ OwnCounter(r, n)
        /\ req'[r].redis = IF req[r].redis = "none" THEN "counted" ELSE req[r].redis
        /\ req[r].made \/ n = 1 => req'[r].made
        /\ (n = 1 /\ req'[r].sub = "expire") \/ n > 1
    BY <1>0, <1>1, IncrMoves
  <2>2. counter[req[r].tenant][req[r].window].n \in Nat
    BY <1>0, <2>1 DEF TypeOK, Identities, Moves, Request
  <2>3. Owes(req[r]) => Owes(req'[r])
    BY <2>1 DEF Owes, Asking
  <2>4. n = 1 => Owes(req'[r])
    BY <2>1 DEF Owes
  <2>5. \A j \in Identities, v \in Windows :
           /\ counter[j][v].ttl => counter'[j][v].ttl
           /\ counter'[j][v].n > 0 =>
                 \/ counter[j][v].n > 0
                 \/ j = req[r].tenant /\ v = req[r].window /\ Owes(req'[r])
    BY <2>1, <2>2, <2>4 DEF OwnCounter, CountsTo
  <2> QED  BY <1>0, <2>1, <2>3, <2>5, OwesKeeps
<1>2. ASSUME NEW r \in Requests, IncrAgain(r) PROVE ShortInv'
  <2>1. /\ Moves(r) /\ OwnCounter(r, counter[req[r].tenant][req[r].window].n + 1)
        /\ req[r].redis = "none" /\ Asking(req[r]) /\ req'[r].redis = "retried"
        /\ counter[req[r].tenant][req[r].window].n = 0 => req'[r].made
    BY <1>0, <1>2, IncrAgainMoves
  <2>3. ~Owes(req[r])
    BY <2>1 DEF Owes, Asking
  <2>4. counter[req[r].tenant][req[r].window].n \in Nat
    BY <1>0, <2>1 DEF TypeOK, Identities, Moves, Request
  <2>5. counter[req[r].tenant][req[r].window].n > 0 \/ Owes(req'[r])
    BY <2>1, <2>4 DEF Owes
  <2>2. \A j \in Identities, v \in Windows :
           /\ counter[j][v].ttl => counter'[j][v].ttl
           /\ counter'[j][v].n > 0 =>
                 \/ counter[j][v].n > 0
                 \/ j = req[r].tenant /\ v = req[r].window /\ Owes(req'[r])
    BY <2>1, <2>5 DEF OwnCounter, CountsTo
  <2> QED  BY <1>0, <2>1, <2>2, <2>3, OwesKeeps
<1>3. ASSUME NEW r \in Requests, Expire(r) PROVE ShortInv'
  <2>1. /\ Moves(r) /\ req'[r].made = req[r].made
        /\ \A j \in Identities, v \in Windows :
              /\ counter'[j][v].n = counter[j][v].n
              /\ counter[j][v].ttl => counter'[j][v].ttl
        /\ counter'[req[r].tenant][req[r].window].ttl \/ req'[r].redis = "kept"
    BY <1>0, <1>3, ExpireMoves
  <2>2. Owes(req[r]) => Owes(req'[r]) \/ counter'[req[r].tenant][req[r].window].ttl
    BY <2>1 DEF Owes
  <2> QED  BY <1>0, <2>1, <2>2, OwesKeeps
<1>4. ASSUME NEW r \in Requests,
             \/ IncrFails(r) \/ Gone(r)
             \/ RequireRole(r) \/ RequireFeature(r) \/ ServeExport(r) \/ ReadKey(r)
             \/ DeactivateKey(r) \/ CreateKey(r) \/ StatementFails(r)
      PROVE  ShortInv'
  <2>1. Moves(r) /\ UNCHANGED counter
    BY <1>0, <1>4, IncrFailsMoves, GoneMoves, LaterMoves
  <2>2. Turn(r)
    BY <2>1 DEF LimitInv, Moves
  <2>3. Owes(req[r]) => Owes(req'[r])
    <3>1. CASE IncrFails(r)
      BY <1>0, <3>1, IncrFailsMoves DEF Owes
    <3>2. CASE Gone(r)
      <4>1. /\ req'[r].made = req[r].made /\ req'[r].redis = req[r].redis
            /\ req'[r].at = req[r].at /\ req'[r].out = "gone"
        BY <1>0, <3>2, GoneMoves
      <4> QED  BY <2>2, <4>1 DEF Owes, Turn
    <3>3. CASE \/ RequireRole(r) \/ RequireFeature(r) \/ ServeExport(r) \/ ReadKey(r)
               \/ DeactivateKey(r) \/ CreateKey(r) \/ StatementFails(r)
      <4>1. /\ req[r].at > 3 /\ req'[r].redis = req[r].redis
            /\ req'[r].made = req[r].made /\ req[r].out = "none"
        BY <1>0, <3>3, LaterMoves DEF Moves
      <4> QED  BY <2>2, <4>1 DEF Owes, Turn
    <3> QED  BY <1>4, <3>1, <3>2, <3>3
  <2> QED  BY <1>0, <2>1, <2>3, OwesKeeps
<1>5. ASSUME NEW r \in Requests, NEW route \in Route, NEW k \in Keys,
             NEW c \in Credentials, Auth(r, route, k, c)
      PROVE  ShortInv'
  <2>1. /\ ~Arrived(r) /\ req' = [req EXCEPT ![r] = req'[r]] /\ UNCHANGED counter
    BY <1>0, <1>5, AuthMoves
  <2>2. \A q \in Requests : Arrived(q) => req'[q] = req[q] /\ Arrived(q)'
    BY <1>0, <2>1 DEF TypeOK, Arrived
  <2> QED  BY <2>1, <2>2 DEF ShortInv
<1>6. ASSUME NEW i \in Identities, NEW w \in Windows, CounterExpires(i, w)
      PROVE  ShortInv'
  <2>1. counter' = [counter EXCEPT ![i][w] = NoCounter] /\ UNCHANGED req
    BY <1>6 DEF CounterExpires
  <2>2. \A j \in Identities, v \in Windows :
           counter'[j][v] = IF j = i /\ v = w THEN NoCounter ELSE counter[j][v]
    <3>1. counter \in [Identities -> [Windows -> [n : Nat, ttl : BOOLEAN]]]
      BY <1>0 DEF TypeOK
    <3> HIDE DEF NoCounter
    <3>2. ASSUME NEW j \in Identities, NEW v \in Windows
          PROVE  counter'[j][v] = IF j = i /\ v = w THEN NoCounter ELSE counter[j][v]
      BY <2>1, <3>1
    <3> QED  BY <3>2
  <2>3. NoCounter.n = 0
    BY DEF NoCounter
  <2> HIDE DEF NoCounter
  <2>4. \A j \in Identities, v \in Windows :
           counter'[j][v].n > 0 => counter'[j][v] = counter[j][v]
    BY <2>2, <2>3
  <2> QED  BY <2>1, <2>4 DEF ShortInv, Arrived
<1>7. CASE Tick \/ UNCHANGED vars \/ \E t \in Managed : Operate(t)
  <2>1. UNCHANGED <<req, counter>>
    BY <1>7 DEF Tick, Operate, vars
  <2> QED  BY <2>1 DEF ShortInv, Arrived
<1> QED  BY <1>1, <1>2, <1>3, <1>4, <1>5, <1>6, <1>7 DEF Next

\* The INCR that finds 1 is followed by an EXPIRE of the same request: a
\* counter without a TTL was created by a request that is alive between the
\* two, or was cut off there by a fault of Redis or its own end.
THEOREM CountersAreNotLeft == Spec => []CountersAreShortLived
<1>1. Init => ShortInv
  BY DEF Init, ShortInv, NoCounter
<1>2. IInv /\ LimitInv /\ ShortInv => CountersAreShortLived
  <2> SUFFICES ASSUME IInv, LimitInv, ShortInv, NEW i \in Identities, NEW w \in Windows,
                      counter[i][w].n > 0, ~counter[i][w].ttl
               PROVE  \E r \in Requests :
                         /\ Arrived(r) /\ Identity(r) = i /\ req[r].window = w
                         /\ (In(r, "limit") /\ req[r].sub = "expire") \/ CutOff(r)
    BY DEF CountersAreShortLived
  <2>1. PICK r \in Requests : /\ Arrived(r) /\ Owes(req[r])
                              /\ req[r].tenant = i /\ req[r].window = w
    BY DEF ShortInv
  <2>2. Identity(r) = i /\ (Passed(r, "limit") <=> req[r].at > 2)
    BY <2>1, PassedLayers DEF IInv
  <2>3. req[r].sub = "expire" => In(r, "limit")
    <3>1. req[r].sub = "expire" => req[r].at = 2 /\ req[r].out = "none"
      BY <2>1 DEF LimitInv, Turn
    <3>2. req[r].route \in Route
      BY <2>1, Positions DEF IInv, Request
    <3> QED  BY <2>1, <3>1, <3>2, ChainLayers DEF In
  <2>4. req[r].sub = "expire" \/ CutOff(r)
    BY <2>1, <2>2 DEF Owes, CutOff
  <2> QED  BY <2>1, <2>2, <2>3, <2>4
<1> QED  BY <1>1, <1>2, ShortNext, LimitAlways, Inductive, PTL DEF Spec

-----------------------------------------------------------------------------
(* Metering.                                                               *)

MeterInv == \A r \in Requests : Metered(r)

\* Metering notes the steps of r alone.
LEMMA OthersAreMetered ==
    ASSUME TypeOK, MeterInv, NEW r \in Requests,
           req' = [req EXCEPT ![r] = req'[r]],
           \/ usage' = usage
           \/ usage' = [usage EXCEPT ![r] = "started"],
           Metered(r)'
    PROVE  MeterInv'
<1> SUFFICES ASSUME NEW q \in Requests, q # r PROVE Metered(q)'
  BY DEF MeterInv
<1>1. req'[q] = req[q] /\ usage'[q] = usage[q]
  BY DEF TypeOK
<1>2. Metered(q)
  BY DEF MeterInv
<1> QED  BY <1>1, <1>2 DEF Metered, Arrived

LEMMA MeterNext == IInv /\ MeterInv /\ [Next]_vars => MeterInv'
<1> SUFFICES ASSUME IInv, MeterInv, [Next]_vars PROVE MeterInv'
  OBVIOUS
<1>0. TypeOK
  BY DEF IInv
<1>1. ASSUME NEW r \in Requests, NEW route \in Route, NEW k \in Keys,
             NEW c \in Credentials, Auth(r, route, k, c)
      PROVE  MeterInv'
  <2>1. /\ ~Arrived(r) /\ Arrived(r)' /\ req' = [req EXCEPT ![r] = req'[r]]
        /\ req'[r].out = "none" /\ usage' = usage
    BY <1>0, <1>1, AuthMoves DEF Asking
  <2>2. Metered(r)'
    BY <2>1 DEF MeterInv, Metered
  <2> QED  BY <1>0, <2>1, <2>2, OthersAreMetered
<1>2. ASSUME NEW r \in Requests,
             \/ Incr(r) \/ IncrAgain(r) \/ IncrFails(r) \/ Expire(r) \/ Gone(r)
      PROVE  MeterInv'
  <2>1. /\ Moves(r) /\ usage' = usage /\ req'[r].out \in {"none", "429", "gone"}
        /\ req'[r].out = "429" => req'[r].at = 2
    BY <1>0, <1>2, IncrMoves, IncrAgainMoves, IncrFailsMoves, ExpireMoves, GoneMoves
       DEF Asking
  <2>2. usage[r] = "none"
    BY <2>1 DEF MeterInv, Metered, Moves
  <2>3. Metered(r)'
    BY <2>1, <2>2 DEF Metered
  <2> QED  BY <1>0, <2>1, <2>3, OthersAreMetered DEF Moves
<1>3. ASSUME NEW r \in Requests,
             \/ RequireRole(r) \/ RequireFeature(r) \/ ServeExport(r) \/ ReadKey(r)
             \/ DeactivateKey(r) \/ CreateKey(r) \/ StatementFails(r)
      PROVE  MeterInv'
  <2>1. /\ Moves(r)
        /\ \/ req'[r].out = "none" /\ usage' = usage
           \/ /\ req'[r].out \in {"ok", "403", "404", "500"}
              /\ usage' = [usage EXCEPT ![r] = "started"]
    BY <1>0, <1>3, LaterMoves
  <2>2. usage[r] = "none" /\ DOMAIN usage = Requests
    BY <1>0, <2>1 DEF MeterInv, Metered, Moves, TypeOK
  <2>3. Arrived(r)'
    BY <2>1 DEF Moves, Request, Arrived
  <2>4. Metered(r)'
    BY <2>1, <2>2, <2>3 DEF Metered
  <2> QED  BY <1>0, <2>1, <2>4, OthersAreMetered DEF Moves
<1>4. CASE \/ Tick \/ UNCHANGED vars
           \/ \E i \in Identities, w \in Windows : CounterExpires(i, w)
           \/ \E t \in Managed : Operate(t)
  <2>1. UNCHANGED <<req, usage>>
    BY <1>4 DEF Tick, CounterExpires, Operate, vars
  <2> QED  BY <2>1 DEF MeterInv, Metered, Arrived
<1> QED  BY <1>1, <1>2, <1>3, <1>4 DEF Next

\* UsageMetering sits outside the role and feature checks: whatever is let
\* pass by the limiter is metered once it is answered, and nothing else is.
THEOREM MeteringMissesNothing == Spec => []MeteringIsComplete
<1>1. Init => MeterInv
  BY DEF Init, MeterInv, Metered, Arrived, NotArrived
<1>2. IInv /\ MeterInv => MeteringIsComplete
  <2> SUFFICES ASSUME IInv, MeterInv, NEW r \in Requests, Arrived(r),
                      req[r].out \notin {"none", "gone"}
               PROVE  usage[r] = "none" <=> req[r].out = "429"
    BY DEF MeteringIsComplete
  <2>1. req[r].out \in {"ok", "403", "404", "429", "500"} /\ Metered(r)
    BY Positions DEF IInv, MeterInv, Request
  <2> QED  BY <2>1 DEF Metered
<1> QED  BY <1>1, <1>2, MeterNext, Inductive, PTL DEF Spec
=============================================================================
