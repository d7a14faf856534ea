---------------------------- MODULE RequestChain ----------------------------
(***************************************************************************)
(* Authenticated requests on their way through the middleware chain of     *)
(* cmd/api/routes.go - authenticate, rate limit, meter, require a role or  *)
(* a feature - to the handlers that generate, rotate and deactivate API    *)
(* keys, or to an export handler (whose work is ExportQueue's).            *)
(*                                                                         *)
(* Sources: cmd/api/routes.go, internal/middleware (chain, context, auth,  *)
(* ratelimit, usage, rbac), internal/service/apikey_service.go and its     *)
(* repository.  The tenant's own status is TenantPlane's concern.          *)
(***************************************************************************)
EXTENDS Integers, FiniteSets, Sequences

CONSTANTS
    Tenants,
    Requests,       \* requests, each served by a goroutine of its own
    NumKeys,        \* bound: rows of api_keys
    Issued,         \* Issued[k]: the tenant key k was issued to at the start
    Tokens,         \* access tokens in circulation: tenant and role of each
    Managed,        \* bound: tenants whose entitlements operators change
    Limit,          \* RATE_LIMIT_RPM
    LastWindow,     \* bound: the minutes of a behaviour are 0..LastWindow
    Faults          \* bound: requests that meet a fault of Redis, of a
                    \* statement or of the process

ASSUME TenantsAssumption == Tenants # {} /\ "ip" \notin Tenants
ASSUME BoundsAssumption == NumKeys \in Nat /\ LastWindow \in Nat /\ Faults \in Nat
ASSUME IssuedAssumption == /\ DOMAIN Issued \subseteq 1..NumKeys
                           /\ Issued \in [DOMAIN Issued -> Tenants]
ASSUME TokensAssumption ==
    Tokens \subseteq [tenant : Tenants, role : {"viewer", "developer"}]
ASSUME ManagedAssumption == Managed \subseteq Tenants
ASSUME LimitAssumption == Limit \in Nat \ {0}

Keys == 1..NumKeys
Windows == 0..LastWindow
Identities == Tenants \cup {"ip"}

\* The routes told apart: three on API keys, one behind RequireFeature.
Route == {"generate", "rotate", "deactivate", "export"}
Targeted == {"rotate", "deactivate"}

Outcome == {"none", "ok", "401", "403", "404", "429", "500", "gone"}

\* at: the layer a request is in.  sub: the statement inside that layer.
\* by: the API key it was authenticated with (0: an access token).  plan:
\* the tenant's, as Auth read it (kept for RequireFeature only).  redis: what
\* became of its INCR.  made: a history, its INCR created the counter.
Request ==
    [route : Route, target : Keys, by : 0..NumKeys, tenant : Tenants,
     role : {"viewer", "developer"}, plan : {"free", "pro"},
     at : 2..5, sub : {"first", "expire", "deactivate", "create"},
     window : Windows, redis : {"none", "counted", "retried", "failed", "kept"},
     made : BOOLEAN,
     out : {"none", "ok", "403", "404", "429", "500", "gone"}]
NotArrived == [at |-> 0]

VARIABLES
    key,            \* api_keys: state and tenant of every row
    counter,        \* Redis: counter[i][w] of identity i in window w
    window,         \* the current minute
    plan,           \* tenants.plan: does it include the feature?
    grant,          \* tenant_features: is the feature granted?
    req,            \* req[r]: how far request r has come
    entitled,       \* history: r's tenant had the feature at some moment
                    \* between r's authentication and its gate
    usage           \* usage[r]: has the goroutine that meters r been started?
                    \* It stores a row that nothing here reads, or fails to.

vars == <<key, counter, window, plan, grant, req, entitled, usage>>

NoCounter == [n |-> 0, ttl |-> FALSE]

-----------------------------------------------------------------------------
(* The chain ***************************************************************)

\* The metering layer inside the role check.
Chain_MetersLast(route) ==
    IF route = "export" THEN <<"auth", "limit", "feature", "meter", "handler">>
                        ELSE <<"auth", "limit", "role", "meter", "handler">>

\* mw.Chain(Auth, RateLimit, UsageMetering), then RequireRole(developer) or
\* RequireFeature, then the handler.
Chain(route) ==
    IF route = "export" THEN <<"auth", "limit", "meter", "feature", "handler">>
                        ELSE <<"auth", "limit", "meter", "role", "handler">>

Arrived(r) == req[r].at > 0

In(r, layer) ==
    /\ Arrived(r)
    /\ req[r].out = "none"
    /\ Chain(req[r].route)[req[r].at] = layer

\* r has been passed on by this layer to the next one.
Passed(r, layer) ==
    \E i \in 1..(req[r].at - 1) : Chain(req[r].route)[i] = layer

\* The next layer that may stop the request: UsageMetering only notes the
\* time on the way in.
NextLayer(q) ==
    IF Chain(q.route)[q.at + 1] = "meter" THEN q.at + 2 ELSE q.at + 1

\* next.ServeHTTP.
Serve(r, q) ==
    /\ req' = [req EXCEPT ![r] = [q EXCEPT !.at = NextLayer(q), !.sub = "first"]]
    /\ UNCHANGED usage

\* The response of r, on its way out of the chain: UsageMetering starts a
\* goroutine that records it.
Answer(r, q, out) ==
    /\ req' = [req EXCEPT ![r] = [q EXCEPT !.out = out]]
    /\ usage' = IF Passed(r, "meter") THEN [usage EXCEPT ![r] = "started"]
                                      ELSE usage

Goto(r, q) ==
    /\ req' = [req EXCEPT ![r] = q]
    /\ UNCHANGED usage

MetFault(r) ==
    Arrived(r) /\ \/ req[r].redis \in {"retried", "failed", "kept"}
                  \/ req[r].out \in {"500", "gone"}

MayFail(r) == Cardinality({q \in Requests \ {r} : MetFault(q)}) < Faults

-----------------------------------------------------------------------------
Init ==
    /\ key = [k \in Keys |->
                 IF k \in DOMAIN Issued
                 THEN [state |-> "live", tenant |-> Issued[k]]
                 ELSE [state |-> "none", tenant |-> CHOOSE t \in Tenants : TRUE]]
    /\ counter = [i \in Identities |-> [w \in Windows |-> NoCounter]]
    /\ window = 0
    /\ plan = [t \in Tenants |-> "free"]
    /\ grant = [t \in Tenants |-> FALSE]
    /\ req = [r \in Requests |-> NotArrived]
    /\ entitled = [r \in Requests |-> FALSE]
    /\ usage = [r \in Requests |-> "none"]

(* The layers **************************************************************)

HasFeature(t, p) == grant[t] \/ p = "pro"

\* What Auth accepts: an active API key, which acts as a developer, or an
\* access token, which says its tenant and role.
Credentials ==
    {[by |-> k, tenant |-> key[k].tenant, role |-> "developer"] :
        k \in {l \in Keys : key[l].state = "live"}}
    \cup {[by |-> 0, tenant |-> c.tenant, role |-> c.role] : c \in Tokens}

\* Auth: the credential is accepted and the tenant's plan read; as no
\* property relates the two reads, they are one step, whose moment is that of
\* either.  A request that is refused here changes nothing.  RateLimit, next,
\* looks at the clock.  A key id nobody has is no different from another
\* tenant's.
Auth(r, route, target, c) ==
    /\ ~Arrived(r)
    /\ IF route \in Targeted THEN key[target].state # "none" ELSE target = 1
    /\ Serve(r, [route |-> route, target |-> target, by |-> c.by,
                 tenant |-> c.tenant, role |-> c.role,
                 plan |-> IF route = "export" THEN plan[c.tenant] ELSE "free",
                 at |-> 1, sub |-> "first", window |-> window,
                 redis |-> "none", made |-> FALSE, out |-> "none"])
    /\ entitled' = [entitled EXCEPT ![r] = /\ route = "export"
                                           /\ HasFeature(c.tenant, plan[c.tenant])]
    /\ UNCHANGED <<key, counter, window, plan, grant>>

\* One counter for all callers.
Identity_PerAddress(r) == "ip"

\* "tenant:" + ac.TenantID behind Auth, the client's address without it.
Identity(r) == IF Passed(r, "auth") THEN req[r].tenant ELSE "ip"

\* A limit that lets one more request pass.
Exceeds_OffByOne(n) == n > Limit + 1

Exceeds(n) == n > Limit

\* The counter given its TTL by the second request of a window.
SetsExpiry_Second(n) == n = 2

SetsExpiry(n) == n = 1

\* Incr, one command of Redis: the next statement depends on its reply.
Incr(r) ==
    LET i == Identity(r)
        w == req[r].window
        n == counter[i][w].n + 1
        q == [req[r] EXCEPT !.redis = IF @ = "none" THEN "counted" ELSE @,
                            !.made = @ \/ n = 1]
    IN  /\ In(r, "limit") /\ q.sub = "first"
        /\ counter' = [counter EXCEPT ![i][w].n = n]
        /\ IF SetsExpiry(n) THEN Goto(r, [q EXCEPT !.sub = "expire"])
           ELSE IF Exceeds(n) THEN Answer(r, q, "429") ELSE Serve(r, q)
        /\ UNCHANGED <<key, window, plan, grant, entitled>>

\* The reply to an INCR is lost and the Redis client sends it again (bound:
\* once).
IncrAgain(r) ==
    LET i == Identity(r)
        w == req[r].window
        n == counter[i][w].n + 1
    IN  /\ In(r, "limit") /\ req[r].sub = "first" /\ req[r].redis = "none"
        /\ MayFail(r)
        /\ counter' = [counter EXCEPT ![i][w].n = n]
        /\ Goto(r, [req[r] EXCEPT !.redis = "retried", !.made = n = 1])
        /\ UNCHANGED <<key, window, plan, grant, entitled>>

\* "Fail open": Incr returns an error and the request is passed on.
IncrFails(r) ==
    /\ In(r, "limit") /\ req[r].sub = "first"
    /\ MayFail(r)
    /\ Serve(r, [req[r] EXCEPT !.redis = "failed"])
    /\ UNCHANGED <<key, counter, window, plan, grant, entitled>>

\* Expire, whose error is discarded; the first request of a window never
\* exceeds the limit.
Expire(r) ==
    /\ In(r, "limit") /\ req[r].sub = "expire"
    /\ \/ /\ counter' = [counter EXCEPT ![Identity(r)][req[r].window].ttl = TRUE]
          /\ Serve(r, req[r])
       \/ /\ MayFail(r)
          /\ UNCHANGED counter
          /\ Serve(r, [req[r] EXCEPT !.redis = "kept"])
    /\ UNCHANGED <<key, window, plan, grant, entitled>>

\* RequireRole(developer).
RequireRole(r) ==
    /\ In(r, "role")
    /\ IF req[r].role = "developer" THEN Serve(r, req[r])
                                    ELSE Answer(r, req[r], "403")
    /\ UNCHANGED <<key, counter, window, plan, grant, entitled>>

\* A gate that passes a request on when it cannot tell, as RateLimit does.
RequireFeature_FailsOpen(r) ==
    /\ In(r, "feature")
    /\ Serve(r, req[r]) \/ Answer(r, req[r], "403")
    /\ UNCHANGED <<key, counter, window, plan, grant, entitled>>

\* RequireFeature: the grant is read now, the plan was read by Auth.
RequireFeature(r) ==
    /\ In(r, "feature")
    /\ IF HasFeature(req[r].tenant, req[r].plan) THEN Serve(r, req[r])
                                                 ELSE Answer(r, req[r], "403")
    /\ UNCHANGED <<key, counter, window, plan, grant, entitled>>

(* The handlers ************************************************************)

AtHandler(r, routes, sub) ==
    In(r, "handler") /\ req[r].route \in routes /\ req[r].sub = sub

\* The export routes: what they do is ExportQueue's concern.
ServeExport(r) ==
    /\ AtHandler(r, {"export"}, "first")
    /\ Answer(r, req[r], "ok")
    /\ UNCHANGED <<key, counter, window, plan, grant, entitled>>

\* GetByID without the comparison of the tenants.
FindKey_AnyTenant(r) == key[req[r].target].state # "none"

\* GetByID, and the tenant compared in Go.
FindKey(r) ==
    /\ key[req[r].target].state # "none"
    /\ key[req[r].target].tenant = req[r].tenant

\* Rotate and Deactivate, up to the read of the existing key.
ReadKey(r) ==
    /\ AtHandler(r, Targeted, "first")
    /\ IF FindKey(r) THEN Goto(r, [req[r] EXCEPT !.sub = "deactivate"])
                     ELSE Answer(r, req[r], "404")
    /\ UNCHANGED <<key, counter, window, plan, grant, entitled>>

Revoked_NewStatus(row) == [row EXCEPT !.state = "inactive"]

\* UPDATE ... WHERE id = $1 AND revoked_at IS NULL.
Revoked(row) == [row EXCEPT !.state = IF @ = "live" THEN "revoked" ELSE @]

\* A rotation that ignores every error of the deactivation.
DeactivateKey_IgnoresErrors(r) ==
    LET k == req[r].target
    IN  /\ AtHandler(r, Targeted, "deactivate")
        /\ key' = [key EXCEPT ![k] = Revoked(@)] \/ UNCHANGED key
        /\ IF req[r].route = "rotate" THEN Goto(r, [req[r] EXCEPT !.sub = "create"])
                                      ELSE Answer(r, req[r], "ok")
        /\ UNCHANGED <<counter, window, plan, grant, entitled>>

\* APIKeyRepository.Deactivate.  Finding the key revoked already is fine
\* for a rotation and an internal error for a deactivation; a lost reply is
\* an error for both.
DeactivateKey(r) ==
    LET k == req[r].target
    IN  /\ AtHandler(r, Targeted, "deactivate")
        /\ key' = [key EXCEPT ![k] = Revoked(@)]
        /\ \/ IF req[r].route = "rotate"
              THEN Goto(r, [req[r] EXCEPT !.sub = "create"])
              ELSE Answer(r, req[r], IF key[k].state = "live" THEN "ok" ELSE "500")
           \/ MayFail(r) /\ Answer(r, req[r], "500")
        /\ UNCHANGED <<counter, window, plan, grant, entitled>>

\* Generate: a new key is stored and its plaintext returned, or the reply
\* of the INSERT is lost and with it the plaintext.
CreateKey(r) ==
    /\ AtHandler(r, {"generate"}, "first") \/ AtHandler(r, {"rotate"}, "create")
    /\ \E k \in Keys :
          /\ key[k].state = "none"
          /\ \A l \in Keys : l < k => key[l].state # "none"
          /\ key' = [key EXCEPT ![k] = [state |-> "live", tenant |-> req[r].tenant]]
    /\ Answer(r, req[r], "ok") \/ (MayFail(r) /\ Answer(r, req[r], "500"))
    /\ UNCHANGED <<counter, window, plan, grant, entitled>>

(* Failures and surroundings ***********************************************)

\* A statement fails without effect, or the client is gone and with it the
\* context of the statement.
StatementFails(r) ==
    /\ In(r, "feature") \/ (In(r, "handler") /\ req[r].route # "export")
    /\ MayFail(r)
    /\ Answer(r, req[r], "500")
    /\ UNCHANGED <<key, counter, window, plan, grant, entitled>>

\* The process dies or the handler panics: nothing is metered, and no
\* statement that was next will follow.
Gone(r) ==
    /\ Arrived(r) /\ req[r].out = "none" /\ MayFail(r)
    /\ req' = [req EXCEPT ![r] = [@ EXCEPT !.out = "gone", !.sub = "first"]]
    /\ UNCHANGED <<key, counter, window, plan, grant, entitled, usage>>

\* A minute passes.  RateLimit gives Redis two seconds, so no request is in
\* it for longer than the window it computed and the next.
Tick ==
    /\ window < LastWindow
    /\ \A r \in Requests : In(r, "limit") => req[r].window = window
    /\ window' = window + 1
    /\ UNCHANGED <<key, counter, plan, grant, req, entitled, usage>>

\* The TTL of 90 seconds is over: the window is, and nobody is late for it.
CounterExpires(i, w) ==
    /\ counter[i][w].ttl
    /\ w < window
    /\ \A r \in Requests : In(r, "limit") => req[r].window # w
    /\ counter' = [counter EXCEPT ![i][w] = NoCounter]
    /\ UNCHANGED <<key, window, plan, grant, req, entitled, usage>>

\* An operator changes the plan or grants or withdraws the feature.
Operate(t) ==
    /\ \/ plan' = [plan EXCEPT ![t] = IF @ = "pro" THEN "free" ELSE "pro"] /\ UNCHANGED grant
       \/ grant' = [grant EXCEPT ![t] = ~@] /\ UNCHANGED plan
    /\ entitled' = [r \in Requests |->
                      \/ entitled[r]
                      \/ /\ In(r, "limit") \/ In(r, "feature")
                         /\ req[r].route = "export" /\ req[r].tenant = t
                         /\ grant'[t] \/ plan'[t] = "pro"]
    /\ UNCHANGED <<key, counter, window, req, usage>>

Next ==
    \/ \E r \in Requests, route \in Route, k \in Keys, c \in Credentials :
          Auth(r, route, k, c)
    \/ \E r \in Requests : \/ Incr(r) \/ IncrAgain(r) \/ IncrFails(r) \/ Expire(r)
                           \/ RequireRole(r) \/ RequireFeature(r)
                           \/ ServeExport(r) \/ ReadKey(r) \/ DeactivateKey(r)
                           \/ CreateKey(r)
                           \/ StatementFails(r) \/ Gone(r)
    \/ Tick
    \/ \E i \in Identities, w \in Windows : CounterExpires(i, w)
    \/ \E t \in Managed : Operate(t)

Spec == Init /\ [][Next]_vars

-----------------------------------------------------------------------------
(* Properties **************************************************************)

\* Every variable keeps its type.
TypeOK ==
    /\ key \in [Keys -> [state : {"none", "live", "revoked"}, tenant : Tenants]]
    /\ counter \in [Identities -> [Windows -> [n : Nat, ttl : BOOLEAN]]]
    /\ window \in Windows
    /\ plan \in [Tenants -> {"free", "pro"}]
    /\ grant \in [Tenants -> BOOLEAN]
    /\ req \in [Requests -> Request \cup {NotArrived}]
    /\ entitled \in [Requests -> BOOLEAN]
    /\ usage \in [Requests -> {"none", "started"}]

Of(t, w) == {r \in Requests : Arrived(r) /\ req[r].tenant = t /\ req[r].window = w}

\* No tenant gets more than Limit requests past the limiter in one window,
\* however they interleave, except those that found Redis failing (RateLimit).
LimitHolds ==
    \A t \in Tenants, w \in Windows :
        Cardinality({r \in Of(t, w) : Passed(r, "limit") /\ req[r].redis # "failed"})
            <= Limit

\* A "single noisy tenant" does not degrade service for the others: who is
\* answered 429 has alone used up the window (RateLimit keys per tenant).
\* A repeated INCR costs twice.
NoNoisyNeighbour ==
    \A r \in Requests : Arrived(r) /\ req[r].out = "429" =>
        LET own == {q \in Of(req[r].tenant, req[r].window) : req[q].redis # "none"}
        IN  Cardinality(own) + Cardinality({q \in own : req[q].redis = "retried"})
                > Limit

\* r created its counter and was cut off before the TTL was set: a reply was
\* lost or an error came back (Incr, Expire), or r died between the two.
CutOff(r) ==
    req[r].made /\ \/ req[r].redis \in {"retried", "failed", "kept"}
                   \/ req[r].out = "gone" /\ ~Passed(r, "limit")

\* Only the request that created a counter can leave it without a TTL, and
\* only by being cut off between Incr and Expire: no order of the requests
\* and windows leaves one behind.
CountersAreShortLived ==
    \A i \in Identities, w \in Windows :
        counter[i][w].n > 0 /\ ~counter[i][w].ttl =>
            \E r \in Requests :
                /\ Arrived(r) /\ Identity(r) = i /\ req[r].window = w
                /\ (In(r, "limit") /\ req[r].sub = "expire") \/ CutOff(r)

\* What the limiter lets pass is metered once it is answered, also when a
\* role or a feature is missing, and what the limiter refuses is not.
MeteringIsComplete ==
    \A r \in Requests : Arrived(r) /\ req[r].out \notin {"none", "gone"} =>
        (usage[r] = "none" <=> req[r].out = "429")

\* A request reaches an export handler only if its tenant was entitled at
\* some moment since the request was authenticated, although the gate puts
\* the plan of one moment together with the grant of another.
EntitledWhenServed ==
    \A r \in Requests :
        Arrived(r) /\ req[r].route = "export" /\ Passed(r, "feature") => entitled[r]

\* A key is created or revoked only on behalf of a developer of its tenant.
OwnKeysOnly ==
    [][\A k \in Keys : key'[k] # key[k] =>
          \E r \in Requests : /\ In(r, "handler")
                              /\ req[r].role = "developer"
                              /\ req[r].tenant = key'[k].tenant]_vars

\* Once a rotation or a deactivation of a key has been answered with
\* success, no later request is authenticated with that key, whatever other
\* requests about the key and failing statements did in between.
RevokedKeysAreRefused ==
    [][\A r, q \in Requests :
          /\ ~Arrived(r) /\ Arrived(r)'
          /\ Arrived(q) /\ req[q].out = "ok" /\ req[q].route \in Targeted
          => req'[r].by # req[q].target]_vars
=============================================================================
