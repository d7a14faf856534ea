----------------------------- MODULE UserRoles -----------------------------
(***************************************************************************)
(* Role and status changes of a tenant's users.  A handler reads the       *)
(* target, counts the tenant's admins when an admin would be lost, and     *)
(* writes: three statements with no transaction around them.  The caller   *)
(* is an admin according to its access token, which outlives the row it    *)
(* was issued from.                                                        *)
(*                                                                         *)
(* Sources: internal/service/user_service.go (UpdateRole, SetActive),      *)
(* internal/repository/user_repository.go, and the issuing of access       *)
(* tokens by internal/service/auth_service.go.                             *)
(***************************************************************************)
EXTENDS Integers, FiniteSets

CONSTANTS
    Users,
    Tenants,
    TenantOf,       \* TenantOf[u]: users.tenant_id, which nothing updates
    Handlers,       \* request goroutines
    Overlap         \* may two changes of one tenant's users be in flight?

ASSUME UsersAssumption == IsFiniteSet(Users)
ASSUME TenantOfAssumption == TenantOf \in [Users -> Tenants]
ASSUME OverlapAssumption == Overlap \in BOOLEAN

Role == {"admin", "developer", "viewer"}

\* What a request writes: a role, or is_active on or off.
Change == Role \cup {"on", "off"}

Request == [target : Users, to : Change, seen : Role, checked : BOOLEAN]
NoRequest == [checked |-> FALSE]

VARIABLES
    role,           \* users.role
    active,         \* users.is_active
    adminToken,     \* users with an unexpired access token that says "admin"
    req             \* req[h]: the change h is working on

vars == <<role, active, adminToken, req>>

InFlight(h) == req[h] # NoRequest

ActiveAdmins(t) == {u \in Users : TenantOf[u] = t /\ role[u] = "admin" /\ active[u]}

\* The change takes the admin role away from, or deactivates, a user that
\* was read as an admin.
LosesAdmin(r) == r.seen = "admin" /\ r.to \in (Role \ {"admin"}) \cup {"off"}

-----------------------------------------------------------------------------
\* Signup makes the first user of a tenant an active admin; cmd/seed adds
\* users of any role.
Init ==
    /\ role \in [Users -> Role]
    /\ active = [u \in Users |-> TRUE]
    /\ \A t \in Tenants : \E u \in Users : TenantOf[u] = t /\ role[u] = "admin"
    /\ adminToken = {}
    /\ req = [h \in Handlers |-> NoRequest]

\* Login or Refresh: the role claim is the row's role at that moment.
IssueToken(u) ==
    /\ active[u]
    /\ adminToken' = IF role[u] = "admin" THEN adminToken \cup {u} ELSE adminToken
    /\ UNCHANGED <<role, active, req>>

\* ACCESS_TOKEN_TTL passes.  Demotion and deactivation revoke no token.
TokenExpires(u) ==
    /\ adminToken' = adminToken \ {u}
    /\ UNCHANGED <<role, active, req>>

\* The head of UpdateRole and SetActive, up to Get: the token says admin,
\* nobody changes themselves, a user of another tenant is not found, and a
\* role the target already has is not written.
Read(h, u, v, to) ==
    /\ ~InFlight(h)
    /\ u \in adminToken /\ u # v /\ TenantOf[u] = TenantOf[v] /\ to # role[v]
    /\ Overlap \/ \A g \in Handlers :
                     InFlight(g) => TenantOf[req[g].target] # TenantOf[v]
    /\ LET r == [target |-> v, to |-> to, seen |-> role[v], checked |-> FALSE]
       IN  req' = [req EXCEPT ![h] = [r EXCEPT !.checked = ~LosesAdmin(r)]]
    /\ UNCHANGED <<role, active, adminToken>>

\* A count that forgets is_active = TRUE.
CountAdminsInTenant_AnyStatus(t) ==
    Cardinality({u \in Users : TenantOf[u] = t /\ role[u] = "admin"})

CountAdminsInTenant(t) == Cardinality(ActiveAdmins(t))

\* The last-admin check: go on to the write, or answer 409.
CheckAdmins(h) ==
    /\ InFlight(h) /\ ~req[h].checked
    /\ req' = [req EXCEPT ![h] =
                 IF CountAdminsInTenant(TenantOf[req[h].target]) <= 1
                 THEN NoRequest ELSE [@ EXCEPT !.checked = TRUE]]
    /\ UNCHANGED <<role, active, adminToken>>

\* is_active written to the role column.
Write_WrongColumn(h) ==
    /\ InFlight(h) /\ req[h].checked
    /\ role' = [role EXCEPT ![req[h].target] = req[h].to]
    /\ req' = [req EXCEPT ![h] = NoRequest]
    /\ UNCHANGED <<active, adminToken>>

\* UpdateRoleInTenant or SetActiveInTenant: one UPDATE by id and tenant.
Write(h) ==
    /\ InFlight(h) /\ req[h].checked
    /\ IF req[h].to \in Role
       THEN /\ role' = [role EXCEPT ![req[h].target] = req[h].to]
            /\ UNCHANGED active
       ELSE /\ active' = [active EXCEPT ![req[h].target] = (req[h].to = "on")]
            /\ UNCHANGED role
    /\ req' = [req EXCEPT ![h] = NoRequest]
    /\ UNCHANGED adminToken

\* A statement fails or the client goes away: the request ends there.
Abort(h) ==
    /\ InFlight(h)
    /\ req' = [req EXCEPT ![h] = NoRequest]
    /\ UNCHANGED <<role, active, adminToken>>

Next ==
    \/ \E u \in Users : IssueToken(u) \/ TokenExpires(u)
    \/ \E h \in Handlers, u, v \in Users, to \in Change : Read(h, u, v, to)
    \/ \E h \in Handlers : CheckAdmins(h) \/ Write(h) \/ Abort(h)

Spec == Init /\ [][Next]_vars

-----------------------------------------------------------------------------
(* Properties **************************************************************)

\* Every variable keeps its type: a change lands in its own column.
TypeOK ==
    /\ role \in [Users -> Role]
    /\ active \in [Users -> BOOLEAN]
    /\ adminToken \subseteq Users
    /\ req \in [Handlers -> Request \cup {NoRequest}]

\* "A tenant's last active admin may not be demoted", nor deactivated
\* (UpdateRole, rule 3, and SetActive), whatever stale tokens are used.
EveryTenantHasAnAdmin == \A t \in Tenants : ActiveAdmins(t) # {}

\* The role a handler checked and reports as previous_role is the role the
\* row has when it is written (UpdateRole captures it before the write).
SnapshotIsCurrent ==
    \A h \in Handlers : InFlight(h) => req[h].seen = role[req[h].target]
=============================================================================
