---------------------------- MODULE TenantPlane ----------------------------
(***************************************************************************)
(* Tenant rows, written by platform operators and by the tenants' own      *)
(* admins, and read by every request.  An update reads the    *)
(* row, changes the fields its input names and writes name, plan and       *)
(* is_active back, in two statements with no transaction and no version.   *)
(*                                                                         *)
(* Sources: internal/service/tenant_service.go (Create, Update, Delete,    *)
(* UpdateForScope), internal/repository/tenant_repository.go, and the      *)
(* tenant check of internal/middleware/auth.go.                            *)
(***************************************************************************)
CONSTANTS
    Tenants,
    Plans,
    Handlers,       \* request goroutines
    Overlap         \* may two updates of one tenant be in flight?

ASSUME PlansAssumption == Plans # {} /\ "keep" \notin Plans
ASSUME OverlapAssumption == Overlap \in BOOLEAN

\* plan and is_active of a tenants row; no property tells names apart.
Profile == [plan : Plans, active : {"on", "off"}]

\* The input of an update: the fields that are not nil.
Change == [plan : Plans \cup {"keep"}, active : {"on", "off", "keep"}]
RenameOnly == [plan |-> "keep", active |-> "keep"]

\* A request past middleware.Auth: the plan it read and, as a history, the
\* operators' order in force at that moment.
Authed == [step : {"authed"}, tenant : Tenants, plan : Plans, since : Profile]

\* An update between its read and its write: the row it will write and, as
\* a history, the fields an operator ordered (none, for a tenant's admin).
Update == [step : {"write"}, tenant : Tenants, order : Change, image : Profile]

NoRequest == [step |-> "none"]

VARIABLES
    state,          \* tenants: "none", "live", or "deleted" (deleted_at set)
    profile,        \* tenants: plan and is_active
    req,            \* req[h]: the request h is working on
    ordered         \* history: what operators last got acknowledged

vars == <<state, profile, req, ordered>>

Updating(t) == \E h \in Handlers : req[h].step = "write" /\ req[h].tenant = t

-----------------------------------------------------------------------------
Init ==
    /\ state = [t \in Tenants |-> "none"]
    /\ profile = [t \in Tenants |-> [plan |-> CHOOSE p \in Plans : TRUE,
                                     active |-> "off"]]
    /\ req = [h \in Handlers |-> NoRequest]
    /\ ordered = profile

\* TenantService.Create, or Signup: a new active tenant.
Create(t, p) ==
    /\ state[t] = "none"
    /\ state' = [state EXCEPT ![t] = "live"]
    /\ profile' = [profile EXCEPT ![t] = [plan |-> p, active |-> "on"]]
    /\ ordered' = [ordered EXCEPT ![t] = [plan |-> p, active |-> "on"]]
    /\ UNCHANGED req

\* The tenant's state taken from the token's claims.
Auth_TrustsToken(h, t) ==
    /\ req[h] = NoRequest
    /\ state[t] = "live"
    /\ req' = [req EXCEPT ![h] = [step |-> "authed", tenant |-> t,
                                  plan |-> profile[t].plan,
                                  since |-> ordered[t]]]
    /\ UNCHANGED <<state, profile, ordered>>

\* middleware.Auth: the credential's tenant is read and must be active.
Auth(h, t) ==
    /\ req[h] = NoRequest
    /\ state[t] = "live"
    /\ profile[t].active = "on"
    /\ req' = [req EXCEPT ![h] = [step |-> "authed", tenant |-> t,
                                  plan |-> profile[t].plan,
                                  since |-> ordered[t]]]
    /\ UNCHANGED <<state, profile, ordered>>

\* An is_active that is not checked for nil.
Apply_NilIsActive(c, p) ==
    [plan |-> IF c.plan = "keep" THEN p.plan ELSE c.plan, active |-> c.active]

\* The fields the input names, on top of what was read.
Apply(c, p) ==
    [plan |-> IF c.plan = "keep" THEN p.plan ELSE c.plan,
     active |-> IF c.active = "keep" THEN p.active ELSE c.active]

\* The first half of an update: GetByID finds the row, the input is applied
\* to the copy in memory.
ReadRow(h, t, c, order) ==
    /\ state[t] = "live"
    /\ Overlap \/ ~Updating(t)
    /\ req' = [req EXCEPT ![h] = [step |-> "write", tenant |-> t, order |-> order,
                                  image |-> Apply(c, profile[t])]]
    /\ UNCHANGED <<state, profile, ordered>>

\* TenantService.Update, for a platform operator.
UpdateTenant(h, t, c) ==
    /\ req[h] = NoRequest
    /\ ReadRow(h, t, c, c)

\* A self-service update that also takes the plan from its input.
UpdateForScope_SetsPlan(h) ==
    /\ req[h].step = "authed"
    /\ \E p \in Plans : ReadRow(h, req[h].tenant, [plan |-> p, active |-> "keep"],
                               RenameOnly)

\* TenantService.UpdateForScope: an admin renames the own tenant.
UpdateForScope(h) ==
    /\ req[h].step = "authed"
    /\ ReadRow(h, req[h].tenant, RenameOnly, RenameOnly)

\* The UPDATE without AND deleted_at IS NULL.
Write_Undeletes(h) ==
    /\ req[h].step = "write"
    /\ LET t == req[h].tenant
       IN  /\ profile' = [profile EXCEPT ![t] = req[h].image]
           /\ ordered' = [ordered EXCEPT ![t] = Apply(req[h].order, @)]
    /\ req' = [req EXCEPT ![h] = NoRequest]
    /\ UNCHANGED state

\* TenantRepository.Update: the whole row, unless it is deleted by now.
Write(h) ==
    /\ req[h].step = "write"
    /\ LET t == req[h].tenant
       IN  IF state[t] = "live"
           THEN /\ profile' = [profile EXCEPT ![t] = req[h].image]
                /\ ordered' = [ordered EXCEPT ![t] = Apply(req[h].order, @)]
           ELSE UNCHANGED <<profile, ordered>>
    /\ req' = [req EXCEPT ![h] = NoRequest]
    /\ UNCHANGED state

\* The request ends: served, refused, failed or abandoned.
Done(h) ==
    /\ req[h] # NoRequest
    /\ req' = [req EXCEPT ![h] = NoRequest]
    /\ UNCHANGED <<state, profile, ordered>>

\* TenantService.Delete: one UPDATE of deleted_at.
Delete(t) ==
    /\ state[t] = "live"
    /\ state' = [state EXCEPT ![t] = "deleted"]
    /\ UNCHANGED <<profile, req, ordered>>

Next ==
    \/ \E t \in Tenants, p \in Plans : Create(t, p)
    \/ \E h \in Handlers, t \in Tenants : Auth(h, t)
    \/ \E h \in Handlers, t \in Tenants, c \in Change : UpdateTenant(h, t, c)
    \/ \E h \in Handlers : UpdateForScope(h) \/ Write(h) \/ Done(h)
    \/ \E t \in Tenants : Delete(t)

Spec == Init /\ [][Next]_vars

-----------------------------------------------------------------------------
(* Properties **************************************************************)

\* Every variable keeps its type: no update writes the "keep" of a nil
\* input field into a row.
TypeOK ==
    /\ state \in [Tenants -> {"none", "live", "deleted"}]
    /\ profile \in [Tenants -> Profile]
    /\ req \in [Handlers -> Authed \cup Update \cup {NoRequest}]
    /\ ordered \in [Tenants -> Profile]

\* A tenant's plan and status are what platform operators last ordered: an
\* admin's rename changes neither ("Plan is intentionally not settable here").
OrdersStand == \A t \in Tenants : profile[t] = ordered[t]

\* "Suspension actually suspends": a request is past authentication only if
\* its tenant was not suspended when it got there, and it is gated by the
\* plan then in force (the comment of middleware.Auth).
SuspensionSuspends ==
    \A h \in Handlers : req[h].step = "authed" =>
        /\ req[h].since.active = "on"
        /\ req[h].plan = req[h].since.plan

\* A deleted tenant stays deleted and its row is not written any more, also
\* by an update that read it before it was deleted.
DeletedIsFinal ==
    [][\A t \in Tenants : state[t] = "deleted" =>
          state'[t] = "deleted" /\ profile'[t] = profile[t]]_vars
=============================================================================
