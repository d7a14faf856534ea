-------------------------- MODULE UserRolesProofs --------------------------
(***************************************************************************)
(* Theorems about UserRoles, for every finite set of users and every set   *)
(* of tenants and handlers.                                                *)
(***************************************************************************)
EXTENDS UserRoles, FiniteSetTheorems, TLAPS

\* "No request in flight" is not a request: their fields differ.
LEMMA NoRequestIsNone == NoRequest \notin Request
<1> SUFFICES ASSUME NoRequest \in Request PROVE FALSE
  OBVIOUS
<1>1. DOMAIN NoRequest = {"checked"}
  BY DEF NoRequest
<1>2. DOMAIN NoRequest = {"target", "to", "seen", "checked"}
  BY DEF Request
<1>3. QED
  BY <1>1, <1>2

\* One step keeps every variable's type.
LEMMA TypeStep == TypeOK /\ [Next]_vars => TypeOK'
<1> SUFFICES ASSUME TypeOK, [Next]_vars PROVE TypeOK'
  OBVIOUS
<1> USE DEF TypeOK
<1>1. ASSUME NEW u \in Users, IssueToken(u) \/ TokenExpires(u) PROVE TypeOK'
  BY <1>1 DEF IssueToken, TokenExpires
<1>2. ASSUME NEW h \in Handlers, NEW u \in Users, NEW v \in Users,
             NEW to \in Change, Read(h, u, v, to)
      PROVE  TypeOK'
  <2> DEFINE r == [target |-> v, to |-> to, seen |-> role[v],
                   checked |-> FALSE]
  <2>1. [r EXCEPT !.checked = ~LosesAdmin(r)] \in Request
    BY DEF Request, LosesAdmin
  <2>2. QED
    BY <1>2, <2>1 DEF Read
<1>3. ASSUME NEW h \in Handlers, CheckAdmins(h) PROVE TypeOK'
  <2>1. req[h] \in Request
    BY <1>3 DEF CheckAdmins, InFlight
  <2>2. [req[h] EXCEPT !.checked = TRUE] \in Request
    BY <2>1 DEF Request
  <2>3. QED
    BY <1>3, <2>2 DEF CheckAdmins
<1>4. ASSUME NEW h \in Handlers, Write(h) PROVE TypeOK'
  <2>1. req[h] \in Request
    BY <1>4 DEF Write, InFlight
  <2>2. req[h].target \in Users
    BY <2>1 DEF Request
  <2>3. QED
    BY <1>4, <2>2 DEF Write
<1>5. ASSUME NEW h \in Handlers, Abort(h) PROVE TypeOK'
  BY <1>5 DEF Abort
<1>6. CASE UNCHANGED vars
  BY <1>6 DEF vars
<1>7. QED
  BY <1>1, <1>2, <1>3, <1>4, <1>5, <1>6 DEF Next

\* Roles, flags, tokens and requests keep their types, overlap or not.
THEOREM TypeCorrect == Spec => []TypeOK
<1>1. Init => TypeOK
  BY DEF Init, TypeOK
<1>2. QED
  BY <1>1, TypeStep, PTL DEF Spec

-----------------------------------------------------------------------------
(* The last admin **********************************************************)

\* What the check before the write is for: more than one active admin means
\* one besides the target.
LEMMA AnotherAdmin ==
  ASSUME NEW t, NEW v, ~(CountAdminsInTenant(t) <= 1)
  PROVE  \E u \in ActiveAdmins(t) : u # v
<1> SUFFICES ASSUME ActiveAdmins(t) \subseteq {v} PROVE FALSE
  OBVIOUS
<1>1. IsFiniteSet({v}) /\ Cardinality({v}) = 1
  BY FS_Singleton
<1>2. /\ Cardinality(ActiveAdmins(t)) \in Nat
      /\ Cardinality(ActiveAdmins(t)) <= Cardinality({v})
  BY <1>1, FS_Subset, FS_CardinalityType
<1>3. QED
  BY <1>1, <1>2 DEF CountAdminsInTenant

\* Two changes in flight concern two tenants.
OnePerTenant ==
    \A g, h \in Handlers :
        InFlight(g) /\ InFlight(h) /\ g # h
            => TenantOf[req[g].target] # TenantOf[req[h].target]

\* A change that passed the check leaves another active admin behind.
CheckedLeavesAdmin ==
    \A h \in Handlers :
        InFlight(h) /\ req[h].checked /\ LosesAdmin(req[h])
            => \E u \in ActiveAdmins(TenantOf[req[h].target]) : u # req[h].target

AdminInv ==
    /\ OnePerTenant
    /\ SnapshotIsCurrent
    /\ CheckedLeavesAdmin
    /\ EveryTenantHasAnAdmin

\* A step that leaves rows and other requests alone, and only ends requests,
\* keeps AdminInv.
LEMMA RowsUnchanged ==
  ASSUME AdminInv, UNCHANGED <<role, active>>,
         \A h \in Handlers : req'[h] = req[h] \/ req'[h] = NoRequest
  PROVE  AdminInv'
<1>1. \A t : ActiveAdmins(t)' = ActiveAdmins(t)
  BY DEF ActiveAdmins
<1>2. \A h \in Handlers : InFlight(h)' => InFlight(h) /\ req'[h] = req[h]
  BY DEF InFlight
<1>3. OnePerTenant' /\ SnapshotIsCurrent'
  BY <1>2 DEF AdminInv, OnePerTenant, SnapshotIsCurrent
<1>4. CheckedLeavesAdmin' /\ EveryTenantHasAnAdmin'
  BY <1>1, <1>2 DEF AdminInv, CheckedLeavesAdmin, EveryTenantHasAnAdmin, LosesAdmin
<1>5. QED
  BY <1>3, <1>4 DEF AdminInv

\* Beginning a change: the snapshot is fresh and the tenant has no other.
LEMMA ReadKeepsAdmins ==
  ASSUME TypeOK, AdminInv, ~Overlap,
         NEW h \in Handlers, NEW u \in Users, NEW v \in Users,
         NEW to \in Change, Read(h, u, v, to)
  PROVE  AdminInv'
<1> DEFINE r == [target |-> v, to |-> to, seen |-> role[v],
                 checked |-> FALSE]
           q == [r EXCEPT !.checked = ~LosesAdmin(r)]
<1>1. /\ q.target = v /\ q.seen = role[v]
      /\ q.checked => ~LosesAdmin(q)
  BY DEF LosesAdmin
<1>2. req'[h] = q /\ \A g \in Handlers : g # h => req'[g] = req[g]
  BY DEF Read, TypeOK
<1>3. UNCHANGED <<role, active>>
  BY DEF Read
<1>4. \A g \in Handlers : InFlight(g) => TenantOf[req[g].target] # TenantOf[v]
  BY DEF Read
<1> HIDE DEF q
<1>5. OnePerTenant'
  BY <1>1, <1>2, <1>4 DEF AdminInv, OnePerTenant, InFlight
<1>6. SnapshotIsCurrent'
  BY <1>1, <1>2, <1>3 DEF AdminInv, SnapshotIsCurrent, InFlight
<1>7. \A t : ActiveAdmins(t)' = ActiveAdmins(t)
  BY <1>3 DEF ActiveAdmins
<1>8. CheckedLeavesAdmin'
  BY <1>1, <1>2, <1>7 DEF AdminInv, CheckedLeavesAdmin, InFlight, LosesAdmin
<1>9. EveryTenantHasAnAdmin'
  BY <1>7 DEF AdminInv, EveryTenantHasAnAdmin
<1>10. QED
  BY <1>5, <1>6, <1>8, <1>9 DEF AdminInv

\* The check: a change that goes on leaves another admin behind.
LEMMA CheckKeepsAdmins ==
  ASSUME TypeOK, AdminInv, NEW h \in Handlers, CheckAdmins(h)
  PROVE  AdminInv'
<1>1. CASE CountAdminsInTenant(TenantOf[req[h].target]) <= 1
  BY <1>1, RowsUnchanged DEF CheckAdmins, TypeOK
<1>2. CASE ~(CountAdminsInTenant(TenantOf[req[h].target]) <= 1)
  <2>1. /\ \A g \in Handlers : g # h => req'[g] = req[g]
        /\ req'[h].target = req[h].target /\ req'[h].seen = req[h].seen
        /\ req'[h].to = req[h].to
        /\ InFlight(h)
    <3>1. req[h] \in Request
      BY DEF CheckAdmins, InFlight, TypeOK
    <3>2. req'[h] = [req[h] EXCEPT !.checked = TRUE]
      BY <1>2 DEF CheckAdmins, TypeOK
    <3>3. QED
      BY <3>1, <3>2 DEF CheckAdmins, TypeOK, Request
  <2>2. \A t : ActiveAdmins(t)' = ActiveAdmins(t)
    BY DEF CheckAdmins, ActiveAdmins
  <2>3. \E u \in ActiveAdmins(TenantOf[req[h].target]) : u # req[h].target
    BY <1>2, AnotherAdmin
  <2>4. \A g \in Handlers : g # h /\ InFlight(g)' => InFlight(g)
    BY <2>1 DEF InFlight
  <2>5. OnePerTenant'
    BY <2>1, <2>4 DEF AdminInv, OnePerTenant
  <2>6. SnapshotIsCurrent'
    BY <2>1, <2>4 DEF AdminInv, SnapshotIsCurrent, CheckAdmins
  <2>7. CheckedLeavesAdmin'
    BY <2>1, <2>2, <2>3, <2>4 DEF AdminInv, CheckedLeavesAdmin, LosesAdmin
  <2>8. EveryTenantHasAnAdmin'
    BY <2>2 DEF AdminInv, EveryTenantHasAnAdmin
  <2>9. QED
    BY <2>5, <2>6, <2>7, <2>8 DEF AdminInv
<1>3. QED
  BY <1>1, <1>2

\* The write: the rows of one tenant change, and only h was working there.
LEMMA WriteKeepsAdmins ==
  ASSUME TypeOK, AdminInv, NEW h \in Handlers, Write(h)
  PROVE  AdminInv'
<1>1. InFlight(h) /\ req[h] \in Request
  BY DEF Write, TypeOK, InFlight
<1>v. PICK v \in Users : v = req[h].target
  BY <1>1 DEF Request
<1>2. v \in Users /\ req[h].to \in Change /\ role[v] = req[h].seen
  BY <1>1, <1>v DEF Request, AdminInv, SnapshotIsCurrent
<1>3. /\ \A g \in Handlers : g # h => req'[g] = req[g]
      /\ req'[h] = NoRequest
  BY DEF Write, TypeOK
<1>4. \A g \in Handlers : InFlight(g)' => /\ InFlight(g) /\ g # h
                                          /\ req'[g] = req[g]
                                          /\ TenantOf[req[g].target] # TenantOf[v]
  BY <1>1, <1>3, <1>v DEF InFlight, AdminInv, OnePerTenant
<1>5. /\ \A u \in Users : u # v => role'[u] = role[u] /\ active'[u] = active[u]
      /\ req[h].to \in Role => role'[v] = req[h].to /\ active'[v] = active[v]
      /\ req[h].to \notin Role => /\ role'[v] = role[v]
                                  /\ active'[v] = (req[h].to = "on")
  BY <1>v DEF Write, TypeOK
<1>6. \A t : t # TenantOf[v] => ActiveAdmins(t)' = ActiveAdmins(t)
  BY <1>5 DEF ActiveAdmins
<1>7. \A u \in Users : u # v /\ u \in ActiveAdmins(TenantOf[v])
                                     => u \in ActiveAdmins(TenantOf[v])'
  BY <1>5 DEF ActiveAdmins
<1>8. ~LosesAdmin(req[h]) /\ v \in ActiveAdmins(TenantOf[v])
         => v \in ActiveAdmins(TenantOf[v])'
  BY <1>2, <1>5 DEF ActiveAdmins, LosesAdmin, Change, Role
<1>9. ActiveAdmins(TenantOf[v])' # {}
  <2>1. ActiveAdmins(TenantOf[v]) # {} /\ ActiveAdmins(TenantOf[v]) \subseteq Users
    BY <1>2, TenantOfAssumption DEF AdminInv, EveryTenantHasAnAdmin, ActiveAdmins
  <2>2. CASE LosesAdmin(req[h])
    <3>1. PICK u \in ActiveAdmins(TenantOf[v]) : u # v
      BY <1>1, <1>v, <2>2 DEF AdminInv, CheckedLeavesAdmin, Write
    <3>2. QED
      BY <1>7, <2>1, <3>1
  <2>3. CASE ~LosesAdmin(req[h])
    BY <1>7, <1>8, <2>1, <2>3
  <2>4. QED
    BY <2>2, <2>3
<1>10. EveryTenantHasAnAdmin'
  BY <1>6, <1>9 DEF AdminInv, EveryTenantHasAnAdmin
<1>11. OnePerTenant'
  BY <1>4 DEF AdminInv, OnePerTenant
<1>12. SnapshotIsCurrent'
  <2>1. \A g \in Handlers : InFlight(g) => req[g].target \in Users
    BY DEF TypeOK, InFlight, Request
  <2>2. QED
    BY <1>4, <1>5, <2>1 DEF AdminInv, SnapshotIsCurrent
<1>13. CheckedLeavesAdmin'
  BY <1>4, <1>6 DEF AdminInv, CheckedLeavesAdmin, LosesAdmin
<1>14. QED
  BY <1>10, <1>11, <1>12, <1>13 DEF AdminInv

\* One step keeps AdminInv when a tenant's changes do not overlap.
LEMMA AdminStep == TypeOK /\ AdminInv /\ ~Overlap /\ [Next]_vars => AdminInv'
<1> SUFFICES ASSUME TypeOK, AdminInv, ~Overlap, [Next]_vars PROVE AdminInv'
  OBVIOUS
<1>1. ASSUME NEW u \in Users, IssueToken(u) \/ TokenExpires(u) PROVE AdminInv'
  BY <1>1, RowsUnchanged DEF IssueToken, TokenExpires
<1>2. ASSUME NEW h \in Handlers, NEW u \in Users, NEW v \in Users,
             NEW to \in Change, Read(h, u, v, to)
      PROVE  AdminInv'
  BY <1>2, ReadKeepsAdmins
<1>3. ASSUME NEW h \in Handlers, CheckAdmins(h) \/ Write(h) PROVE AdminInv'
  BY <1>3, CheckKeepsAdmins, WriteKeepsAdmins
<1>4. ASSUME NEW h \in Handlers, Abort(h) PROVE AdminInv'
  BY <1>4, RowsUnchanged DEF Abort, TypeOK
<1>5. CASE UNCHANGED vars
  BY <1>5, RowsUnchanged DEF vars
<1>6. QED
  BY <1>1, <1>2, <1>3, <1>4, <1>5 DEF Next

\* Init satisfies AdminInv: signup leaves an active admin in every tenant.
LEMMA AdminInit == Init => AdminInv
  BY DEF Init, AdminInv, OnePerTenant, SnapshotIsCurrent, CheckedLeavesAdmin,
         EveryTenantHasAnAdmin, InFlight, ActiveAdmins

\* Rule 3 of UpdateRole, and its counterpart in SetActive, for tenants of any
\* size and any use of stale admin tokens, as long as the changes of one
\* tenant do not overlap.
THEOREM LastAdminStays ==
  ASSUME Overlap = FALSE PROVE Spec => []EveryTenantHasAnAdmin
<1>1. TypeOK /\ AdminInv /\ [Next]_vars => AdminInv'
  BY AdminStep
<1>2. AdminInv => EveryTenantHasAnAdmin
  BY DEF AdminInv
<1>3. QED
  BY <1>1, <1>2, AdminInit, TypeCorrect, PTL DEF Spec

\* The role that was checked, and that the audit record will call
\* previous_role, is the one the write replaces.
THEOREM SnapshotsAreCurrent ==
  ASSUME Overlap = FALSE PROVE Spec => []SnapshotIsCurrent
<1>1. TypeOK /\ AdminInv /\ [Next]_vars => AdminInv'
  BY AdminStep
<1>2. AdminInv => SnapshotIsCurrent
  BY DEF AdminInv
<1>3. QED
  BY <1>1, <1>2, AdminInit, TypeCorrect, PTL DEF Spec
=============================================================================
