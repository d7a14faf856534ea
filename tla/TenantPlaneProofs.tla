------------------------- MODULE TenantPlaneProofs -------------------------
(***************************************************************************)
(* Theorems about TenantPlane, for every set of tenants, plans and         *)
(* handlers.                                                               *)
(***************************************************************************)
EXTENDS TenantPlane, TLAPS

\* The step of a request tells which kind of request it is.
LEMMA RequestKinds ==
  ASSUME NEW r \in Authed \cup Update \cup {NoRequest}
  PROVE  /\ r.step = "authed" => r \in Authed
         /\ r.step = "write" => r \in Update
         /\ r.step \in {"authed", "write", "none"}
         /\ r = NoRequest <=> r.step = "none"
  BY DEF Authed, Update, NoRequest

\* Applying an input to a row yields a row.
LEMMA ApplyType ==
  ASSUME NEW c \in Change, NEW p \in Profile
  PROVE  Apply(c, p) \in Profile
  BY PlansAssumption DEF Apply, Change, Profile

LEMMA RenameType == RenameOnly \in Change
  BY DEF RenameOnly, Change

\* The first half of an update keeps every variable's type.
LEMMA ReadRowType ==
  ASSUME TypeOK, NEW h \in Handlers, NEW t \in Tenants, NEW c \in Change,
         NEW order \in Change, ReadRow(h, t, c, order)
  PROVE  TypeOK'
<1>1. Apply(c, profile[t]) \in Profile
  BY ApplyType DEF TypeOK
<1>2. [step |-> "write", tenant |-> t, order |-> order,
       image |-> Apply(c, profile[t])] \in Update
  BY <1>1 DEF Update
<1>3. QED
  BY <1>2 DEF ReadRow, TypeOK

\* One step keeps every variable's type.
LEMMA TypeStep == TypeOK /\ [Next]_vars => TypeOK'
<1> SUFFICES ASSUME TypeOK, [Next]_vars PROVE TypeOK'
  OBVIOUS
<1>1. ASSUME NEW t \in Tenants, NEW p \in Plans, Create(t, p) PROVE TypeOK'
  <2>1. [plan |-> p, active |-> "on"] \in Profile
    BY DEF Profile
  <2>2. QED
    BY <1>1, <2>1 DEF Create, TypeOK
<1>2. ASSUME NEW h \in Handlers, NEW t \in Tenants, Auth(h, t) PROVE TypeOK'
  <2>1. profile[t].plan \in Plans /\ ordered[t] \in Profile
    BY DEF TypeOK, Profile
  <2>2. [step |-> "authed", tenant |-> t, plan |-> profile[t].plan,
         since |-> ordered[t]] \in Authed
    BY <2>1 DEF Authed
  <2>3. QED
    BY <1>2, <2>2 DEF Auth, TypeOK
<1>3. ASSUME NEW h \in Handlers, NEW t \in Tenants, NEW c \in Change,
             UpdateTenant(h, t, c)
      PROVE  TypeOK'
  BY <1>3, ReadRowType DEF UpdateTenant
<1>4. ASSUME NEW h \in Handlers, UpdateForScope(h) PROVE TypeOK'
  <2>1. req[h] \in Authed
    BY <1>4, RequestKinds DEF UpdateForScope, TypeOK
  <2>2. req[h].tenant \in Tenants
    BY <2>1 DEF Authed
  <2>3. QED
    BY <1>4, <2>2, ReadRowType, RenameType DEF UpdateForScope
<1>5. ASSUME NEW h \in Handlers, Write(h) PROVE TypeOK'
  <2>1. req[h] \in Update
    BY <1>5, RequestKinds DEF Write, TypeOK
  <2>2. /\ req[h].tenant \in Tenants /\ req[h].order \in Change
        /\ req[h].image \in Profile
    BY <2>1 DEF Update
  <2>3. Apply(req[h].order, ordered[req[h].tenant]) \in Profile
    BY <2>2, ApplyType DEF TypeOK
  <2>4. QED
    BY <1>5, <2>2, <2>3 DEF Write, TypeOK
<1>6. ASSUME NEW h \in Handlers, Done(h) PROVE TypeOK'
  BY <1>6 DEF Done, TypeOK
<1>7. ASSUME NEW t \in Tenants, Delete(t) PROVE TypeOK'
  BY <1>7 DEF Delete, TypeOK
<1>8. CASE UNCHANGED vars
  BY <1>8 DEF vars, TypeOK
<1>9. QED
  BY <1>1, <1>2, <1>3, <1>4, <1>5, <1>6, <1>7, <1>8 DEF Next

\* Rows, grants and requests keep their types, overlap or not.
THEOREM TypeCorrect == Spec => []TypeOK
<1>1. Init => TypeOK
  BY PlansAssumption DEF Init, TypeOK, Profile
<1>2. QED
  BY <1>1, TypeStep, PTL DEF Spec

-----------------------------------------------------------------------------
(* Deletion ****************************************************************)

\* No step touches the row of a deleted tenant.
LEMMA DeletedStep ==
  ASSUME TypeOK, [Next]_vars, NEW t \in Tenants, state[t] = "deleted"
  PROVE  state'[t] = "deleted" /\ profile'[t] = profile[t]
<1>1. ASSUME NEW u \in Tenants, NEW p \in Plans, Create(u, p)
      PROVE  state'[t] = "deleted" /\ profile'[t] = profile[t]
  BY <1>1 DEF Create, TypeOK
<1>2. ASSUME NEW h \in Handlers, NEW u \in Tenants,
             Auth(h, u) \/ \E c \in Change : UpdateTenant(h, u, c)
      PROVE  state'[t] = "deleted" /\ profile'[t] = profile[t]
  BY <1>2 DEF Auth, UpdateTenant, ReadRow
<1>3. ASSUME NEW h \in Handlers, UpdateForScope(h) \/ Done(h)
      PROVE  state'[t] = "deleted" /\ profile'[t] = profile[t]
  BY <1>3 DEF UpdateForScope, ReadRow, Done
<1>4. ASSUME NEW h \in Handlers, Write(h)
      PROVE  state'[t] = "deleted" /\ profile'[t] = profile[t]
  BY <1>4 DEF Write, TypeOK
<1>5. ASSUME NEW u \in Tenants, Delete(u)
      PROVE  state'[t] = "deleted" /\ profile'[t] = profile[t]
  BY <1>5 DEF Delete, TypeOK
<1>6. CASE UNCHANGED vars
  BY <1>6 DEF vars
<1>7. QED
  BY <1>1, <1>2, <1>3, <1>4, <1>5, <1>6 DEF Next

\* The deleted_at predicate of TenantRepository.Update holds an update off
\* that read the row before it was deleted, whatever overlaps.
THEOREM DeletedTenantsAreFinal == Spec => DeletedIsFinal
<1> DEFINE A == \A t \in Tenants : state[t] = "deleted" =>
                   state'[t] = "deleted" /\ profile'[t] = profile[t]
<1>1. TypeOK /\ [Next]_vars => [A]_vars
  BY DeletedStep
<1>2. QED
  BY <1>1, TypeCorrect, PTL DEF Spec, DeletedIsFinal

-----------------------------------------------------------------------------
(* The operators' orders ***************************************************)

\* Two updates in flight concern two tenants.
OneUpdatePerTenant ==
    \A g, h \in Handlers :
        req[g].step = "write" /\ req[h].step = "write" /\ g # h
            => req[g].tenant # req[h].tenant

\* What an update will write is its order applied to the orders so far.
ImageIsOrdered ==
    \A h \in Handlers : req[h].step = "write" =>
        /\ state[req[h].tenant] # "none"
        /\ req[h].image = Apply(req[h].order, ordered[req[h].tenant])

OrderInv ==
    /\ OneUpdatePerTenant
    /\ ImageIsOrdered
    /\ OrdersStand
    /\ SuspensionSuspends

\* A step that leaves rows and orders alone and only ends requests.
LEMMA RowsUnchanged ==
  ASSUME OrderInv, UNCHANGED <<profile, ordered>>,
         \A t \in Tenants : state'[t] = state[t] \/ state'[t] = "deleted",
         \A h \in Handlers : req'[h] = req[h] \/ req'[h] = NoRequest,
         TypeOK
  PROVE  OrderInv'
<1>1. \A h \in Handlers : req'[h].step # "none" => req'[h] = req[h]
  BY DEF NoRequest
<1>2. \A h \in Handlers : req[h].step = "write" => req[h].tenant \in Tenants
  BY RequestKinds DEF TypeOK, Update
<1>3. OneUpdatePerTenant'
  BY <1>1 DEF OrderInv, OneUpdatePerTenant
<1>4. ImageIsOrdered'
  BY <1>1, <1>2 DEF OrderInv, ImageIsOrdered
<1>5. OrdersStand' /\ SuspensionSuspends'
  BY <1>1 DEF OrderInv, OrdersStand, SuspensionSuspends
<1>6. QED
  BY <1>3, <1>4, <1>5 DEF OrderInv

\* Creating a tenant: no request can know it yet.
LEMMA CreateKeepsOrders ==
  ASSUME TypeOK, OrderInv, NEW t \in Tenants, NEW p \in Plans, Create(t, p)
  PROVE  OrderInv'
<1>1. /\ req' = req
      /\ \A u \in Tenants : u # t => /\ state'[u] = state[u]
                                     /\ profile'[u] = profile[u]
                                     /\ ordered'[u] = ordered[u]
      /\ profile'[t] = ordered'[t] /\ state[t] = "none"
  BY DEF Create, TypeOK
<1>2. \A h \in Handlers : req[h].step = "write" => req[h].tenant \in Tenants
  BY RequestKinds DEF TypeOK, Update
<1>3. OneUpdatePerTenant' /\ SuspensionSuspends'
  BY <1>1 DEF OrderInv, OneUpdatePerTenant, SuspensionSuspends
<1>4. ImageIsOrdered'
  BY <1>1, <1>2 DEF OrderInv, ImageIsOrdered
<1>5. OrdersStand'
  BY <1>1 DEF OrderInv, OrdersStand
<1>6. QED
  BY <1>3, <1>4, <1>5 DEF OrderInv

\* Authentication: the row it reads is what the operators ordered.
LEMMA AuthKeepsOrders ==
  ASSUME TypeOK, OrderInv, NEW h \in Handlers, NEW t \in Tenants, Auth(h, t)
  PROVE  OrderInv'
<1>1. /\ req'[h].step = "authed"
      /\ req'[h].plan = profile[t].plan /\ req'[h].since = ordered[t]
      /\ \A g \in Handlers : g # h => req'[g] = req[g]
      /\ UNCHANGED <<state, profile, ordered>>
      /\ profile[t].active = "on"
  BY DEF Auth, TypeOK
<1>2. profile[t] = ordered[t]
  BY DEF OrderInv, OrdersStand
<1>3. OneUpdatePerTenant' /\ ImageIsOrdered' /\ OrdersStand'
  BY <1>1 DEF OrderInv, OneUpdatePerTenant, ImageIsOrdered, OrdersStand
<1>4. SuspensionSuspends'
  BY <1>1, <1>2 DEF OrderInv, SuspensionSuspends
<1>5. QED
  BY <1>3, <1>4 DEF OrderInv

\* Beginning an update: nobody else is updating the tenant, and only fields
\* of the order differ from the row.
LEMMA ReadRowKeepsOrders ==
  ASSUME TypeOK, OrderInv, ~Overlap, NEW h \in Handlers, NEW t \in Tenants,
         NEW c \in Change, ReadRow(h, t, c, c)
  PROVE  OrderInv'
<1>1. /\ req'[h].step = "write" /\ req'[h].tenant = t
      /\ req'[h].order = c /\ req'[h].image = Apply(c, profile[t])
      /\ \A g \in Handlers : g # h => req'[g] = req[g]
      /\ UNCHANGED <<state, profile, ordered>>
      /\ state[t] = "live"
  BY DEF ReadRow, TypeOK
<1>2. \A g \in Handlers : req[g].step = "write" => req[g].tenant # t
  BY DEF ReadRow, Updating
<1>3. profile[t] = ordered[t]
  BY DEF OrderInv, OrdersStand
<1>4. OneUpdatePerTenant'
  BY <1>1, <1>2 DEF OrderInv, OneUpdatePerTenant
<1>5. ImageIsOrdered'
  BY <1>1, <1>3 DEF OrderInv, ImageIsOrdered
<1>6. OrdersStand' /\ SuspensionSuspends'
  BY <1>1 DEF OrderInv, OrdersStand, SuspensionSuspends
<1>7. QED
  BY <1>4, <1>5, <1>6 DEF OrderInv

\* The write: row and orders of the tenant change in the same way, and no
\* other update holds a copy of the row.
LEMMA WriteKeepsOrders ==
  ASSUME TypeOK, OrderInv, NEW h \in Handlers, Write(h)
  PROVE  OrderInv'
<1>1. req[h].step = "write" /\ req[h].tenant \in Tenants
  BY RequestKinds DEF Write, TypeOK, Update
<1>t. PICK t \in Tenants : t = req[h].tenant
  BY <1>1
<1>2. req[h].image = Apply(req[h].order, ordered[t])
  BY <1>1, <1>t DEF OrderInv, ImageIsOrdered
<1>3. /\ req'[h].step = "none"
      /\ \A g \in Handlers : g # h => req'[g] = req[g]
      /\ UNCHANGED state
  BY DEF Write, TypeOK, NoRequest
<1>4. \A u \in Tenants : u # t => profile'[u] = profile[u] /\ ordered'[u] = ordered[u]
  BY <1>t DEF Write, TypeOK
<1>5. profile'[t] = ordered'[t]
  <2>1. CASE state[t] = "live"
    BY <1>t, <1>2, <2>1 DEF Write, TypeOK
  <2>2. CASE state[t] # "live"
    BY <1>t, <2>2 DEF Write, OrderInv, OrdersStand
  <2>3. QED
    BY <2>1, <2>2
<1>6. \A g \in Handlers : req'[g].step = "write" =>
         g # h /\ req'[g] = req[g] /\ req[g].tenant \in Tenants \ {t}
  BY <1>1, <1>t, <1>3, RequestKinds
     DEF OrderInv, OneUpdatePerTenant, TypeOK, Update
<1>7. OneUpdatePerTenant'
  BY <1>6 DEF OrderInv, OneUpdatePerTenant
<1>8. ImageIsOrdered'
  BY <1>3, <1>4, <1>6 DEF OrderInv, ImageIsOrdered
<1>9. OrdersStand'
  BY <1>4, <1>5 DEF OrderInv, OrdersStand
<1>10. SuspensionSuspends'
  BY <1>3 DEF OrderInv, SuspensionSuspends
<1>11. QED
  BY <1>7, <1>8, <1>9, <1>10 DEF OrderInv

\* One step keeps OrderInv when the updates of one tenant do not overlap.
LEMMA OrderStep == TypeOK /\ OrderInv /\ ~Overlap /\ [Next]_vars => OrderInv'
<1> SUFFICES ASSUME TypeOK, OrderInv, ~Overlap, [Next]_vars PROVE OrderInv'
  OBVIOUS
<1>1. ASSUME NEW t \in Tenants, NEW p \in Plans, Create(t, p) PROVE OrderInv'
  BY <1>1, CreateKeepsOrders
<1>2. ASSUME NEW h \in Handlers, NEW t \in Tenants, Auth(h, t) PROVE OrderInv'
  BY <1>2, AuthKeepsOrders
<1>3. ASSUME NEW h \in Handlers, NEW t \in Tenants, NEW c \in Change,
             UpdateTenant(h, t, c)
      PROVE  OrderInv'
  BY <1>3, ReadRowKeepsOrders DEF UpdateTenant
<1>4. ASSUME NEW h \in Handlers, UpdateForScope(h) PROVE OrderInv'
  <2>1. req[h].tenant \in Tenants
    BY <1>4, RequestKinds DEF UpdateForScope, TypeOK, Authed
  <2>2. QED
    BY <1>4, <2>1, RenameType, ReadRowKeepsOrders DEF UpdateForScope
<1>5. ASSUME NEW h \in Handlers, Write(h) PROVE OrderInv'
  BY <1>5, WriteKeepsOrders
<1>6. ASSUME NEW h \in Handlers, Done(h) PROVE OrderInv'
  BY <1>6, RowsUnchanged DEF Done, TypeOK
<1>7. ASSUME NEW t \in Tenants, Delete(t) PROVE OrderInv'
  BY <1>7, RowsUnchanged DEF Delete, TypeOK
<1>8. CASE UNCHANGED vars
  BY <1>8, RowsUnchanged DEF vars
<1>9. QED
  BY <1>1, <1>2, <1>3, <1>4, <1>5, <1>6, <1>7, <1>8 DEF Next

\* Nobody updates and nothing is ordered yet.
LEMMA OrderInit == Init => OrderInv
<1> SUFFICES ASSUME Init PROVE OrderInv
  OBVIOUS
<1>1. \A h \in Handlers : req[h].step = "none"
  BY DEF Init, NoRequest
<1>2. OrdersStand
  BY DEF Init, OrdersStand
<1>3. OneUpdatePerTenant /\ ImageIsOrdered /\ SuspensionSuspends
  BY <1>1 DEF OneUpdatePerTenant, ImageIsOrdered, SuspensionSuspends
<1>4. QED
  BY <1>2, <1>3 DEF OrderInv

\* Plan and status are what operators ordered, for any number of tenants,
\* plans and requests, as long as the updates of one tenant do not overlap.
THEOREM OperatorsDecide ==
  ASSUME Overlap = FALSE PROVE Spec => []OrdersStand
<1>1. TypeOK /\ OrderInv /\ [Next]_vars => OrderInv'
  BY OrderStep
<1>2. OrderInv => OrdersStand
  BY DEF OrderInv
<1>3. QED
  BY <1>1, <1>2, OrderInit, TypeCorrect, PTL DEF Spec

\* No request is past authentication under an order of suspension, nor with
\* a plan that was no longer in force when it got there.
THEOREM SuspendedTenantsAreRefused ==
  ASSUME Overlap = FALSE PROVE Spec => []SuspensionSuspends
<1>1. TypeOK /\ OrderInv /\ [Next]_vars => OrderInv'
  BY OrderStep
<1>2. OrderInv => SuspensionSuspends
  BY DEF OrderInv
<1>3. QED
  BY <1>1, <1>2, OrderInit, TypeCorrect, PTL DEF Spec
=============================================================================
