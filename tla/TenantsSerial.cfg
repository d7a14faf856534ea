\* Two tenants, two plans, two handlers; updates of one tenant do not overlap.
CONSTANTS
    t1 = t1
    t2 = t2
    h1 = h1
    h2 = h2
    Tenants = {t1, t2}
    Plans = {"free", "enterprise"}
    Handlers = {h1, h2}
    Overlap = FALSE
SPECIFICATION Spec
\* Every tenant of the instance may be deleted.
CHECK_DEADLOCK FALSE
INVARIANTS
    TypeOK
    OrdersStand
    SuspensionSuspends
PROPERTIES
    DeletedIsFinal
