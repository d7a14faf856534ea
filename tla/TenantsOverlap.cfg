\* An operator and a tenant admin update one tenant at the same time.
CONSTANTS
    t1 = t1
    t2 = t2
    h1 = h1
    h2 = h2
    Tenants = {t1}
    Plans = {"free", "enterprise"}
    Handlers = {h1, h2}
    Overlap = TRUE
SPECIFICATION Spec
\* Every tenant of the instance may be deleted.
CHECK_DEADLOCK FALSE
INVARIANTS
    SuspensionSuspends
