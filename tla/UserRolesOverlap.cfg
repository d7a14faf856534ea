\* Two admins of one tenant, each handled by a goroutine of its own.
CONSTANTS
    t1 = t1
    t2 = t2
    a = a
    b = b
    c = c
    d = d
    e = e
    h1 = h1
    h2 = h2
    Users = {a, b}
    Tenants = {t1}
    TenantOf <- MCSmallTenantOf
    Handlers = {h1, h2}
    Overlap = TRUE
SPECIFICATION Spec
INVARIANTS
    EveryTenantHasAnAdmin
