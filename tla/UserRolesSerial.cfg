\* Two handlers, one change per tenant at a time, stale admin tokens.
CONSTANTS
    t1 = t1
    t2 = t2
    a = a
    b = b
    c = c
    d = d
    e = e
    h1 = h1
    h2 = h2
    Users = {a, b, c, d, e}
    Tenants = {t1, t2}
    TenantOf <- MCTenantOf
    Handlers = {h1, h2}
    Overlap = FALSE
SYMMETRY MCSymmetry
SPECIFICATION Spec
INVARIANTS
    TypeOK
    EveryTenantHasAnAdmin
