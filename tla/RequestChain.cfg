\* Two requests of two tenants, one request per minute, two minutes.
CONSTANTS
    t1 = t1
    t2 = t2
    r1 = r1
    r2 = r2
    Tenants = {t1, t2}
    Requests = {r1, r2}
    NumKeys = 2
    Tokens <- MCTokens
    Managed = {t1}
    Issued <- MCIssued
    Limit = 1
    LastWindow = 1
    Faults = 1
SYMMETRY MCSymmetry
SPECIFICATION Spec
INVARIANTS
    TypeOK
    LimitHolds
    NoNoisyNeighbour
    CountersAreShortLived
    MeteringIsComplete
    EntitledWhenServed
PROPERTIES
    OwnKeysOnly
    RevokedKeysAreRefused
