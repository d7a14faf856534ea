\* Two users, two handlers, four refresh tokens; requests about one user do
\* not overlap and the revocation succeeds.
CONSTANTS
    u1 = u1
    u2 = u2
    h1 = h1
    h2 = h2
    Users = {u1, u2}
    NumTokens = 4
    Handlers = {h1, h2}
    Overlap = FALSE
    RevokeMayFail = FALSE
SYMMETRY MCSymmetry
SPECIFICATION Spec
INVARIANTS
    TypeOK
    SingleUse
    LogoutEndsSessions
PROPERTIES
    ImplementsLifecycle
