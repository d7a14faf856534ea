\* One user whose refresh token is presented twice at the same time.
CONSTANTS
    u1 = u1
    u2 = u2
    h1 = h1
    h2 = h2
    Users = {u1}
    NumTokens = 3
    Handlers = {h1, h2}
    Overlap = TRUE
    RevokeMayFail = FALSE
SPECIFICATION Spec
INVARIANTS
    SingleUse
