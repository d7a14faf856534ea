\* An old and a new API task and a Lambda, two attempts to connect, three faults.
CONSTANTS
    old = old
    new = new
    fn = fn
    Tasks = {old, new, fn}
    Rolling = {new}
    roleOf <- MCRoleOf
    hasOf <- MCHasOf
    production <- MCProduction
    givenOf <- MCGivenOf
    secretsOf <- MCSecretsOf
    ConnectAttempts = 2
    BreakAfter = 3
    MaxFaults = 3
SPECIFICATION FairSpec
CHECK_DEADLOCK FALSE
INVARIANTS
    TypeOK
    SchemaIsAPrefix
    SafeToServe
PROPERTIES
    EveryInstanceServes
