\* One Lambda, one poller and one job; units of five minutes.
CONSTANTS
    l1 = l1
    l2 = l2
    p1 = p1
    NumJobs = 1
    Lambdas = {l1}
    Pollers = {p1}
    MaxAttempts = 2
    MaxReceive = 2
    LambdaTimeout = 2
    JobVisibility = 2
    MessageVisibility = 3
SPECIFICATION FairSpec
INVARIANTS
    TypeOK
    HoldersOwnTheirJobs
PROPERTIES
    ImplementsLifecycle
    LateNotLost
    MessagesLeave
