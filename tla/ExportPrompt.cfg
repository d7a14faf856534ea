\* Two consumers that settle a job before its visibility timeout expires,
\* two jobs, three attempts each, claims of at most two rows and of one.
CONSTANTS
    w1 = w1
    w2 = w2
    t1 = t1
    t2 = t2
    NumJobs = 2
    Workers = {w1, w2}
    Tenants = {t1, t2}
    BatchSize <- MCBatchSize
    MaxAttempts = 3
    ClaimBound = 4
    MayOverrun = FALSE
SPECIFICATION FairSpec
INVARIANTS
    TypeOK
    NoDuplicateWork
    CompletedHasObject
    DownloadsStayValid
PROPERTIES
    ImplementsLifecycle
    EveryJobFinishes
