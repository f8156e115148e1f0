SPECIFICATION Spec
CONSTANTS
    m1 = m1
    m2 = m2
    w1 = w1
    w2 = w2
    w3 = w3
    NULL = NULL
    Messages = {m1}
    Workers = {w1, w2}
    IDs = {"a", "b"}
    WorkerID <- UniqueIDs
    BatchSize = 2
    Concurrency = 1
    Requested = {0, 2}
    DefaultMaxRetries = 1
    Delays = {0, 1}
    ClaimTimeout = 0
    FailedRetention = 0
    Routes <- AllMessages
    Readable <- AllButW2
    Healthy = {}
    MaxInserts = 2
INVARIANT TypeOK
    OwnerHasLatestClaim
    RetryBudget
    Conservation
    ColumnsFollowStatus
PROPERTIES
    StaleWorkerHarmless
    ProcessedWasHandled
    GivesUpOnlyWhenSpent
    ImplementsLifecycle
