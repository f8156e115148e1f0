SPECIFICATION AllFairSpec
CONSTANTS
    m1 = m1
    m2 = m2
    w1 = w1
    w2 = w2
    NULL = NULL
    Messages = {m1}
    Workers = {w1, w2}
    IDs = {"a", "b"}
    WorkerID <- UniqueIDs
    BatchSize = 1
    Concurrency = 1
    Requested = {0}
    DefaultMaxRetries = 1
    Delays = {0, 1}
    ClaimTimeout = 1
    FailedRetention = 0
    Routes <- AllButW2
    Readable <- AllMessages
    Healthy = {w1}
    MaxInserts = 1
    Operators = {"o"}
    Limit = 1
INVARIANTS
    OwnerHasLatestClaim
    RetryBudget
PROPERTIES
    Settled
    RetryReturns
