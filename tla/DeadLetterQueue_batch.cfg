SPECIFICATION AllSpec
CONSTANTS
    m1 = m1
    m2 = m2
    w1 = w1
    w2 = w2
    NULL = NULL
    Messages = {m1, m2}
    Workers = {w1}
    IDs = {"a"}
    WorkerID <- OneID
    BatchSize = 2
    Concurrency = 1
    Requested = {0}
    DefaultMaxRetries = 1
    Delays = {0}
    ClaimTimeout = 0
    FailedRetention = 1
    Routes <- AllMessages
    Readable <- AllMessages
    Healthy = {}
    MaxInserts = 1
    Operators = {"o"}
    Limit = 1
INVARIANT Conservation
PROPERTIES
    DrainComplete
    StaleWorkerHarmless
