SPECIFICATION Spec
CONSTANTS
    m1 = m1
    m2 = m2
    w1 = w1
    w2 = w2
    w3 = w3
    NULL = NULL
    Messages = {m1}
    Workers = {w1, w2, w3}
    IDs = {"a", "b", "c"}
    WorkerID <- ThreeIDs
    BatchSize = 2
    Concurrency = 1
    Requested = {0}
    DefaultMaxRetries = 1
    Delays = {0, 1}
    ClaimTimeout = 0
    FailedRetention = 0
    Routes <- AllButW2
    Readable <- AllButW3
    Healthy = {}
    MaxInserts = 1
PROPERTY NewOwnerUndisturbed
