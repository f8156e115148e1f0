SPECIFICATION FairSpec
CONSTANTS
    NULL = NULL
    IDs = {"w1"}
    DefaultMaxRetries = 1
    ClaimTimeout = 0
    FailedRetention = 0
    Keys = {"k1"}
    Messages = {"m1"}
    Jobs = {"j1", "j2"}
    Cron = "j1"
    PurgeBatch = 1
    ArchiveBatch = 1
    Retention <- NoRetention
    MaxRows = 2
INVARIANT TypeOK
PROPERTIES
    ExpiredOnly
    PurgeComplete
    StuckRecovered
    ExpiredPurged
