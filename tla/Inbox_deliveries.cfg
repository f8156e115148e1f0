SPECIFICATION FairSpec
CONSTANTS
    NULL = NULL
    r1 = r1
    r2 = r2
    r3 = r3
    Messages = {"m1"}
    Receivers = {r1, r2, r3}
    InTx <- SomeInTx
    DedupTTL = 1
    MaxReleases = 2
INVARIANTS
    TypeOK
    KeptUnlessTorn
    StoredOncePerEntry
PROPERTY EventuallyAcked
