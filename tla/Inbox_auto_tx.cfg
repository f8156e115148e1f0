SPECIFICATION Spec
CONSTANTS
    NULL = NULL
    r1 = r1
    r2 = r2
    r3 = r3
    Messages = {"m1"}
    Receivers = {r1}
    InTx <- NoneInTx
    DedupTTL = 1
    MaxReleases = 2
INVARIANT AckedMeansStored
