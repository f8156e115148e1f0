SPECIFICATION AllSpec
CONSTANTS
    n1 = n1
    n2 = n2
    m1 = m1
    m2 = m2
    NULL = NULL
    Nodes = {n1, n2}
    Messages = {m1, m2}
    Versions = {"v1", "v2", "a:b"}
    WellFormed = {"v1", "v2"}
    Secrets = {"s1", "s2"}
    Ciphers <- SomeCiphers
    Times = {0, 1}
    MaxCiphers = 2
    MaxWrites = 3
    Clients = {"c1"}
    Limit = 1
SYMMETRY Swaps
INVARIANTS
    ListingTypeOK
    ReadsItsOwn
    CarefulRotation
    ListingComplete
