SPECIFICATION FairSpec
CONSTANTS
    Workers = {w1, w2}
    Clients = {c1, c2}
    Keys = {k1, k2}
    MaxWrites = 2
    Prefetches = {1}
    Low = 1
    High = 2
    Capacity = 2
CHECK_DEADLOCK FALSE
INVARIANTS
    SubmissionOrder
    OneWriterPerKey
    WritesAccounted
PROPERTIES
    NobodyWaitsForEver
