SPECIFICATION Spec
CONSTANTS
    Workers = {w1, w2}
    Clients = {c1, c2}
    Keys = {k1}
    MaxWrites = 2
    Prefetches = {}
    Low = 1
    High = 2
    Capacity = 2
CHECK_DEADLOCK FALSE
INVARIANT NothingLeftBehind
