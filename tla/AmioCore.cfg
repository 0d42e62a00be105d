SPECIFICATION Spec
CONSTANTS
    Hosts = {h1, h2}
    Datasets = {d1}
    Modes = {"read", "write"}
    Vars = {x, y}
    Ios = {i1, i2}
    Views = {v1, v2}
    Buffers = {b1, b2}
    QueueCap = 1
    MaxFetches = 1
CHECK_DEADLOCK FALSE
INVARIANTS
    BuffersAccounted
    PendingSettles
    CloseIsSafe
PROPERTIES
    FlushReturns
