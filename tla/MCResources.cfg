SPECIFICATION RSpec
CONSTANTS
    r1 = r1
    r2 = r2
    b1 = b1
    b2 = b2
    f1 = f1
    f2 = f2
    Users = {u1, u2, u3, u4}
    Sizes = {1, 3, 4}
    Nominal = 2
    BufferCount = 1
    MaxBufferCount = 2
    Grow = TRUE
    Kinds = {"Dataset", "View"}
    Payloads = {"p", "q"}
    GenModulus = 3
    MaxSlots = 2
    MaxReuse = 3
    Ranks = {0, 1, 2}
    PoolThreads = {"a", "b"}
    Initial = {0, 1}
    CounterModulus = 16
    BThreads = {"t1", "t2"}
    BMaxToken = 3
    BCapacity = 1
    BMaxObjects = 3
    Full = Full
    None = None
    Readers = {r1, r2}
    NumSteps = 2
    Depth = 1
    Selections = {Full, "window"}
    Buffers = {b1, b2}
    Tasks = {f1, f2}
SYMMETRY Symmetry
\* A table may have no call left within the bounds.
CHECK_DEADLOCK FALSE
INVARIANTS
    VectorsExact
    FreeListExact
    NoLostWakeup
    StaleTokensRefused
    RegistriesSound
    FetchesExact
    ReadersServed
PROPERTIES
    ImplementsRankPool
