SPECIFICATION MSpec
CONSTANTS
    HSize = 2
    HThreads = {"t1", "t2"}
    HPrograms <- MCPrograms
    HTagUB = 3
    Layouts <- MCLayouts
    SMaxRounds = 2
    GSize = 2
    GBands <- MCBands
    GLevels <- MCLevels
    GMaxRounds = 2
    LCallers <- MCCallers
    LMessages = {"a"}
    LSeverities = {0, 4}
    LThreshold <- MCThreshold
    LMaxLogs = 3
    LMaxCalls = 1
    LMaxFaults = 1
\* The programs end.
CHECK_DEADLOCK FALSE
INVARIANTS
    GhostsFresh
    GatherPlaced
    ConsolidatedExact
PROPERTIES
    EveryProgramEnds
