SPECIFICATION MCSpec
CONSTANTS
    r0 = r0
    r1 = r1
    r2 = r2
    NumTasks = 4
    Nodes <- MCNodes
    Ranks <- MCRanks
    Initial <- MCInitial
    Edges <- MCEdges
    Producer <- MCProducer
    Consumer <- MCConsumer
    Required <- MCRequired
    MaxConcurrency = 2
    DeadlockTimeout = 1
\* After shutdown() no call is accepted.
CHECK_DEADLOCK FALSE
INVARIANTS
    DependenciesHonoured
    RanksFollowTasks
    BookkeepingExact
    FailureCascades
    NoSilentStall
    ShutdownReleasesRanks
PROPERTIES
    LoopEnds
    ReclaimedNotGiven
    ShutdownReturns
