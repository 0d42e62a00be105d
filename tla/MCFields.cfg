SPECIFICATION FSpec
CONSTANTS
    nanos_per_second = 2
    SecondsPerMinute = 2
    MinutesPerHour = 2
    HoursPerDay = 2
    MaxNanos = 20000000
    WalkYears <- MCYears
    Anchors <- MCAnchors
    Coverages <- MCCoverages
    Intervals <- MCIntervals
    ClimYears = {2026, 2028}
    SimDates <- MCSimDates
    StepLists <- MCStepLists
    Bases <- MCBases
    RunTicks = 60
    MaxInt = 15
    Unit = 3
    Elements = 2
    MaxSnapshots = 5
    MaxTouches = 4
    Slots = 4
    Memory = {90}
    ViewSize = 1
    OutSizes = {1, 2}
    TSteps = {1, 2}
    Weights <- MCWeights
    MaxDispatches = 3
    Descriptors <- MCDescriptors
    Configs <- MCConfigs
    Owners <- MCOwners
    Past <- MCPast
    Dialects <- MCDialects
    CallCells = 16
CHECK_DEADLOCK FALSE
INVARIANTS
    TimeExact
    AliasedInSeason
    BookendExact
    CopiesCoherent
    WeightsExact
    BandsAgree
    ProductsExact
