SPECIFICATION MCSpec
CONSTANTS
    ConfDocuments <- MCConfDocuments
    ConfPaths <- MCPaths
    Manifests <- MCManifests
    Pipelines <- MCPipelines
    NumTasks = 3
    Edges = {1, 2, 3, 4}
    DanglingId = 3
    Fields = {"u", "v"}
    Shapes <- MCShapes
    Payloads = {p1}
    Boxes <- MCBoxes
    MaxFaults = 1
    Dtypes <- MCDtypes
    Manifest <- MCManifest
    ZNames = {"u", "v"}
    ZPayloads = {p1, p2}
    ZBoxes <- MCZBoxes
    Configs <- MCConfigs
    GManifests <- MCGManifests
    GShapes <- MCGShapes
    GPayloads = {p1}
    GBoxes <- MCGBoxes
    Foreign <- MCForeign
    MaxMessages = 2
CHECK_DEADLOCK FALSE
INVARIANTS
    ConfigurationsKept
    PipelineFaithful
    VerdictCorrect
    
