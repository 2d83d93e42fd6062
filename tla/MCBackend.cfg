CONSTANTS
    Devices = {"cpu", "metal"}
    Workloads <- WorkloadsDef
    MaxSource = 3
    MaxSegments = 6
    MaxRows = 2
    MaxCells = 9
    Width = 2
SPECIFICATION BackendSpec
INVARIANTS
    BatchingIsInvisible
    EngineAcceptsBatch
PROPERTIES
    BatchEnds
