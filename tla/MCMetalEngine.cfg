CONSTANTS
    Environments <- EnvironmentsDef
    Devices = {"m1"}
    Addresses <- AddressesDef
    EncoderLayers = 1
    DecoderLayers = 1
    Dim = 2
    FfnDim = 2
    Heads = 1
    MaxHeadDim = 64
    CustomColumns = 4
    MaxScores = 9
    Batches <- BatchesDef
    Width = 2
    Factor = 2
    MaximumPosition = 8
    MaxBatch = 2
    MaxRequests = 2
    MaxFailures = 1
SPECIFICATION Spec
INVARIANTS
    HeldValuesAreIntact
    OnlyTheDeviceFails
PROPERTIES
    ImplementsDecode
    RequestProgresses
