CONSTANTS
    EncoderLayers = 1
    DecoderLayers = 1
    Batches <- BatchesDef
    Factor = 2
    MaxSteps = 4
    MaximumPosition = 3
    MaxBatch = 2
    MaxSource = 3
    MaxCells = 18
    MaxRequests = 2
    Releases <- ReleasesDef
    NextReleases <- NextReleasesDef
    Bundles <- BundlesDef
    Workers = 2
    Handlers <- HandlersDef
    MaxStarts = 2
SPECIFICATION Spec
INVARIANTS
    RetainedIsBounded
    
    OneModelPerHost
PROPERTIES
    ImplementsDecode
    ValidBatchesAreDecoded
    FailedStartIsForgotten
