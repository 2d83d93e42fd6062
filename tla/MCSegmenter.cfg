CONSTANTS
    Texts <- TextsDef
    Width <- WidthDef
    Count <- CountDef
    MaxPieces = 3
    MaxInput = 19
    MaxCalls = 24
    MaxBytes = 110
    MaxCounted = 60
    MaxSegments = 4
    Abbreviations <- AbbreviationsDef
    Abbreviated <- AbbreviatedDef
SPECIFICATION Spec
INVARIANTS
    Lossless
    EverySegmentFits
    LineBreaksAreKept
PROPERTIES
    CutsAreRightmost
    EveryStepProgresses
