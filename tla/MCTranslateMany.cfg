CONSTANTS
    c = c
    Inputs <- InputsDef
    Key <- KeyDef
    Translation <- TranslationDef
    Errors <- ErrorsDef
    Calls <- CallsDef
    Lists <- ListsDef
    Singles <- SinglesDef
    MaxItems <- MaxItemsDef
    MaxBytes <- MaxBytesDef
    Size <- SizeDef
    Detect <- DetectDef
    Primary <- PrimaryDef
SPECIFICATION ServerSpec
INVARIANTS
    ResponseMatchesRequest
    NothingRunsOn
    SignalRefusesNobody
