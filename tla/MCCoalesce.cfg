CONSTANTS
    Inputs <- InputsDef
    Outputs <- OutputsDef
    Translation <- TranslationDef
    Failure = Failure
    Batches <- BatchesDef
    Source = "ja"
    Middle = "en"
    Target = "zh"
    MiddleBudget <- MiddleBudgetDef
    Fluent <- FluentDef
SPECIFICATION PivotSpec
INVARIANTS
    EachJobItsOwn
PROPERTIES
    ImplementsOneModel
