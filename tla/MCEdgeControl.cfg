CONSTANTS
    Releases = {"v1", "v2"}
    Origins <- OriginsDef
    ArchiveNames = {1, 2, 3}
    Machines <- MachinesDef
    MaxCommands = 3
    MaxFailures = 1
    MaxSignals = 1
SPECIFICATION Spec
INVARIANTS
    
    ScriptsAreAtomic
