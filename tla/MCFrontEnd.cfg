SPECIFICATION FrontSpec
CONSTANTS
    Engine <- MCEngine
    Defaults <- MCDefaults
    ModuleOrder <- MCOrder
    Source <- MCSource
    Clients <- MCClients
    Disks <- MCDisks
    RustModules <- MCRust
    Result <- MCResult
    Build <- MCBuild
    Jobs = {j1, j2}
    MaxEdits = 3
INVARIANTS NamesResolved TypesAgree LoadedInOrder AnswersOfText EditsFit
SYMMETRY MCSymmetry
CHECK_DEADLOCK FALSE
