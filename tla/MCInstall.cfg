CONSTANTS
    Values = {x, y}
    SequenceModulus = 4
    Failures = {"BUS", "SLOW"}
    Chunks = 1
    Pages = 2
SPECIFICATION Spec
SYMMETRY AlikeSets
INVARIANT WorkspaceAccounted
PROPERTIES ActiveSlotUntouched ImplementsRegister InstalledIsDurable NothingUnwanted
