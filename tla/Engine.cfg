SPECIFICATION Spec
CONSTANTS
    Entries <- WorkDir
    Kind <- Kinds
    CaseCount <- Counts
    Parallel = 2
    Remote = TRUE
    Interrupts = TRUE
INVARIANTS TypeOK NoFalsePass TempDirScoped
PROPERTY KeepsPromise
