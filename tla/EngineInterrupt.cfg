SPECIFICATION Spec
CONSTANTS
    Entries <- WorkDir
    Kind <- Kinds
    CaseCount <- Counts
    Parallel = 2
    Remote = FALSE
    Interrupts = TRUE
PROPERTY StopsDispatching
