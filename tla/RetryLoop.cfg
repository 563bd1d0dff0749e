SPECIFICATION Spec
CONSTANTS
    DefaultSteps = 4
    InterruptedAsTimeout = TRUE
    Attempts = 3
INVARIANTS TypeOK CallsBounded FailureMeansExhausted SuccessIsEarned
PROPERTY Returns
