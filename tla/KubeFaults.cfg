SPECIFICATION Spec
CONSTANTS
    s1 = s1
    s2 = s2
    s3 = s3
    Services <- OneCase
    Objects <- FaultObjects
    Namespace <- NoObject
    Ensures <- EnsureClashing1
    Deletes <- EnsureClashing1
    Graceful <- FaultObjects
    Foreign <- FaultObjects
    DryRun = {}
    Parallel = 1
    Attempts = 2
    MaxOps = 2
    CallErrors = {"timeout", "unavailable", "other"}
    LostReplies = TRUE
    Outsiders = TRUE
    Interrupts = TRUE
    Expiry = TRUE
    OptionalSteps = TRUE
    DefaultSteps = 2
    InterruptedAsTimeout = TRUE
INVARIANTS TypeOK LeaksExplained SparesPreexisting EveryEntryTried FailedSweepReported
