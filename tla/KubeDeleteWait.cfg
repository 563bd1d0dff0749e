SPECIFICATION Spec
CONSTANTS
    s1 = s1
    s2 = s2
    s3 = s3
    Services <- OneCase
    Objects <- OneObject
    Namespace <- NoObject
    Ensures <- EnsureOne
    Deletes <- DeleteOne
    Graceful <- OneObject
    Foreign = {}
    DryRun = {}
    Parallel = 1
    Attempts = 2
    MaxOps = 2
    CallErrors = {}
    LostReplies = FALSE
    Outsiders = FALSE
    Interrupts = FALSE
    Expiry = FALSE
    OptionalSteps = FALSE
    DefaultSteps = 2
    InterruptedAsTimeout = FALSE
PROPERTY DeleteWaitsUntilGone
