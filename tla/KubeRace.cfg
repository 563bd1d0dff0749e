SPECIFICATION Spec
CONSTANTS
    s1 = s1
    s2 = s2
    s3 = s3
    Services <- BothCases
    Objects <- OneObject
    Namespace <- NoObject
    Ensures <- EnsureOne2
    Deletes <- DeleteNone2
    Graceful = {}
    Foreign = {}
    DryRun = {}
    Parallel = 2
    Attempts = 2
    MaxOps = 2
    CallErrors = {}
    LostReplies = FALSE
    Outsiders = FALSE
    Interrupts = FALSE
    Expiry = FALSE
    OptionalSteps = FALSE
    DefaultSteps = 2
    InterruptedAsTimeout = FALSE
INVARIANT CleanupOnlyOwn
