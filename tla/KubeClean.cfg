SPECIFICATION Spec
CONSTANTS
    s1 = s1
    s2 = s2
    s3 = s3
    Services <- WithDryCase
    Objects <- CleanObjects
    Namespace <- ns
    Ensures <- EnsureClean
    Deletes <- DeleteNone
    Graceful = {}
    Foreign <- CleanObjects
    DryRun <- DryCase
    Parallel = 1
    Attempts = 2
    MaxOps = 2
    CallErrors = {}
    LostReplies = FALSE
    Outsiders = FALSE
    Interrupts = TRUE
    Expiry = FALSE
    OptionalSteps = TRUE
    DefaultSteps = 2
    InterruptedAsTimeout = FALSE
INVARIANTS NoLeak CleanupOnlyOwn NamespaceKept
PROPERTY CasesClose
