SPECIFICATION Spec
CONSTANTS
    DefaultSteps = 4
    InterruptedAsTimeout = TRUE
    Conditions = {"ready", "replicas"}
    Pods <- TwoPods
    MaxAttempts = 2
    MaxChanges = 4
INVARIANTS TypeOK EffectsBounded SuccessIsReal ConflictAbsorbed JudgedTogether
PROPERTIES KeepsOthers Returns
