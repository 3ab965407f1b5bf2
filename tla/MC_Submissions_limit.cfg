SPECIFICATION Spec
CONSTANTS
    Sub <- TwoSubs
    Test = {t1}
    None = None
    HasSubtasks = TRUE
    WaitLimit = 1
    Batch = 1
    ReevalBatch = 1
    MaxOps = 0
    MaxFaults = 0
    MaxCrashes = 0
INVARIANT QueueLimit
