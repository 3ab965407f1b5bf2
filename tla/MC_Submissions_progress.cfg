SPECIFICATION FairSpec
CONSTANTS
    Sub <- TwoSubs
    Test = {t1}
    None = None
    HasSubtasks = TRUE
    WaitLimit = 5
    Batch = 1
    ReevalBatch = 1
    MaxOps = 1
    MaxFaults = 0
    MaxCrashes = 1
PROPERTY EventuallyFinished
