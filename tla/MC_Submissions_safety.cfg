SPECIFICATION Spec
CONSTANTS
    Sub <- TwoSubs
    Test = {t1, t2}
    None = None
    HasSubtasks = TRUE
    WaitLimit = 5
    Batch = 1
    ReevalBatch = 1
    MaxOps = 2
    MaxFaults = 1
    MaxCrashes = 1
INVARIANTS
    TypeOK
    WorkingIsOwned
    ScoreOfRows
    OneRowPerTest
    NoForgottenWork
ACTION_CONSTRAINTS
    ThreeEvents
    WakesDuringEvaluation
SYMMETRY Symmetry
