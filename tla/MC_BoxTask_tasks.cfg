\* Every task, local and remote, one user sandbox, two faults.
CONSTANTS
    Main = main
    Users = {u1}
    Tries = 2
    MaxFaults = 2
SPECIFICATION FairSpec
INVARIANTS
    TypeOK
    ScoredHonestly
    PanicOnlyAfterAllTries
    LeftoversExplained
PROPERTIES
    PromiseSpec
    TaskReturns
    OrphansReclaimed
CHECK_DEADLOCK FALSE
