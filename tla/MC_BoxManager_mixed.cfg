SPECIFICATION Spec
CONSTANTS
    Caller = {c1, c2, c3}
    Shape <- MixedShapes
    Count = 2
    MaxMemory = 3
    Id <- FourIds
    Zero = 0
    None = None
    Closer = Closer
    CtxMayEnd = TRUE
    MaxLost = 3
INVARIANTS
    TypeOK
    ExclusiveIds
    MemoryBudget
    ConcurrencyBudget
    IdsSuffice
    CloseIsClean
PROPERTY PoolSpec
ACTION_CONSTRAINT LeastFirst
SYMMETRY Symmetry
CHECK_DEADLOCK FALSE
