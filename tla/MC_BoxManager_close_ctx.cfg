SPECIFICATION Spec
CONSTANTS
    Caller = {c1, c2}
    Shape <- BatchShapes
    Count = 2
    MaxMemory = 3
    Id <- FourIds
    Zero = 0
    None = None
    Closer = Closer
    CtxMayEnd = TRUE
    MaxLost = 0
PROPERTY CloseWaits
ACTION_CONSTRAINT LeastFirst
CHECK_DEADLOCK FALSE
