SPECIFICATION OpenSpec
CONSTANTS
    Caller = {c1, c2, c3}
    Shape <- CommunicationShapes
    Count = 4
    MaxMemory = 4
    Id <- EightIds
    Zero = 0
    None = None
    Closer = Closer
    CtxMayEnd = FALSE
    MaxLost = 0
INVARIANTS
    StuckOnlyByHoldAndWait
PROPERTY CallsReturnOrDeadlock
ACTION_CONSTRAINT LeastFirst
