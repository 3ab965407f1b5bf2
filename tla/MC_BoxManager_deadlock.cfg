SPECIFICATION OpenSpec
CONSTANTS
    Caller = {c1, c2}
    Shape <- MultiShapes
    Count = 4
    MaxMemory = 4
    Id <- EightIds
    Zero = 0
    None = None
    Closer = Closer
    CtxMayEnd = FALSE
    MaxLost = 0
PROPERTY CallsReturn
