SPECIFICATION Spec
CONSTANTS
    Users = {u1}
    Uses <- ThreadCloses
    Callbacks = {}
    HighWaterMark = 2
    MaxMessage = 2
    MaxInput = 1
INVARIANT
    PresentAtRemoveConnection
CHECK_DEADLOCK FALSE
