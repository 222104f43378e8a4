SPECIFICATION Spec
CONSTANTS
    Users = {u1}
    Uses <- ReadingStops
    Callbacks = {}
    HighWaterMark = 2
    MaxMessage = 2
    MaxInput = 1
INVARIANT
    OpenAtHandleClose
CHECK_DEADLOCK FALSE
