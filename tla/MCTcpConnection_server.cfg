SPECIFICATION Spec
CONSTANTS
    Users = {u1}
    Uses <- ServerGoes
    Callbacks = {}
    HighWaterMark = 2
    MaxMessage = 2
    MaxInput = 1
INVARIANT
    NoneEventAtRemove
CHECK_DEADLOCK FALSE
