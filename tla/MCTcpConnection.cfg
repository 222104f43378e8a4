SPECIFICATION FairSpec
CONSTANTS
    Users = {u1}
    Uses <- AnyUse
    Callbacks = {"writeComplete", "highWaterMark"}
    HighWaterMark = 2
    MaxMessage = 2
    MaxInput = 1
INVARIANTS
    AssertionsHold
    UpThenDown
    WritingIffOutput
    FinAfterOutput
    ReleasedClean
PROPERTIES
    PeerGoneReleases
    ForceCloseReleases
CHECK_DEADLOCK FALSE
