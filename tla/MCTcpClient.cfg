SPECIFICATION FairSpec
CONSTANTS
    ThreadOps = {"connect", "disconnect"}
    MaxConnects = 1
    MaxCalls = 3
    DestroyIdle = TRUE
INVARIANTS
    AssertionsHold
    
    SocketsOwned
    
PROPERTIES
    GetsConnected
