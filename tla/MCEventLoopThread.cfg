SPECIFICATION ThreadSpec
CONSTANTS
    Threads = {owner, t1}
    Owner = owner
    Channels = {c1, c2}
    MaxPosts = 3
    WakeupFdMax = 2
    InitEventListSize = 1
INVARIANTS
    NoThreadOutlivesObject
    NoLostWakeup
    NoLostQuit
    ExactlyOnceInOrder
PROPERTIES
    ExecutorSpec
    QueuedRuns
    StartLoopReturns
    DestructorEndsRunningLoop
CHECK_DEADLOCK FALSE
