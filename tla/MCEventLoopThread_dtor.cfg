SPECIFICATION ThreadSpec
CONSTANTS
    Threads = {owner, t1}
    Owner = owner
    Channels = {c1}
    MaxPosts = 2
    WakeupFdMax = 2
    InitEventListSize = 16
PROPERTY DestructorEnds
CHECK_DEADLOCK FALSE
