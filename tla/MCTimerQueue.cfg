SPECIFICATION FairSpec
CONSTANTS
    Threads = {t1}
    NumAddrs = 2
    Whens = {0, 2}
    Intervals = {0, 1}
    MaxTimers = 2
    MaxFunctors = 2
    MaxTime = 3
    MaxJumps = 1
INVARIANTS
    SetsAgree
    OwnedOnce
    TimerfdArmed
PROPERTIES
    CancelHolds
    OneShotRunsOnce
    TimerFires
