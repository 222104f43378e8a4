SPECIFICATION Spec
CONSTANTS
    Threads = {t1}
    NumAddrs = 1
    Whens = {1}
    Intervals = {0}
    MaxTimers = 1
    MaxFunctors = 1
    MaxTime = 2
    MaxJumps = 0
INVARIANT
    SequenceOfLiveTimer
