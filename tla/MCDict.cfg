SPECIFICATION FairSpec
CONSTANTS
    k1 = k1
    k2 = k2
    k3 = k3
    Keys = {k1, k2, k3}
    Hash <- MCHash
    Bits = 2
    InitialExp = 0
    EmptyVisits = 2
    ForceRatio = 1
INVARIANTS
    WellFormed
    ScanComplete
PROPERTIES
    
    IteratesOnce
    ScanEnds
