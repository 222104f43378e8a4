SPECIFICATION Spec
CONSTANTS
    Replicas = {s1, s2}
    Masters = {m1, m2}
    MaxElections = 2
    MaxCrashes = 2
    Timely = TRUE
    Barrier = TRUE
SYMMETRY Symmetry
INVARIANTS
    OneVotePerEpoch
    
    
    CurrentEpochIsMax
CHECK_DEADLOCK FALSE
