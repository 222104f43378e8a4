SPECIFICATION FairSpec
CONSTANTS
    MaxLines = 10
    BufferSize = 3
    MaxBacklog = 3
INVARIANTS
    BuffersAtHand
    LinesConserved
    FullBufferWakes
PROPERTIES
    LineWritten
    StopReturns
CHECK_DEADLOCK FALSE
