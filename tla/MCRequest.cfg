SPECIFICATION MCSpec
CONSTANTS
    MaxSent = 3
    Room = 1
    MaxMessages = 2
    Lengths = {0, 1, 2}
    LimitMessages = 2
    MaxBody = 3
    IdleTimeout = 2
    Deadlines = {1, 3}
    MaxItems = 3
    First = 4
    CoalesceMax = 2
    BufferedMax = 2
    DiscardChunk = 3
    Batch = 2
    MaxFrameSize = 5
INVARIANTS
    EndIsComplete
    AnsweredIsDrained
    LimitsHold
    FramesSurvive
PROPERTIES
    EndsInTime
CHECK_DEADLOCK FALSE
