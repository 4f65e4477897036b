SPECIFICATION StreamingSpec
CONSTANTS
    Sends = {s1, s2}
    QueueCap = 1
    Messages = 1
    QueuedFrames = 1
    ReadAhead = 2
INVARIANTS
    DropCancels
CHECK_DEADLOCK FALSE
