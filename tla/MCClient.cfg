SPECIFICATION MCSpec
CONSTANTS
    Sends = {s1, s2}
    QueueCap = 1
    Messages = 3
    QueuedFrames = 1
    ReadAhead = 2
    Sizes = {1, 2, 3}
    MaxBody = 2
    MaxMessages = 2
    MaxStream = 3
    ResponseFrames = 4
    MaxInbox = 1
    Keys = {"k", "K"}
    MaxOps = 2
    MaxFrames = 4
INVARIANTS
    HalvesAgree
    NothingLost
    ConfiguredIsSent
    UnaryEndsWell
PROPERTIES
    FuturesEnd
CHECK_DEADLOCK FALSE
