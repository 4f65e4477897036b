SPECIFICATION MCSpec
CONSTANTS
    Calls = {a, b}
    Duplex = {b}
    Requests = 2
    FirstStreamed = 2
    MaxKept = 1
    ClientMemory = 2
    ServerMemory = 1
    Lengths = {0, 1, 3}
    MaxLen = 2
    FrameLimit = 2
    FirstStreamedMessage = 2
    Dicts = {"plain", "d"}
    MaxMessages = 5
    MaxPath = 2
INVARIANTS
    StreamedOnce
    ContextsAgree
PROPERTY
    ReplayDelivers
CHECK_DEADLOCK FALSE
