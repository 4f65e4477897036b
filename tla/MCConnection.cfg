SPECIFICATION MCSpec
SYMMETRY FlowSymmetry
CONSTANTS
    Flows = {f1, f2}
    Sends = 2
    MaxHeld = 1
    EndedCapacity = 1
    QueueCap = 1
    MaxDrained = 2
    Calls = {c1, c2, c3}
    DictionaryCalls = {d1, d2}
    Connections = {n1, n2}
    Keeping = {n1}
    MaxSets = 1
    Versions = 2
    Ids = {1, 2}
    Fingerprints = {a, b}
    MaxDictionaries = 2
    ResponseCalls = {c1}
    Paths = {0, 2, 3}
    Sizes = {1, 3}
    Messages = 2
    ResponseQueue = 1
INVARIANTS
    RequestDatagramsOnce
    DictionariesAgree
    ResponseDatagramsOnce
PROPERTY
    CallSeesItsSet
CHECK_DEADLOCK FALSE
