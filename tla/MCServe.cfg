SPECIFICATION MCSpec
CONSTANTS
    Connections = {c1, c2}
    Streams = {s1, s2}
    MaxConnections = 1
    MaxStreams = 1
    Protocols = {"native", "qmux", "http3", "http2", "http1", "acme", "other"}
    RPC = rpc
    V1MaxLen = 6
    V4Bits = 2
    V6Bits = 4
    MaxChunk = 3
    MaxFlows = 2
    FlowTimeout = 1
    SweepInterval = 1
    Rate = 1
    Attempt = 2
    MaxTime = 2
    MaxClock = 3
    MaxPassed = 4
INVARIANTS
    TasksAreOwned
    ProxiesAreRead
    RateIsKept
PROPERTIES
    ShutdownEnds
