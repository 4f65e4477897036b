SPECIFICATION MCSpec
CONSTANTS
    Calls = {k1, k2}
    MaxExtra = 2
    MaxConns = 2
    MinConns = 1
    BusyCalls = 1
    Threads = {t1, t2}
    RateWindow = 1
    MaxTime = 2
    MaxStarts = 3
    MaxBytes = 1
    Top = 40
    VarIntMax = 30
    MaxShift = 3
    Units = 5
    Values = {0, 1, 40}
    MaxOps = 2
    MaxAttempt = 5
    FrameHeaderLen = 2
    CreditFactor = 4
    MaxStreamCount = 20
    DefaultWindow = 8
    QuinnStreams = 5
    MaxDials = 3
    MaxAttempts = 2
    MinConnections = 2
    Ipv4 <- MCIpv4
    Ipv6 <- MCIpv6
    Answers <- MCAnswers
    Reaches <- MCReaches
INVARIANTS
    NothingLeaks
    FailsWhenAllDid
    PoolKeepsCalls
    CountedOnce
    SettingsHold
PROPERTIES
    GenerationsGrow
    ConnectsWhereItCan
    Drains
CHECK_DEADLOCK FALSE
