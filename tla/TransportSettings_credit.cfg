SPECIFICATION SettingsSpec
CONSTANTS
    Top = 40
    VarIntMax = 30
    MaxShift = 3
    Units = 5
    Values = {0, 1, 40}
    MaxOps = 2
    MaxAttempt = 5
    FrameHeaderLen = 2
    CreditFactor = 4
    MaxStreamCount = 20
    DefaultWindow = 8
    QuinnStreams = 5
INVARIANT
    QmuxMirrorsQuic
CHECK_DEADLOCK FALSE
