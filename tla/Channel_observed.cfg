CONSTANTS
    MaxDials = 3
    MaxAttempts = 2
SPECIFICATION Spec
CHECK_DEADLOCK FALSE
INVARIANTS
    ObservesLatest
