SPECIFICATION MCSpec
CONSTANTS
    Producers = {p1, p2}
    Receiver = r
    MaxValues = 2
    MaxBytes = 3
    Sizes <- MCSizes
    MaxSize = 4
    MaxAccepted = 4
    MaxSends = 3
    MaxItems = 3
INVARIANTS
    NobodySleeps
    NoMissedChange
    NoItemStranded
PROPERTIES
    ImplementsFifo
    SomeSendCompletes
CHECK_DEADLOCK FALSE
