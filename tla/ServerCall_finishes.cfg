SPECIFICATION Spec
\* A unary call and a streaming one, which share the limits.
CONSTANTS
    Calls = {unary, stream}
    Streaming = {stream}
    Answered = {stream}
    StreamLimit = 2
    Others = 1
    RequestLimit = 1
    Interceptors = 1
    Finishing = {TRUE}
INVARIANTS
    FinishesRun
CHECK_DEADLOCK FALSE
