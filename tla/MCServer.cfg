CONSTANTS
    \* A unary call and a streaming one, which share the limits.
    Calls = {unary, stream}
    Streaming = {stream}
    Answered = {stream}
    StreamLimit = 2
    Others = 1
    RequestLimit = 1
    Interceptors = 1
    Finishing = {TRUE}
    ServerHandles = {h1, h2}
    Paths = {"/s/m"}
    MaxChanges = 2
    Requests <- CallRequests
    Routes <- CallRoutes
    Options <- CallOptions
    Authorizers <- CallAuthorizers
    OptionSets <- MCOptionSets
    HttpRequests <- MCHttpRequests
    AllowedOrigins <- MCAllowedOrigins
    AllowedAuthorities <- MCAllowedAuthorities
    Frames = 1
    Keys = {"k", "K", "l", "trevrpc-x"}
    Values = {1, 2}
    MaxTotal = 2
    MaxSets = 3
SPECIFICATION MCSpec
INVARIANTS SlotsAreAccounted CodesAgree InterruptedIsCancelled ServersAreConsistent HttpAgrees SetIsSent
CHECK_DEADLOCK FALSE
