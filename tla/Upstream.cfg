SPECIFICATION Spec
CONSTANTS
    H1Streams = {s1, s2, s3}
    H1Clients = {1, 2, 3}
    H1MaxPending = 2
    H1MaxConnections = 2
    H1MaxRequests = 2
    H2Streams = {s1, s2, s3}
    H2Clients = {k1, k2, k3}
    H2MaxRequests = 2
    H2MaxStreams = 2
    RtChunks = 3
    RtBufferLimit = 2
    RtRetryOn = {"5xx", "retriable-4xx"}
    RtNumRetries = 2
    RtGlobalTimeout = TRUE
    RtPerTryTimeout = TRUE
    RtAltResponses = {FALSE}
CHECK_DEADLOCK FALSE
INVARIANTS
    H1Sound H2Sound RtSound
PROPERTIES
    ImplementStreamPool Progress
