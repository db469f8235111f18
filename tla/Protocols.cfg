SPECIFICATION Spec
CONSTANTS
    CmMaxStreams = 3
    CmMaxData = 2
    FcFilters = 3
    FcMaxData = 2
    FcAddLate = FALSE
    H1MaxRequests = 2
    H1MaxBody = 1
    HhStreams = {1}
    HhWindow = 2
    HhMaxBody = 2
    RpHosts = {h1, h2}
    RpMaxRequests = 2
    RcWidth = 4
    MgMaxMessages = 3
    TpMaxData = 4
    TpChunk = 2
    TpLimit = 1
    TpRoutes <- TpRoutesMC
    LiConns = {1, 2}
    LiMaxLine = 3
    LiMaxBytes = 3
    RoMaxWeight = 4
    RoHashWidth = 2
    RoHosts <- RoHostsMC
    RoDomains <- RoDomainsMC
    RoRoutes <- RoRoutesMC
    RoPaths <- RoPathsMC
    RoPolicies <- RoPoliciesMC
    RdVersions = {1, 2, 3}
    RdNames = {1, 2}
    RdMaxUpdates = 2
    AlMaxWrites = 3
    AlMaxFlushes = 1
    AlMaxReopens = 1
    AlMaxOther = 1
    AcStreams = {1, 2}
    AcSendsAfterEnd = FALSE
    MxWatches = {"w1", "w2", "w3"}
    MxTypeOf <- MxTypesMC
    MxNames = {{"a"}, {"b"}}
    MxMaxResponses = 2
    MxMaxCloses = 1
    RnTrees <- RnTreesMC
    RnMaxSwaps = 3
    RnBuckets = 3
    RnPrefetch = 5
    RnTake = 2
    FfMaxData = 2
    FfSnapshots <- FfSnapshotsMC
    FfConfigs <- FfConfigsMC
    TlFlights = 2
    TlRecord = 2
    TlLimit = 3
    TlMaxIn = 3
    TlMaxOut = 2
    JlKeys = {"k", "l"}
    JlScalars <- JlScalarsMC
    FwMaxStreams = 2
    FwMaxRetries = 1
    DnMaxQueries = 3
    RqMaxHops = 2
    RqHashes = {0, 1}
    ZkMaxSpans = 3
    ZkMinFlush = {0, 2}
    ZkMaxFlushes = 1
    LrClusters = {"x", "y"}
    LrMaxLoad = 1
CHECK_DEADLOCK FALSE
INVARIANTS
    CmSound   
