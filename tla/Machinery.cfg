SPECIFICATION Spec
CONSTANTS
    Domains <- TwoDomains
    Keys <- PlainKeys
    Values <- OneValue
    Limits = {1, 2}
    NoLimit = NoLimit
    BadLimit = BadLimit
    MaxDepth = 2
    MaxRules = 4
    Codes = {200, 301, 404, 429, 503}
    Durations = {1, 3}
    UpstreamTimes = {1}
    NaN = NaN
    MaxRecordLines = 3
    LbLocalities = 2
    LbMaxHosts = 2
    LbPanic = 50
    LbMinCluster = 2
    LbWeight = 2
    SbNames = {"version", "stage"}
    SbValues = {1, 2}
    SbKeys = {{"version"}, {"version", "stage"}}
    SbMaxMembers = 2
    SsAddresses = {a1, a2}
    SsNames = {"x", "y"}
    SsSlots = 1
    SsMaxScopes = 3
    SsMaxAdds = 1
    SsReuse = FALSE
    StSlice = 2
    StMaxStats = 5
    StMaxWritten = 9
    GdThreads = {t1, t2}
    GdMiss = 1
    GdMegaMiss = 2
    GdKill = 4
    GdMultiKill = 3
    GdMaxTime = 5
    TsWorkers = {w1}
    TsMaxSlots = 2
    TsMaxOwners = 3
CHECK_DEADLOCK FALSE
INVARIANTS
    RecordExact   ThreadsSound
