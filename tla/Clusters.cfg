SPECIFICATION Spec
CONSTANTS
    HcHosts = {a, b}
    HcHealthy = 2
    HcUnhealthy = 2
    OdHosts = {a, b}
    OdConsecutive = 2
    OdMaxPercent = 60
    OdMinimumHosts = 2
    OdStdevFactor = 5
    OdMaxEjections = 2
    CiClusters = {a, b, c}
    CiMaxUpdates = 2
    TcHosts = {h1, h2}
    TcMaxPosts = 3
    TcMaxGen = 2
    ChAddresses = {"a1", "a2", "a3"}
    ChNames = {"n1", "n2"}
    ChMaxPosts = 2
CHECK_DEADLOCK FALSE
INVARIANTS
    HcSound OdSound CiSound TcSound ChSound
PROPERTIES
    ChKeepsHealthy Progress
