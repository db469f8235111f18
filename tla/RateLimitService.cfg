SPECIFICATION Spec
CONSTANTS
    d1 = d1
    d2 = d2
    i1 = i1
    i2 = i2
    NoLimit = NoLimit
    NoConfig = NoConfig
    Descriptors = {d1, d2}
    Calls = {c1, c2}
    Instances = {i1, i2}
    Requests <- SmallRequests
    Configs <- TwoUnits
    Skew <- OneAhead
    MaxJitter = 0
    UintRange = 100
    MaxTime = 2
    MaxDelay = 1
    MaxCount = 10
SYMMETRY Symmetry
CHECK_DEADLOCK FALSE
INVARIANTS CounterLimit WindowLimit CountersExpire StatsExact
