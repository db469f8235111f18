SPECIFICATION LmSpec
CONSTANTS
    LmNames = {"x", "y"}
    LmWorkers = {w1, w2}
    LmDrainTime = 2
    LmMaxListeners = 2
CHECK_DEADLOCK FALSE
INVARIANTS
    LmSound
PROPERTIES
    LmDrains
