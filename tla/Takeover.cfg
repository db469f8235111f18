SPECIFICATION Spec
CONSTANTS
    RhHosts = 3
    RhMinRing = 4
    RhMaxHash = 4
    HrMaxEpoch = 3
CHECK_DEADLOCK FALSE
INVARIANTS
    RhCorrect HrSound
PROPERTIES
    Progress
