SPECIFICATION FcSpec
CONSTANTS
    FcFilters = 2
    FcMaxData = 2
    FcAddLate = TRUE
CHECK_DEADLOCK FALSE
INVARIANT FcEndOnce
