SPECIFICATION FwSpec
CONSTANTS
    FwMaxStreams = 2
    FwMaxRetries = 0
CHECK_DEADLOCK FALSE
INVARIANT FwResumes
