SPECIFICATION LogSpec
CONSTANTS
    f1 = f1
    f2 = f2
    Files = {f1, f2}
    InitialFiles = {f1}
    InitialLines = 1
    MaxHour = 1
    HoursPerDay = 2
    MaxLines = 1
    MaxOutruns = 1
    MongoFaults = TRUE
CHECK_DEADLOCK FALSE
INVARIANT NeverOverCounts
INVARIANT ReplacementsExclusive
PROPERTY NonEmptyLogsPublished
