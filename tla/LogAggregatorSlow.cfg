SPECIFICATION LogSpec
CONSTANTS
    f1 = f1
    f2 = f2
    Files = {f1, f2}
    InitialFiles = {f1}
    InitialLines = 1
    MaxHour = 0
    HoursPerDay = 2
    MaxLines = 2
    MaxOutruns = 1
    MongoFaults = FALSE
CHECK_DEADLOCK FALSE
INVARIANT CountsOnce
