SPECIFICATION FairSpec
CONSTANTS
    N = 2
    MaxJobs = 1
    EventFails = TRUE
    Callers <- MCCallers
    Main <- MCMain
    Nobody <- MCNobody
    Levels = {2, 5}
    LogLevel = 2
    Day = 2
    MaxHour = 2
INVARIANTS
    TypeOK
    MisfiledOnlyAfterADay
    BrokenByOutliving
PROPERTIES
    LogKept
    ShutdownEnds
CHECK_DEADLOCK FALSE
