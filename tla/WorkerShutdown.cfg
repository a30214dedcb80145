SPECIFICATION Spec
CONSTANTS
    N = 2
    MaxJobs = 2
    EventFails = FALSE
    Callers <- MCCallers
    Main <- MCMain
    Nobody <- MCNobody
    Levels = {2, 5}
    LogLevel = 2
    Day = 2
    MaxHour = 3
INVARIANTS
    NeverInTheMiddle
CHECK_DEADLOCK FALSE
