SPECIFICATION FairSpec
CONSTANTS
    Timers = {t1, t2}
    TimerInstance = TimerInstance
    Delays = {0, 2, 9}
    Day = 3
    Half = 6
    MaxTime = 5
    MaxLost = 1
INVARIANTS
    TypeOK
    NoOversleep
    RefExact
PROPERTIES
    EarlyOnlyFar
    EveryTimerFires
    StopsWhenQuiet
CHECK_DEADLOCK FALSE
