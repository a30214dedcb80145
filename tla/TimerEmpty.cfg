SPECIFICATION Spec
CONSTANTS
    Timers = {t1, t2}
    TimerInstance = TimerInstance
    Delays = {1, 3}
    Day = 3
    Half = 8
    MaxTime = 5
    MaxLost = 1
INVARIANT
    NeverEmpty
CHECK_DEADLOCK FALSE
