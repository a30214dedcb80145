SPECIFICATION MCSpec
CONSTANTS
    Threads = {t1, t2, t3, t4}
    Fourth = t4
    Word = 3
    Ops = {"read", "write", "try"}
INVARIANTS
    TypeOK
    MutualExclusion
    CountExact
    ForgottenOnlyBy
PROPERTIES
    SomeWriterGetsIt
CHECK_DEADLOCK FALSE
