SPECIFICATION Spec
CONSTANTS
    Threads = {t1, t2}
    Buffers = {b1, b2, b3, b4, b5, b6}
    NoBuffer = NoBuffer
    BUFFER_POOL_SIZE = 2
    MaxUse = 3
SYMMETRY Symmetry
INVARIANTS
    TypeOK
    OneOwner
    NoGrowth
CHECK_DEADLOCK FALSE
