SPECIFICATION FairSpec
CONSTANTS
    Workers = {w1, w2}
    Nobody = nobody
    Scripts <- MCScripts
    BUFFER_SIZE = 6
    PENDING_WRITE = 3
INVARIANTS
    TypeOK
    ClosedForAReason
    PendingBounded
PROPERTIES
    BothChannels
    Served
CHECK_DEADLOCK FALSE
