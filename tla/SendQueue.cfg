SPECIFICATION FairSpec
CONSTANTS
    Writers = {w1, w2}
    Workers = {c1, c2}
    BUFFER_SIZE = 2
    MaxMessage = 3
    MaxBytes = 5
    Failures = {"post", "abort", "short", "close"}
INVARIANTS
    TypeOK
    OneSend
    CountsExact
    BuffersInOrder
PROPERTIES
    StreamSafe
    StreamLive
CHECK_DEADLOCK FALSE
