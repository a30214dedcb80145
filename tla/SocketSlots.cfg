SPECIFICATION Spec
CONSTANTS
    NumSlots = 2
    RetryCnt = 2
    Workers = {w1, w2}
    Nobody = Nobody
    MaxConns = 3
SYMMETRY Symmetry
INVARIANTS
    TypeOK
    SocketHeldOnce
    OneChain
    CleanWhenUnused
    OwnReference
CHECK_DEADLOCK FALSE
