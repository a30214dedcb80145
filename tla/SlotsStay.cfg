SPECIFICATION Spec
CONSTANTS
    NumSlots = 2
    RetryCnt = 2
    Workers = {w1, w2}
    Nobody = Nobody
    MaxConns = 3
SYMMETRY Symmetry
INVARIANT
    SlotsStay
CHECK_DEADLOCK FALSE
