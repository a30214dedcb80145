SPECIFICATION ObjectSpec
CONSTANTS
    Refs = {r1, r2, r3, r4}
SYMMETRY Symmetry
INVARIANTS
    ObjectTypeOK
    FreedAtTheEnd
CHECK_DEADLOCK FALSE
