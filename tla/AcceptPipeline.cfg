SPECIFICATION FairSpec
CONSTANTS
    Clients = {c1, c2, c3}
    Workers = {w1, w2}
    Nobody = Nobody
    Backlog = 2
INVARIANT
    OneSignal
PROPERTIES
    EveryoneAccepted
    AcceptThreadEnds
CHECK_DEADLOCK FALSE
