SPECIFICATION FairSpec
CONSTANTS
    Workers = {w1, w2}
    Payloads = {p1, p2, p3}
    SndHwm = 2
    RcvHwm = 1
INVARIANTS
    OneOwner
PROPERTIES
    SentIsConsumed
    SmallBacklogEnds
CHECK_DEADLOCK FALSE
