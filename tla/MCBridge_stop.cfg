SPECIFICATION FairSpec
CONSTANTS
    w1 = w1
    w2 = w2
    Workers = {w1, w2}
    Order <- TwoInOrder
    Stoppers = {t1, t2}
    HostWaits = FALSE
INVARIANTS
    RegistryExact
    WorkersAccounted
    StopMeansStopped
    DanglingNeedsTwoStops
PROPERTIES
    EverySrvKeepsContract
    ReadyStopTerminates
