SPECIFICATION FairSpec
CONSTANTS
    w1 = w1
    w2 = w2
    Workers = {w1, w2}
    Order <- TwoInOrder
    Watcher = watcher
    Stoppers = {watcher}
    Hosts = {h1, h2}
    MaxSignals = 2
    MaxVersions = 2
    MaxTraffic = 2
    MaxPayloads = 2
    BadFiles = TRUE
INVARIANTS
    LabelsFromOneVersion
    CleanExit
PROPERTIES
    ReloadCatchesUp
    TermEndsDaemon
