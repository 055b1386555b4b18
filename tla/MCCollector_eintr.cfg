SPECIFICATION FairSpec
CONSTANTS
    w1 = w1
    w2 = w2
    Workers = {w1, w2}
    Order <- TwoInOrder
    Watcher = watcher
    Stoppers = {watcher}
    Hosts = {h1}
    MaxSignals = 1
    MaxVersions = 2
    MaxTraffic = 1
    MaxPayloads = 1
    BadFiles = FALSE
PROPERTIES
    AnyTermEndsDaemon
