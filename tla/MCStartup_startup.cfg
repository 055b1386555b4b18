SPECIFICATION Spec
CONSTANTS
    Vendors <- MCVendors
    Order <- MCOrder
    Hosts = {"daemon", "library"}
    Configs <- MCConfigs
    Rewrites <- Good
    Paths <- MCPaths
    Ifaces = {"eth0"}
    FreeSockets = {"a:1", "a:2", "a:3"}
    Brokers = {"b:9", "dummy_servers"}
    Number <- MCNumber
    MaxStarts = 2
    MaxEdits = 1
CHECK_DEADLOCK FALSE
INVARIANTS
    KeysAlwaysThere
    CredentialsChecked
    RealDelivery
    WorkersAsConfigured
    ExitUnderWorkers
    HostDeathsKnown
