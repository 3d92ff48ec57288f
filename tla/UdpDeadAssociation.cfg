SPECIFICATION WillingSpec
CONSTANTS
    a1 = a1
    d1 = d1  d2 = d2
    NoEntry = NoEntry
    NoPort = NoPort
    Port = {1}
    Addr = {a1}
    LocalAddr = a1
    WithAuth = FALSE
    BoundIPv4 = FALSE
    HeaderAlone = TRUE
    Dest = {d1}
    Pid = {}
    Reach <- SharedDest
    CONNECTION_TIMEOUT = 2
    PID_CACHE_TTL = 1
    MaxWaiting = 1
    MaxTime = 2
PROPERTIES
    LostAssociationReplaced
