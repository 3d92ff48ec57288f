SPECIFICATION FairSpec
CONSTANTS
    a1 = a1
    d1 = d1  d2 = d2
    NoEntry = NoEntry
    NoPort = NoPort
    Port = {1, 2}
    Addr = {a1}
    LocalAddr = a1
    WithAuth = FALSE
    BoundIPv4 = FALSE
    HeaderAlone = TRUE
    Dest = {d1, d2}
    Pid = {}
    Reach <- SharedDest
    CONNECTION_TIMEOUT = 1
    PID_CACHE_TTL = 1
    MaxWaiting = 1
    MaxTime = 2
INVARIANTS
    TypeOK
    ReplyToAsker
PROPERTIES
    NoSendAfterError
    BothDirectionsServed
