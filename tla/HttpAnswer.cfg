SPECIFICATION Spec
CONSTANTS
    a1 = a1
    c1 = c1  c2 = c2
    d1 = d1  d2 = d2
    NoEntry = NoEntry
    NoPort = NoPort
    Conn = {c1}
    Goal <- MCGoal
    Ports <- MCPorts
    Configs <- OnlyHttp
    MaxFiles = 4
    Others = {0, 2}
    BoundIPv4 = TRUE
    HeaderAlone = FALSE
    LocalAddr = a1
    Port = {1, 2}
    Addr = {a1}
    Dest = {d1, d2}
    Pid = {}
    CONNECTION_TIMEOUT = 1
    PID_CACHE_TTL = 1
    MaxSaid <- MCSaid
    MaxTold <- MCTold
    MaxTime = 1
INVARIANTS
    ReadyAfterSuccess
CHECK_DEADLOCK FALSE
