SPECIFICATION Spec
CONSTANTS
    pb = pb  p1 = p1  p2 = p2
    app = app  other = other
    a1 = a1  any = any
    d1 = d1  d2 = d2  dns = dns
    NoEntry = NoEntry
    NoProg = NoProg
    NoPid = NoPid
    AnyAddr = any
    BridgePid = pb
    BridgeProg = app
    Port = {0, 1}
    Addr = {a1}
    Dest = {d1}
    Pid = {pb, p1, p2}
    Prog = {app, other}
    Binding <- OneTcp
    Reach <- AllDests
    Policy <- MCPolicy
    RelayPort <- MCRelayPort
    RulesActive = TRUE
    DnsDest = {}
    DhcpDest = {}
    LocalDest = {}
    DnsViaProxy = FALSE
    ProxyKind = "socks5"
    CONNECTION_TIMEOUT = 2
    PID_CACHE_TTL = 1
    CLEANUP_INTERVAL = 1
    LookupMayFail = FALSE
    VerdictMayFail = FALSE
    Latency = 1
    Orderly = TRUE
    ConntrackLasts = FALSE
    ReuseDelay = 1
    MaxQueue = 1
    MaxTime = 4
INVARIANTS
    BlockIsEnforced
