SPECIFICATION Spec
CONSTANTS
    pb = pb  p1 = p1  p2 = p2
    app = app  other = other
    a1 = a1  any = any
    d1 = d1  d2 = d2  dns = dns
    NoEntry = NoEntry
    NoProg = NoProg
    NoPid = NoPid
    AnyAddr = any
    BridgePid = pb
    BridgeProg = app
    Port = {0, 1}
    Addr = {a1}
    Dest = {d1, dns}
    Pid = {pb, p1, p2}
    Prog = {app, other}
    Binding <- OneUdp
    Reach <- AllDests
    Policy <- MCPolicy
    RelayPort <- MCRelayPort
    RulesActive = TRUE
    DnsDest = {dns}
    DhcpDest = {}
    LocalDest = {}
    DnsViaProxy = FALSE
    ProxyKind = "socks5"
    CONNECTION_TIMEOUT = 1
    PID_CACHE_TTL = 1
    CLEANUP_INTERVAL = 1
    LookupMayFail = TRUE
    VerdictMayFail = TRUE
    Latency = 1
    Orderly = TRUE
    ConntrackLasts = TRUE
    ReuseDelay = 1
    MaxQueue = 1
    MaxTime = 3
INVARIANTS
    BlockIsEnforced
    ProxyIsEnforced
    FailsOpen
