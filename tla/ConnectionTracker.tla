-------------------------- MODULE ConnectionTracker --------------------------
(***************************************************************************)
(* The two shared tables of proxy-bridge-core: the connection tracker      *)
(* (source port -> original destination) and the PID cache (local socket   *)
(* -> PID).  Every operator is one method, executed while the table's lock *)
(* is held, so a caller composes them as separate atomic steps.            *)
(*                                                                         *)
(* A HashMap is a total function with NoEntry where there is no key.  An   *)
(* Instant is a natural number of ticks, and x.elapsed() is now - x.  A    *)
(* destination (IP and port) is one value of Dest.                         *)
(*                                                                         *)
(* In this and the other modules, a definition whose name starts with      *)
(* "Mut" is the definition after it with a plausible bug: the runs must    *)
(* tell the two apart.                                                     *)
(***************************************************************************)
EXTENDS Integers

CONSTANTS
    Port,                \* source ports
    Addr,                \* local source addresses
    Dest,                \* original destinations
    Pid,                 \* process ids
    NoEntry,             \* what a lookup of an absent key returns
    CONNECTION_TIMEOUT,  \* ticks after which a connection is stale
    PID_CACHE_TTL        \* ticks for which a cached PID is used

ASSUME TimeoutsAssumption ==
    /\ CONNECTION_TIMEOUT \in Nat \ {0}
    /\ PID_CACHE_TTL \in Nat \ {0}

Proto == {"tcp", "udp"}

(* The key of the PID cache.  The tracker has no counterpart of it: its    *)
(* key is the source port alone.                                           *)
PidCacheKey == [proto : Proto, addr : Addr, port : Port]

ConnectionInfo == [src_ip : Addr, dest : Dest, last_activity : Nat]
PidCacheEntry == [pid : Pid, timestamp : Nat]

ASSUME NoEntryAssumption ==
    NoEntry \notin ConnectionInfo \cup PidCacheEntry \cup Dest

Absent(keys) == [k \in keys |-> NoEntry]

-----------------------------------------------------------------------------
\* ConnectionTracker

IsTracked(conns, port) == conns[port] # NoEntry

Add(conns, port, ip, dest, now) ==
    [conns EXCEPT ![port] = [src_ip |-> ip, dest |-> dest, last_activity |-> now]]

Get(conns, port) ==
    IF IsTracked(conns, port) THEN conns[port].dest ELSE NoEntry

MutCleanupLate(conns, now) ==    \* keeps an entry of exactly the timeout's age
    [p \in Port |->
        IF IsTracked(conns, p) /\ now - conns[p].last_activity <= CONNECTION_TIMEOUT
        THEN conns[p] ELSE NoEntry]

MutCleanupEarly(conns, now) ==   \* drops an entry a tick too soon
    [p \in Port |->
        IF IsTracked(conns, p) /\ now - conns[p].last_activity < CONNECTION_TIMEOUT - 1
        THEN conns[p] ELSE NoEntry]

CleanupStale(conns, now) ==
    [p \in Port |->
        IF IsTracked(conns, p) /\ now - conns[p].last_activity < CONNECTION_TIMEOUT
        THEN conns[p] ELSE NoEntry]

MutFindByDest(conns, dest) ==    \* takes any connection
    {p \in Port : IsTracked(conns, p)}

(* The ports find_by_dest may answer with: the HashMap is iterated in an   *)
(* order the program does not choose, and the first match is returned.     *)
FindByDest(conns, dest) ==
    {p \in Port : IsTracked(conns, p) /\ conns[p].dest = dest}

-----------------------------------------------------------------------------
\* PidCache

MutCachedPidLate(cache, key, now) ==    \* uses an entry of exactly the TTL's age
    IF cache[key] # NoEntry /\ now - cache[key].timestamp <= PID_CACHE_TTL
    THEN cache[key].pid ELSE NoEntry

CachedPid(cache, key, now) ==
    IF cache[key] # NoEntry /\ now - cache[key].timestamp < PID_CACHE_TTL
    THEN cache[key].pid ELSE NoEntry

CachePut(cache, key, pid, now) ==
    [cache EXCEPT ![key] = [pid |-> pid, timestamp |-> now]]

CacheCleanup(cache, now) ==
    [k \in PidCacheKey |->
        IF cache[k] # NoEntry /\ now - cache[k].timestamp < PID_CACHE_TTL
        THEN cache[k] ELSE NoEntry]
=============================================================================
