# A verification of proxy-bridge

TLA+ models of proxy-bridge (a transparent, per-process proxy for Linux), TLC
configurations that check them on small instances, and theorems about them
proved with TLAPS. Source paths below are relative to `src/`; `core` stands for
`crates/proxy-bridge-core/src`, `linux` for `linux/src`.

## 1. The system

Every outgoing TCP and UDP packet of the host is queued by an nftables chain to
one thread, which finds the process that sent it, asks the rules, and lets it
through, drops it, or marks it so that a second chain redirects its flow to a
relay on the same host. The relay learns the flow's original destination from a
table the thread filled, and forwards the data through a SOCKS5 or HTTP proxy.

| Component | State | Operations |
|---|---|---|
| Connection tracker (`core/connection.rs`) | map: source port -> source address, destination, time of insertion, behind an RwLock | add, get, is_tracked, cleanup_stale, find_by_dest |
| PID cache (`core/connection.rs`) | map: address, port, protocol -> PID, time, behind a Mutex | get, put, cleanup |
| NFQUEUE processor (`linux/nfqueue.rs`) | the packet in hand | recv, checks, lookup, rule, add, verdict: one blocking thread |
| Process lookup (`linux/process.rs`) | none; reads the PID cache, the kernel's sockets and /proc | get_pid_from_connection, get_process_name |
| Rule engine (`core/rule.rs`) | list of rules behind an RwLock, a process-wide id counter | add, enable, disable, delete, has_active_rules, match_rule |
| Pattern matching (`core/rule.rs`) | none | process, address and port patterns |
| UDP relay (`linux/relay/udp.rs`) | control connection, send socket, relay address | one task: establish, receive from clients, receive from proxy |
| TCP relay (`linux/relay/tcp.rs`) | listener, one task per connection | accept, lookup, connect, handshake, copy |
| SOCKS5 client, HTTP CONNECT client (`core/proxy`) | position in the handshake | CONNECT, UDP ASSOCIATE |
| Netfilter manager (`linux/netfilter.rs`) | the `proxybridge` table in the kernel | setup, cleanup |
| Lifecycle (`linux/main.rs`) | `running`, threads and tasks, cleanup timer | start, SIGINT, shutdown, `--cleanup` |
| CLI, configuration, rule strings (`crates/proxy-bridge-cli`, `core/config.rs`) | none | parsing |

They interact through shared tables, not messages. The thread writes the tracker
and the PID cache, the relays read the tracker, a periodic task prunes both. The
kernel is the fourth party: it decides which packets the thread sees, and after
the first packet of a flow conntrack, not the mark, decides where packets go.

What is hard: the thread checks the tracker and adds to it in two critical
sections with a slow lookup between them; the tracker forgets by age while
conntrack forgets by its own rules; a PID found once is believed for ten
seconds; the key of the tracker is the source port alone; the UDP relay
multiplexes all clients on one association and finds the client of a reply by
the reply's source; nothing notices that the association is gone.

What makes each part correct:

- tracker: a redirected flow's entry is there, unchanged, for the timeout, and
  not for much longer;
- lookup and cache: the PID is the sender's, or that of a recent owner;
- processor: what happens to a packet is what the rules say of its sender, DNS
  without `--dns-via-proxy` excepted, and no packet waits for ever;
- rules: ids name one rule, the order of the list is the order of the calls,
  the loop computes the meaning of the list;
- UDP relay: replies go to their asker, or at worst to another client of the
  server they come from, no direction starves, a lost association is replaced;
- TCP relay and proxy clients: a connection is closed, or joined to the
  destination it was opened to, and then each side gets what the other one
  sends, all of it and nothing else; a handshake that succeeded has read exactly
  the proxy's answer; a proxy that does not answer stops nobody else's
  connection;
- lifecycle: no table without a listener outlives the program except by a named
  mishap, starts after crashes recover, an interrupted program ends.

The places in the code where these can go wrong are listed, line by line and
with the properties that watch them, under `hazards` in `PROJECT.json`.

## 2. The modules

| Module | Models |
|---|---|
| `ConnectionTracker` | the two tables: one operator per method, and the constants the code calls CONNECTION_TIMEOUT_MS and PID_CACHE_TTL_MS, in ticks |
| `NfQueue` | the NFQUEUE thread with the process lookup, the cleanup task, the nftables chains, applications and conntrack |
| `Interceptor` | what `NfQueue` promises: packets judged once, in order, as the rules ask |
| `Rules` | rules and the matching loop |
| `RuleEngine` | the locked list, the id counter, concurrent callers |
| `ProxyClient` | the SOCKS5 and HTTP CONNECT handshakes as readers of a stream, and the proxy's answers |
| `TcpRelay` | accept loop, one task per connection, the clients and destinations at its ends |
| `Tunnel` | what `TcpRelay` promises, in terms of the two ends only |
| `UdpRelay` | the UDP relay's loop with clients, interceptor, cleanup task and proxy around it |
| `Lifecycle` | main, its services and the nftables table, over several starts of the program |
| `MCNfQueue`, `MCRuleEngine`, `MCTcpRelay`, `MCUdpRelay`, `MCLifecycle` | instances for TLC |
| `NfQueueProofs`, `NfPolicyProofs`, `RuleEngineProofs`, `ProxyClientProofs`, `TcpRelayProofs`, `UdpRelayProofs`, `LifecycleProofs` | theorems; `ProxyClientProofs` holds lemmas for both relays |

`NfQueue`, `TcpRelay` and `UdpRelay` extend `ConnectionTracker`; `TcpRelay` and
`UdpRelay` extend `ProxyClient`; `RuleEngine` extends `Rules`. The relays see the
interceptor as one step that does to the tracker and to conntrack what `NfQueue`
shows in detail.

A definition whose name starts with `Mut` is the definition after it with a
plausible bug. No specification uses one: it is there to show that a property
notices the bug.

### NfQueue

One action per stretch of code between two accesses to something another actor
writes; `pc` is the next one.

| Action | Code |
|---|---|
| `Recv` | `nfqueue.rs` 36-118: recv, no active rules, relay source port |
| `CheckTracked` | 120-136: tracked port, TCP without SYN, DNS |
| `CacheGet`, `Lookup`, `PutPid` | `process.rs` 15-37: `PidCache::get`, SOCK_DIAG and /proc, `PidCache::put` |
| `Decide` | `nfqueue.rs` 139-208: own PID, process name, rule, exemptions |
| `AddConn` | 209-217: `ConnectionTracker::add`, the mark |
| `GiveVerdict` | 220 and the `nat_output` chain of `netfilter.rs` 112-155 |
| `CleanupConns`, `CleanupPids` | `main.rs` 173-183 |
| `Send` | a socket's packet meets the `mangle_output` chain of `netfilter.rs` 85-110 |
| `Spawn`, `Exit`, `OpenSocket`, `CloseSocket`, `ForgetFlow`, `Tick` | processes, sockets, conntrack, time: not in the repository |

A packet carries its real sender, `pid` and `prog`, which the thread never
reads; the policy properties compare what happened with what the rules say of
that sender. `Path` is the kernel's part of a verdict: the nat chain sees only
the first packet of a flow, later ones follow conntrack. The rules are the
constant `Policy`, an arbitrary function of program, protocol and destination
(no call after start-up changes them), so what holds here holds for any list.

The program starts on a host at work (`HostAtWork` in `Init`): processes run, their
sockets are open, and conntrack knows flows no rule was asked about. Their
segments are accepted unjudged (`nfqueue.rs` 128) and conntrack keeps them out of the
nat chain, which sees the first packet of a flow only; a flow that an earlier
instance redirected and left behind is not modelled.

What the rules ask for a packet is `Intended`, by the real sender and nothing else.
`DnsExempt` is the branch of `nfqueue.rs` 135 that comes before any rule: with
`--dns-via-proxy false` (the default is true) DNS leaves, that of a blocked program
too. `Handling` is the two together, what the program means to do.

Abstractions. An IPv4 address with a port is one `Dest`; exempt destinations
are subsets of it. A lookup reads the socket table at one moment;
`LookupMayFail` adds every partial or empty answer that its races with closing
sockets can give. Sockets shared by several processes, `exec`, the fixed name
of PID 1 and IPv6 are left out. Packets that are too short or of another
protocol are accepted before any state is touched and are left out.

`failed` is history: the source ports for which a lookup named nobody or somebody
else than the sockets do (`Refused`), a program could not be read (`Decide`), or a
verdict got lost (`GiveVerdict`), and those that had a flow when the program started.
BlockIsEnforced and ProxyIsEnforced excuse these ports and exempt DNS, and nothing
else.

`Interceptor` knows three things: the packets not judged yet, the last one judged
with what became of it, and `failed`. It has no table, no cache and no conntrack.
In `NfQueue` the packets not judged yet are the one in hand and the queue
(`Waiting`).

Environment assumptions, each a constant so that runs can make and drop it:

- `Orderly`: a process and its sockets outlive the packets it sent, and a port
  passes to another process only when conntrack has forgotten its flows;
- `ConntrackLasts`: conntrack keeps a flow as long as the tracker keeps the port;
- `ReuseDelay`: ticks before a port passes to another process;
- `Reach`: the destinations a socket is used for;
- `Latency`: ticks one packet may take, and the cleanup timer is not late.

### Rules and RuleEngine

`add_rule` takes its id from an atomic counter and then the lock: `BeginAdd` and
`Push`. The other methods are one critical section each. A pattern is a name
with the set of values it matches (`Matched`); `"*"` is told apart, because
`match_rule` defers a rule that is `"*"` in all three places to the end but not
one whose patterns happen to match everything. So the list order alone is not
the precedence: `Expected` says what is, without a loop, and MatchIsExpected that the
loop computes it. The doc comment at `rule.rs` 106 says otherwise ("the action for the
first matching rule"); that is FirstMatchWins, which the run `RuleFirstMatch`
refutes. The loop (`Found`) and `retain` (`Retained`) are recursive functions,
which can be reasoned about.

The engine's methods allow concurrent callers, and the module has them. In this
program there are none: `main.rs` 88 is the only caller of `add_rule` and runs before
any thread, and nothing enables, disables or deletes a rule.

### ProxyClient

A conversation has the client's position (the next read), the question the proxy
has not answered, the pieces it has sent and nobody has read, and whether it has
granted the request. A piece is as much of an answer as the code can tell apart:
`read_exact` (`socks5.rs`) takes a whole answer however it arrives, while the one
`read` of `http_connect` (`http.rs` 42) takes 1 to all of the pieces that have
arrived. `AfterMethod`, `AfterAuth`, `AfterReply`, `AfterHeader` are one read each
with what is written after it; every error and the end of the stream is `Failed`,
which drops the connection. Two assumptions about the proxy are constants:

- `BoundIPv4`: SOCKS5 replies carry an IPv4 address (the code reads ten bytes);
- `HeaderAlone`: the read returns an HTTP header whole and without data after it.

The SOCKS5 framing of datagrams is abstracted to the destination they name,
credentials to whether they are set.

### TcpRelay and Tunnel

| Action | Code |
|---|---|
| `Accept`, `AcceptFails` | `tcp.rs` 22-40: accept, and its error path |
| `Route` | 42-62: tracker lookup by source port, spawn, or the client is dropped |
| `LoopEnds`, `RuntimeEnds` | 22-25, 62-66; `main.rs` 185-200 |
| `Dial` | 69-86: the socket of `TcpStream::connect` |
| `Connect`, `Handshake` | 85-110 with the reads of `ProxyClient` |
| `CopyUp`, `CopyDown`, `CopyEnds` | `copy_bidirectional`, lines 112-115: a direction that ends lets the other one go on, an error ends both |
| `OpenConn` | the interceptor's effect for a SYN (module `NfQueue`) |
| `Cleanup` | `main.rs` 173-183, at any time |
| `OthersOpen` | UDP associations and /proc, which use descriptors too |
| `ClientSends`, `ClientFinishes`, `ProxyAnswers`, `DestSends`, `ProxyCloses`, `Reset`, `Tick` | the ends, the proxy, the network, time |

A client may finish and its port be taken by another connection at any time, also
while the first one waits in the backlog or has been accepted and not looked up
yet. `after` remembers who did so.

Descriptors: a connection holds one from accept on and two from `Dial` on; the rest of
the program holds one of the numbers in `Others`; together they are at most `MaxFiles`.
Without a spare one accept fails and the connection stays in the backlog, and a
`Dial` fails and drops the connection. An error of the connection itself takes it out
of the backlog (`AcceptFails`). The client's own limits are not modelled.

`Tunnel` knows connections that wait, are joined to a destination or are closed,
and what each end has said and heard. A connection is joined to its own
destination or, if others have taken its port while it waited, perhaps to one of
theirs: the lookup at `tcp.rs` 45 knows the port alone, and TLC reaches such a
state. `Ends` maps `TcpRelay` to it: joined when the proxy has granted the request,
to the destination that the request named (`dest`, which the task got from the
tracker); broken when somebody has reset a connection.

### UdpRelay

`pc` is the loop's position: `connect`, `handshake` (the reads of `ProxyClient`
for UDP ASSOCIATE and the bind at its end, which may fail), `sleep` (after a failed
attempt), `recv`, `reply`. A receive may fail or time out whatever waits
(`RecvNothing`, `ReplyNothing`). A send either succeeds, whether or not the proxy still
knows the association, or fails and clears the relay address. A reply the parser
refuses (a fragment, a name, an IPv6 address) is dropped. `ClientSend` is the
interceptor's effect. `Cleanup` may run at any time, which includes every schedule of
the real task. Clients may share destinations: `find_by_dest` (`udp.rs` 80) then takes
any of their ports.

### Lifecycle

One table for the host and several starts of the program, one after the other or
at once. `Start`, `SetupClean`, `SetupInstall`, `SpawnNfqueue`, `StartRelays`,
`Stop`, `Remove`, `Return` are `main` line by line; `Bind` and `ServiceEnds` are the
beginning and the end of the three services, each of which holds something only
one process can have (the queue number or a port); `Interrupt` is SIGINT once the
handler is there, `Die` every other death, `CleanupRun` the `--cleanup` option. A
netlink batch may be refused, or done and not acknowledged (`Batch`), and
`send_and_process` may miss a refusal. What has gone wrong since the table was
last removed is kept in `mishaps` for the properties: a death or an error after the
set-up, a refused deletion, a table taken from a running instance, an error of the
installing batch that stayed unread, two set-ups at once, a queue that could not be
bound. A start while another instance still returns is among the cases: the old
one's removal takes the new one's table, and its thread holds the queue.

The comment at `netfilter.rs` 166 calls the deletion "guaranteed to clean up
everything"; the code ignores its result, and the models let the kernel refuse it
(`"deletion"`).

## 3. The runs

All passing runs explore their instance completely.

| Run | Checks | Shows |
|---|---|---|
| `NfTracker` | TypeOK, RelayWindow, AgeBound, AttributionFresh, NeverRetargeted | check-then-add, cleanup and failing verdicts never take a young redirected flow's entry away or change it; a PID is never staler than the cache lifetime plus one packet's processing, with failing lookups and a port that two processes use in turn |
| `NfPolicy` | PidIsOwner, BlockIsEnforced, ProxyIsEnforced, FailsOpen, ImplementsInterceptor, ThreadServesQueue | TCP on a host at work, with lookups and verdicts that fail: the rules are enforced if sockets outlive their packets, conntrack outlives the tracker and ports are not reused within a cache lifetime; a failure excuses only its own source port, and never drops or redirects what it should not; every packet is judged once, in order; the thread always returns to recv |
| `NfPolicyUdp` | BlockIsEnforced, ProxyIsEnforced, FailsOpen | the policy for UDP through the /proc/net/udp fallback, for sockets with one proxied destination; DNS beside it leaves, and is neither dropped nor redirected |
| `RuleEngine` | TypeOK, UniqueIds, AddOrder, MatchIsExpected, FastPathSound | concurrent callers keep ids unique and the order of calls; the matching loop agrees with its declarative meaning on every reachable list |
| `UdpReplies` | TypeOK, ReplyToAsker, NoSendAfterError, BothDirectionsServed | across expiry, re-association and duplicates a reply goes to its asker, to nobody if the asker's entry has expired, or to another client of the same server; a failed association is not used; nothing but a proxy that refuses or falls silent in the handshake stops either direction |
| `TcpTunnel` | TypeOK, ReadyAfterSuccess, ImplementsTunnel, NoOneWaitsForOthers | two connections to different destinations that may share a port, through SOCKS5 with password and HTTP: the relay implements `Tunnel`; the client receives all of the destination's data and nothing of the handshake; a proxy that does not answer one connection stops no other while there are descriptors |
| `Lifecycle` | TypeOK, NoOrphanTable, OneRuleSet, RunsWithTable, QueueServed, StopsAfterSigint | two starts in every interleaving, with deaths, refusals, unread errors and `--cleanup`: a table without an owner, a second set of rules, a program without its table and an unserved queue come from named mishaps only; an interrupted program ends without any traffic |

Disagreements between the code and what the repository says of it, each a run
that TLC refutes:

| Run | Property | Behaviour |
|---|---|---|
| `NfStaleEntry` | BlockIsEnforced | the entry of a closed socket lets a blocked program's SYN through from the same port |
| `NfSecondDest` | ProxyIsEnforced | a UDP socket's second destination bypasses the proxy |
| `RuleFirstMatch` | FirstMatchWins | a rule that is `"*"` everywhere yields to a later, more specific one |
| `UdpDeadAssociation` | LostAssociationReplaced | an association the proxy dropped is never replaced while sends succeed |
| `HttpAnswer` | ReadyAfterSuccess | an HTTP header that arrives in pieces leaves its rest to the client as data |

The policy properties are checked as passing where their assumptions hold, and
each assumption is needed. `NfStaleEntry` drops `ConntrackLasts` and
`NfSecondDest` lets a socket have two destinations. More variations of the
configurations are refuted in the same way:

- `ReuseDelay` 0 in `NfPolicy` (PidIsOwner: a cached PID is used for the next
  owner of an address and port);
- `ConntrackLasts` FALSE in `NfPolicyUdp` (ProxyIsEnforced: a UDP flow that
  conntrack forgets before the tracker does goes out directly afterwards);
- `BoundIPv4` FALSE in `TcpTunnel` (ReadyAfterSuccess: the rest of a longer reply
  is taken for data).

Two losses are part of what the passing properties say, because the code has them
and no document denies them: ReplyToAsker lets a reply go to another client of the
same server (`udp.rs` 80), and `Tunnel` lets a connection be joined to the destination of
a later one on its port (`tcp.rs` 45). A third is named in BlockIsEnforced: the DNS of a
blocked program leaves with `--dns-via-proxy false` (`nfqueue.rs` 135), which "Block
specific applications from accessing the network" (`README.md` 81) does not mention.

Two assumptions leave out what the code does wrong under them: `HeaderAlone`, which
`HttpAnswer` drops, and `BoundIPv4`: a SOCKS5 proxy that answers with a name or an
IPv6 address breaks the same promise, "After success, the stream is ready for
bidirectional data transfer" (`socks5.rs` 7), as the variation above shows.

### Bounds

- Clock (`MaxTime` 2 to 4, timeouts 1 or 2, cleanup interval 1). An entry
  lives for less than timeout plus interval, so with `NfTracker`'s 2, 1 and 3
  it is added, expires and is added again in every relative position to the
  timer, while a cached PID expires and the port changes hands twice. Only the
  order of events within a tick is lost, and it is arbitrary in the model.
- `MaxQueue` 1: with the packet in hand two packets are in flight, enough for
  one to be overtaken by a change the other one makes. The thread is sequential.
- Two source ports of which one is a relay's, one application socket (and the TCP
  relay's), one or two destinations, the bridge and one or two applications: conflicts
  are between two destinations of a socket or two owners of a port. Every state of
  the host before the start that these allow is an initial state. Two sockets of
  one port (TCP and UDP, or two addresses) are in the theorems only. In `NfPolicy` and
  `NfTracker` the port passes between the bridge and one application.
- `RuleEngine`: `Modulus` 5 stands for 2^32 and the counter stops before it
  wraps; `MaxRules` 3 lists of a plain wildcard, an all-matching non-wildcard and
  specific rules; two callers. The run ends when ids run out, so deadlock is
  not checked there.
- `UdpReplies`: two clients of one destination, one of which uses another one too, one
  datagram and one reply waiting, and the clock to twice the timeout, so that an
  entry expires and is added again while replies to it are under way.
- `TcpTunnel`: two connections, the second on its own port or on the first one's.
  The first client sends one unit and gets two, enough for data that arrives with
  the handshake, for two pieces whose order matters and for a half-closed side;
  the other connection is there to get in the way. One tick lets an entry expire
  between redirect and lookup. Four descriptors are enough for both connections, and
  the two that others may hold leave accept, or the connect after it, without one. The run ends
  when every connection is closed, so deadlock is not checked there nor in
  `HttpAnswer`.
- `Lifecycle`: two starts, one with SOCKS5 and one with HTTP. Each property speaks
  of a table and an instance that disturbs another; the theorems cover any number.

No symmetry is used: ports are numbers, and the processes and programs of an
instance play different parts.

### Fairness

- `NfQueue`: `WF_vars(Thread)`. The thread is a loop that blocks only in recv,
  and in a lookup that ends because the netlink socket has a receive timeout of
  100 ms (`process.rs` 56-69). The environment and the cleanup task have none:
  nothing the thread promises depends on them.
- `UdpRelay`: `WF_vars(Turn)` and `WF_vars(Connect \/ ConnectFails)`: the runtime polls
  the task, both receives have timers, and a connection attempt ends by the kernel's
  own timeout. Nothing is assumed of the proxy, so BothDirectionsServed names what it
  may do: refuse again and again, or fall silent in a handshake, whose reads
  (`udp.rs` 108-113) have no timeout. `WillingSpec`, with strong fairness for a proxy that goes
  on answering, is used by `UdpDeadAssociation` only: even then the association is
  not replaced.
- `TcpRelay`: `WF_vars(Accept)`, and `WF_vars(Route(c))` and `WF_vars(Task(c))` for every
  connection: the runtime polls the loop and each task, and a connect ends by the
  kernel's own timeout. Nothing is assumed of proxies, clients and the other users of
  descriptors; NoOneWaitsForOthers asks that a connection's own proxy answers and
  that from some time on a descriptor is to spare while it waits for accept.
- `Lifecycle`: `WF_vars(Main(i))`: main is scheduled (it polls the flag every
  second). Nothing is assumed of the services, which wait for traffic.

## 4. The proofs

Each theorem holds for all values of the constants that satisfy the named
assumptions (`...Assumption`) of the modules, and, where the statement begins with
a condition, that condition.

| Module | Theorem | States | Strengthening |
|---|---|---|---|
| `NfQueueProofs` | `TypeCorrect` | TypeOK | `TypeInv`: every open socket belongs to a live process, without which a packet's program would not be typed |
| | `RelayWindowHolds` | RelayWindow | `TrackerInv` |
| | `NeverRetargetedHolds` | NeverRetargeted | `TrackerInv` |
| | `AgeBoundHolds` | AgeBound | `AgeInv` |
| | `AttributionFreshHolds` | AttributionFresh | `AttributionInv` and `InHandInv` |
| `NfPolicyProofs` | `PidIsOwnerHolds`, `FailsOpenHolds` | PidIsOwner, FailsOpen, if `SteadyHost` | `SafeInv` |
| | `BlockIsEnforcedHolds`, `ProxyIsEnforcedHolds` | BlockIsEnforced, ProxyIsEnforced, if `OrderlyHost` | `SafeInv` and `ExactInv` |
| | `InterceptorImplemented` | ImplementsInterceptor, if `OrderlyHost` | `SafeInv` and `ExactInv` |
| `RuleEngineProofs` | `TypeCorrect`, `UniqueIdsHolds`, `AddOrderHolds` | TypeOK, UniqueIds, AddOrder | `ListInv` |
| | `MatchIsExpectedHolds`, `FastPathSoundHolds` | MatchIsExpected, FastPathSound | TypeOK, with an induction over the list |
| `TcpRelayProofs` | `TypeCorrect` | TypeOK | `WaitingInv`: a connection in the backlog has a port |
| | `ReadyAfterSuccessHolds` | ReadyAfterSuccess, if `ReadWhole` | `TunnelInv` without `RouteInv` |
| | `TunnelImplemented` | ImplementsTunnel, if `ReadWhole` | `TunnelInv` |
| `UdpRelayProofs` | `TypeCorrect`, `NoSendAfterErrorHolds` | TypeOK, NoSendAfterError | `TalkInv`, `FailedInv` |
| | `ReplyToAskerHolds` | ReplyToAsker | `RouteInv` |
| | `UnsharedReplies` | a reply from a destination only one client uses goes to it or, after expiry, to nobody | `RouteInv` |
| `LifecycleProofs` | `TypeCorrect`, `NoOrphanTableHolds`, `OneRuleSetHolds`, `RunsWithTableHolds`, `QueueServedHolds` | the run's invariants | `TableInv` |

**NfQueue.** RelayWindow is not inductive: it speaks of flows the nat chain
redirects, while the danger lies in the packet in hand. `TrackerInv` adds that from
the check to the add the port in hand has no entry (only the thread adds), that
from the add to the verdict the entry is the packet's own unless it is as old as
the timeout, that a flow's `since` is no later than the clock, and that redirected
flows of the window have their entry. NeverRetargeted follows from the first of
these. AgeBound is not inductive since nothing in it ties entries to the timer:
`AgeInv` says that an entry is no older at the next cleanup than timeout plus
interval allows, and how far off the next cleanup is. AttributionFresh needs that
every cached PID held a socket on its key's protocol and port when it was
cached, that a PID in hand between lookup and put did so during this packet, and
that a packet's time in the thread is bounded by `Latency`.

**The policy.** No assumption excludes failures; two sets of assumptions gather what
the refuted runs show to be needed. `SteadyHost`: sockets and processes outlive their
packets, a port changes hands no sooner than the PID cache forgets, and, if lookups
may fail, UDP sockets on one port overlap and so have one owner (the fallback goes by
the port alone). `OrderlyHost`: besides conntrack outlives the tracker's entry, some
rule is active, TCP sockets are connected (an exact lookup finds them), and the flows
of a source port that the rules may decide about are one. The constants of `NfPolicy`
and `NfPolicyUdp` satisfy both.

The proof has two halves, one for each direction of "what happens is what is
intended". The first needs `SteadyHost` only and holds whatever fails: `SafeInv`.
Its `HostInv` says that overlapping sockets have one owner (`SocketInv`), the sender
of a packet under way still has its socket, program and flow (`RootedInv`), and the
PID of a young cache entry is the only owner there is (`OwnerInv`); `PathSafe` and
`DecisionSafe` say that conntrack redirects and the thread blocks or marks nothing
but what the rules ask for. The lemma `FateSafe` concludes what the verdict and the
nat chain together (`Path`) may do, hence FailsOpen.

The second half, `ExactInv`, speaks of the ports that are not in `failed`: conntrack
lets out only flows that are to go out and a tracked port's flow is redirected or
about to be (`PathExact`), which is why the fast path for tracked ports does no harm
here, and the thread misses nothing (`DecisionExact`). It rests on the first half
and on `TrackerInv`. The lemma `FateExact` concludes that `Path` is what `Handling`
asks, which is `Intended` but for exempt DNS, hence BlockIsEnforced and ProxyIsEnforced.

For the refinement of `Interceptor` each action maps to one of its actions or to a
stutter: Send to Submit, Recv to Attend, Lookup and Decide to Fail, with or without
a failure, GiveVerdict to Judge, where `FateSafe` and `FateExact` are needed; every
other step, the clean-up, conntrack and the applications among them, is a stutter.

**RuleEngine.** What the loop computes is a statement about lists of every length.
The library's induction theorems take an operator as a parameter, which the
installed provers cannot instantiate, so `Induction` is stated about sets of
naturals and follows from the well-foundedness of `<` (`WFMin`), and `Recursion`
gives a function from its first value and its step. With these `Found` and
`Retained` are what their definitions say, `Explains` is kept by every turn of the
loop (which rule `hit` and `wildcard` come from, and that no earlier one would do),
and `Selects` relates the list after `delete_rule` to the one before by a strictly
increasing map of positions. UniqueIds and AddOrder need `IdsGivenOut`: every id
known to anybody is below the counter, and a rule not yet pushed was in the list
of no other one's `add_rule`.

**TcpRelay.** `TunnelInv` has four parts beside the types. `WaitingInv`: the backlog
holds the waiting connections, each once, and the loop at most one. `TrafficInv`: before the proxy's grant
only its answer to the last question may be in the stream; afterwards what the
client has got, what is left of the grant and what is in the stream are the
destination's data without a gap (here `ReadWhole` is used). `RouteInv`: the
tracker leads a waiting connection to its own destination, to that of one who
took its port, or nowhere, and one whose task was spawned has such a destination. For the refinement each action maps to
one of `Tunnel` or to a stutter: OpenConn to Open, ClientSends to Say, a granting
ProxyAnswers to Join, DestSends to Tell, CopyUp to Hear, CopyDown to Deliver,
Reset to Break; AcceptFails, a failed Route, Dial, Connect or Handshake, CopyEnds and
LoopEnds to Close; RuntimeEnds to Stop.

**UdpRelay.** Everything under way, and every tracker entry, belongs to a client
that uses its destination (`RouteInv`); so the entry found for a reply's source is
the asker's or that of a client that shares the destination, and where nobody does
(`UnsharedReplies`) only the asker's.

**Lifecycle.** `TableInv` says of a table that somebody past its installation will
remove it (`Owned`), that some instance serves the queue, is about to or is
stopping (`Answered`), that it holds one rule set (`OneRuleSet`), that no
instance about to install finds one (`InstallsAlone`), and of every running instance that
there is one (`RunsWithTable`), each unless a mishap of
the kinds it names has happened.

Only model-checked: liveness (ThreadServesQueue, BothDirectionsServed,
NoOneWaitsForOthers, StopsAfterSigint), which is out of the prover's reach.

## 5. Not modelled

- Pattern strings (`rule.rs` 167-309): a pattern is the set of values it matches, an
  arbitrary constant, so what is shown of the rules holds for whatever a string
  denotes. What a malformed string matches (255 or 0 in place of a number) is
  written down nowhere, and the string functions have unit tests.
- Exempt addresses (`is_broadcast_or_multicast`): an arbitrary set of destinations.
- Packet, netlink and /proc parsing, the bytes of SOCKS5 datagrams and credentials:
  abstracted to their meaning. A reply that reaches 127.0.0.1 is taken to reach its
  client; the kernel's reverse translation is not modelled.
- CLI, URL and rule string parsing, logging: pure functions that run before anything
  is shared. Test scaffolding and build files are no part of the program.
- `clear` of both tables is called by no code.

## 6. Left to do

1. Pattern strings over a small alphabet against a reference meaning, once there is
   a statement of what malformed ones should match.
2. A composition of `NfQueue` with `TcpRelay` and `UdpRelay` in one state space.
   `Interceptor` and `Tunnel` say what each promises at its end; their parts are
   connected by argument now: RelayWindow is what `OpenConn` and `ClientSend` assume
   of the tracker. These two steps would have to be split into the add and the
   arrival at the relay.
