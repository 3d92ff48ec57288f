------------------------------- MODULE NfQueue -------------------------------
(***************************************************************************)
(* The packet interceptor: the NFQUEUE thread of linux/src/nfqueue.rs, the *)
(* PID lookup of linux/src/process.rs it calls, the two tables it shares   *)
(* with the relays and with the cleanup task of linux/src/main.rs, and     *)
(* what it meets: applications that open, close and hand on sockets, and   *)
(* the kernel, which queues packets, applies verdicts and redirects flows. *)
(*                                                                         *)
(* The thread handles one packet at a time.  Each of its steps ends where  *)
(* it takes a lock or reads something another actor writes, so the cleanup *)
(* task, the applications and the clock interleave with it there.          *)
(***************************************************************************)
EXTENDS ConnectionTracker, Sequences

CONSTANTS
    BridgePid,           \* the PID of the bridge itself (current_pid)
    BridgeProg,          \* the program it runs
    NoPid,               \* PID 0: no owner found
    Prog,                \* programs a process may run
    NoProg,              \* the exe of a process that does not exist
    AnyAddr,             \* 0.0.0.0, the address of an unbound UDP socket
    Binding,             \* the sockets that may exist: [proto, addr, port]
    Reach,               \* the destinations each of them is used for
    Policy,              \* RuleEngine::match_rule, by program, protocol, destination
    RulesActive,         \* RuleEngine::has_active_rules
    DnsDest,             \* destinations with port 53
    DhcpDest,            \* destinations with port 67 or 68
    LocalDest,           \* destinations is_broadcast_or_multicast accepts
    DnsViaProxy,         \* --dns-via-proxy
    ProxyKind,           \* "socks5", "http", or "none": no usable proxy
    RelayPort,           \* the relays' own ports, by protocol
    CLEANUP_INTERVAL,    \* ticks between two runs of the cleanup task
    LookupMayFail,       \* the kernel or /proc may refuse an answer
    VerdictMayFail,      \* queue.verdict(msg) may fail; the code ignores it
    Latency,             \* ticks that may pass while one packet is processed
    Orderly,             \* see InFlight and PortAged
    ConntrackLasts,      \* see ForgetFlow
    ReuseDelay,          \* ticks before a port passes to another process
    MaxQueue,            \* bound: packets waiting in the NFQUEUE
    MaxTime              \* bound: the clock

ASSUME NfQueueAssumption ==
    /\ BridgePid \in Pid /\ NoPid \notin Pid /\ NoEntry # NoPid /\ NoEntry \notin Pid
    /\ BridgeProg \in Prog /\ NoProg \notin Prog
    /\ Binding \subseteq [proto : Proto, addr : Addr \cup {AnyAddr}, port : Port]
    /\ Reach \in [Binding -> SUBSET Dest]
    /\ RelayPort \in [Proto -> Port]
    /\ ProxyKind \in {"socks5", "http", "none"}
    /\ Policy \in [Prog -> [Proto -> [Dest -> {"Proxy", "Direct", "Block"}]]]
    /\ CLEANUP_INTERVAL \in Nat \ {0}
    /\ Latency \in Nat /\ ReuseDelay \in Nat
    /\ MaxQueue \in Nat /\ MaxTime \in Nat
    /\ {RulesActive, DnsViaProxy, LookupMayFail, VerdictMayFail, Orderly,
         ConntrackLasts} \subseteq BOOLEAN

(* A packet as the thread parses it, with its real sender: pid and prog    *)
(* are what the rule should be applied to and are not in the packet.       *)
Packet == [proto : Proto, syn : BOOLEAN, addr : Addr, port : Port, dest : Dest,
           pid : Pid, prog : Prog]

(* What conntrack identifies a connection by. *)
Flow == [proto : Proto, addr : Addr, port : Port, dest : Dest]

ASSUME NoPacketAssumption == NoEntry \notin Packet

IsRelay(b) == b.port = RelayPort[b.proto]

FlowOf(k) == [proto |-> k.proto, addr |-> k.addr, port |-> k.port, dest |-> k.dest]
KeyOf(k) == [proto |-> k.proto, addr |-> k.addr, port |-> k.port]

VARIABLES
    now,          \* the clock
    exe,          \* /proc/PID/exe: the program each process runs, or NoProg
    sock,         \* the kernel's socket table: the owner of each binding
    nat,          \* conntrack: where the packets of each known flow go
    queue,        \* packets waiting in the NFQUEUE
    conns,        \* the ConnectionTracker
    cache,        \* the PidCache
    pc, pkt,      \* NFQUEUE thread: next step and packet in hand
    pid,          \*   the PID the lookup returned
    verdict, mark,\*   the verdict and the packet mark to be set
    startedAt,    \*   when the packet in hand was received
    cleaner,      \* the cleanup task: next step
    nextCleanup,  \*   and when its sleep ends
    \* History, read by the properties and by the environment only:
    heldAt,       \* when each process last held a socket on a protocol and port
    addedAt,      \* when the packet in hand was added to the tracker
    since,        \* when each redirected flow was last added to the tracker
    judged,       \* the last packet that got a verdict, and where it went
    failed        \* the source ports a lookup or a verdict has failed for, or
                  \* that had a connection before the program was there to judge it

thread  == <<pc, pkt, pid, verdict, mark, startedAt, addedAt, failed>>
kernel  == <<exe, sock, heldAt>>
outcome == <<nat, since, judged>>
timer   == <<cleaner, nextCleanup>>
vars == <<now, kernel, queue, conns, cache, thread, timer, outcome>>

Never == -1

(* A process and a port it may hold a socket on. *)
Holder == [proto : Proto, port : Port, pid : Pid]

HolderOf(proto, p, q) == [proto |-> proto, port |-> p, pid |-> q]

Holds(h) ==
    \E b \in Binding : b.proto = h.proto /\ b.port = h.port /\ sock[b] = h.pid

(* A socket (b) and a flow, a packet or a key of the PID cache (k): the    *)
(* socket sends and receives for it.                                       *)
Serves(b, k) == b.proto = k.proto /\ b.port = k.port /\ b.addr \in {k.addr, AnyAddr}

(* bind fails while an overlapping socket holds the port. *)
Conflicts(b, c) ==
    /\ b.proto = c.proto /\ b.port = c.port
    /\ b.addr = c.addr \/ AnyAddr \in {b.addr, c.addr}

(* The program starts on a live host: applications run and have sockets    *)
(* open, and conntrack knows connections that no rule was asked about.     *)
HostAtWork ==
    /\ exe \in [Pid -> Prog \cup {NoProg}] /\ exe[BridgePid] = BridgeProg
    /\ sock \in [Binding -> Pid \cup {NoPid}]
    /\ \A b \in Binding :
           /\ IsRelay(b) => sock[b] = BridgePid
           /\ sock[b] # NoPid => exe[sock[b]] # NoProg
           /\ \A c \in Binding : Conflicts(b, c) => sock[b] = sock[c] \/ NoPid \in {sock[b], sock[c]}
    /\ nat \in [Flow -> {"none", "direct"}]
    /\ \A f \in Flow : nat[f] # "none" =>
           \E b \in Binding : Serves(b, f) /\ f.dest \in Reach[b] /\ sock[b] \notin {NoPid, BridgePid}
    /\ failed = {f.port : f \in {g \in Flow : nat[g] # "none"}}

Init ==
    /\ now = 0
    /\ HostAtWork
    /\ queue = <<>>
    /\ conns = Absent(Port) /\ cache = Absent(PidCacheKey)
    /\ pc = "recv" /\ pkt = NoEntry /\ pid = NoPid
    /\ verdict = "Accept" /\ mark = 0 /\ startedAt = 0 /\ addedAt = 0
    /\ cleaner = "sleep" /\ nextCleanup = CLEANUP_INTERVAL
    /\ heldAt = [h \in Holder |-> IF Holds(h) THEN 0 ELSE Never]
    /\ since = [f \in Flow |-> 0]
    /\ judged = NoEntry

-----------------------------------------------------------------------------
\* The environment: applications and the clock

InHand(p) == pc # "recv" /\ pkt.pid = p

InFlight(p) == InHand(p) \/ \E i \in 1..Len(queue) : queue[i].pid = p

Spawn(p, prog) ==
    /\ p # BridgePid /\ exe[p] = NoProg
    /\ exe' = [exe EXCEPT ![p] = prog]
    /\ UNCHANGED <<now, sock, heldAt, queue, conns, cache, thread, timer, outcome>>

(* A process ends and its sockets are closed.  In an orderly environment a *)
(* process and its sockets outlive the packets it sent.                    *)
Exit(p) ==
    /\ p # BridgePid /\ exe[p] # NoProg
    /\ Orderly => ~InFlight(p)
    /\ exe' = [exe EXCEPT ![p] = NoProg]
    /\ sock' = [b \in Binding |-> IF sock[b] = p THEN NoPid ELSE sock[b]]
    /\ UNCHANGED <<now, heldAt, queue, conns, cache, thread, timer, outcome>>

CloseSocket(b) ==
    /\ sock[b] # NoPid /\ ~IsRelay(b)
    /\ Orderly => ~InFlight(sock[b])
    /\ sock' = [sock EXCEPT ![b] = NoPid]
    /\ UNCHANGED <<now, exe, heldAt, queue, conns, cache, thread, timer, outcome>>

(* Port p of one protocol may pass to process q: no other process held it  *)
(* within ReuseDelay and, in an orderly environment, conntrack has         *)
(* forgotten the flows of the former socket.                               *)
PortAged(proto, p, q) ==
    /\ \A h \in Holder : h.proto = proto /\ h.port = p /\ h.pid # q =>
           heldAt[h] = Never \/ now - heldAt[h] >= ReuseDelay
    /\ Orderly => \A f \in Flow : f.proto = proto /\ f.port = p => nat[f] = "none"

OpenSocket(p, b) ==
    /\ exe[p] # NoProg
    /\ \A c \in Binding : Conflicts(b, c) => sock[c] = NoPid
    /\ PortAged(b.proto, b.port, p)
    /\ sock' = [sock EXCEPT ![b] = p]
    /\ heldAt' = [heldAt EXCEPT ![HolderOf(b.proto, b.port, p)] = now]
    /\ UNCHANGED <<now, exe, queue, conns, cache, thread, timer, outcome>>

(* An open socket emits a packet, and the mangle chain queues it.  A TCP   *)
(* socket sends nothing but SYNs until its flow is established.            *)
Send(b, addr, dest, syn) ==
    /\ sock[b] # NoPid
    /\ addr = b.addr \/ b.addr = AnyAddr
    /\ dest \in Reach[b]
    /\ IF b.proto = "udp" THEN ~syn
       ELSE syn \/ nat[[proto |-> "tcp", addr |-> addr, port |-> b.port, dest |-> dest]] # "none"
    /\ Len(queue) < MaxQueue
    /\ queue' = Append(queue, [proto |-> b.proto, syn |-> syn, addr |-> addr,
                               port |-> b.port, dest |-> dest,
                               pid |-> sock[b], prog |-> exe[sock[b]]])
    /\ UNCHANGED <<now, kernel, conns, cache, thread, timer, outcome>>

(* A conntrack entry expires: a packet of the flow that is still in flight *)
(* holds it.  ConntrackLasts says it outlives the tracker's entry.         *)
ForgetFlow(f) ==
    /\ nat[f] # "none"
    /\ ~(pc # "recv" /\ FlowOf(pkt) = f)
    /\ \A i \in 1..Len(queue) : FlowOf(queue[i]) # f
    /\ ConntrackLasts => ~IsTracked(conns, f.port)
    /\ nat' = [nat EXCEPT ![f] = "none"]
    /\ since' = [since EXCEPT ![f] = 0]
    /\ UNCHANGED <<now, kernel, queue, conns, cache, thread, timer, judged>>

(* Time passes.  The cleanup task's timer is not late, and no packet takes *)
(* the thread more than Latency ticks.                                     *)
Tick ==
    /\ now < MaxTime
    /\ cleaner = "sleep" /\ now < nextCleanup
    /\ pc # "recv" => now - startedAt < Latency
    /\ now' = now + 1
    /\ heldAt' = [h \in Holder |-> IF Holds(h) THEN now + 1 ELSE heldAt[h]]
    /\ UNCHANGED <<exe, sock, queue, conns, cache, thread, timer, outcome>>

-----------------------------------------------------------------------------
\* The NFQUEUE thread

MarkOf(proto) == IF proto = "tcp" THEN 1 ELSE 2

(* queue.recv(), and the packets that are accepted before any table is     *)
(* looked at: no active rule, or a relay's own source port.                *)
Recv ==
    /\ pc = "recv" /\ queue # <<>>
    /\ pkt' = Head(queue) /\ queue' = Tail(queue)
    /\ startedAt' = now
    /\ pc' = IF ~RulesActive \/ IsRelay(Head(queue)) THEN "verdict" ELSE "track"
    /\ judged' = NoEntry
    /\ UNCHANGED <<now, kernel, conns, cache, pid, verdict, mark, addedAt, failed,
                   timer, nat, since>>

(* Port 53 is left alone before any rule is asked, a Block rule included.  *)
DnsExempt(k) == k.dest \in DnsDest /\ ~DnsViaProxy

(* A tracked source port, a TCP segment that opens nothing, and DNS are    *)
(* accepted as they are.                                                   *)
MutBypassUntracked(k) ==    \* does not ask is_tracked
    \/ k.proto = "tcp" /\ ~k.syn
    \/ DnsExempt(k)

MutBypassSyn(k) ==          \* is_syn for !is_syn
    \/ IsTracked(conns, k.port)
    \/ k.proto = "tcp" /\ k.syn
    \/ DnsExempt(k)

Bypass(k) ==
    \/ IsTracked(conns, k.port)
    \/ k.proto = "tcp" /\ ~k.syn
    \/ DnsExempt(k)

CheckTracked ==
    /\ pc = "track"
    /\ pc' = IF Bypass(pkt) THEN "verdict" ELSE "cache"
    /\ UNCHANGED <<now, kernel, queue, conns, cache, pkt, pid, verdict, mark,
                   startedAt, addedAt, failed, timer, outcome>>

CacheGet ==
    /\ pc = "cache"
    /\ LET hit == CachedPid(cache, KeyOf(pkt), now) IN
           IF hit # NoEntry
           THEN pid' = hit /\ pc' = "name"
           ELSE pid' = NoPid /\ pc' = "lookup"
    /\ UNCHANGED <<now, kernel, queue, conns, cache, pkt, verdict, mark,
                   startedAt, addedAt, failed, timer, outcome>>

(* SOCK_DIAG wants the exact local address; /proc/net/udp only the port.   *)
(* Each then needs the owner of the inode found under /proc/PID/fd.        *)
ExactOwner(k) == {sock[b] : b \in {c \in Binding : c = KeyOf(k)}} \ {NoPid}

UdpPortOwner(k) ==
    {sock[b] : b \in {c \in Binding : c.proto = "udp" /\ k.proto = "udp" /\ c.port = k.port}}
        \ {NoPid}

MutOwnersExact(k) ==        \* no /proc/net/udp fallback
    IF ExactOwner(k) # {} THEN ExactOwner(k) ELSE {NoPid}

Owners(k) ==
    IF ExactOwner(k) # {} THEN ExactOwner(k)
    ELSE IF UdpPortOwner(k) # {} THEN UdpPortOwner(k)
    ELSE {NoPid}

(* What is found instead when the kernel or /proc refuses an answer. *)
Refused(k) == IF LookupMayFail THEN UdpPortOwner(k) \cup {NoPid} ELSE {}

MutLookupUnchecked ==       \* puts PID 0 into the cache
    /\ pc = "lookup"
    /\ pid' \in Owners(pkt) \cup Refused(pkt)
    /\ pc' = "put"
    /\ failed' = IF pid' \in Owners(pkt) THEN failed ELSE failed \cup {pkt.port}
    /\ UNCHANGED <<now, kernel, queue, conns, cache, pkt, verdict, mark,
                   startedAt, addedAt, timer, outcome>>

MutLookupWaits ==           \* no SO_RCVTIMEO: waits for a lost answer for ever
    /\ pc = "lookup"
    /\ \E p \in Owners(pkt) \cup Refused(pkt) :
           /\ pid' = p
           /\ pc' = IF p \notin Owners(pkt) THEN "waiting"
                    ELSE IF p = NoPid THEN "verdict" ELSE "put"
           /\ failed' = IF p \in Owners(pkt) THEN failed ELSE failed \cup {pkt.port}
    /\ UNCHANGED <<now, kernel, queue, conns, cache, pkt, verdict, mark,
                   startedAt, addedAt, timer, outcome>>

MutLookupSkips ==           \* no owner: goes on to the next packet without a verdict
    /\ pc = "lookup"
    /\ \E p \in Owners(pkt) \cup Refused(pkt) :
           /\ pid' = p
           /\ pc' = IF p = NoPid THEN "recv" ELSE "put"
           /\ pkt' = IF p = NoPid THEN NoEntry ELSE pkt
           /\ failed' = IF p \in Owners(pkt) THEN failed ELSE failed \cup {pkt.port}
    /\ UNCHANGED <<now, kernel, queue, conns, cache, verdict, mark,
                   startedAt, addedAt, timer, outcome>>

Lookup ==
    /\ pc = "lookup"
    /\ \E p \in Owners(pkt) \cup Refused(pkt) :
           /\ pid' = p
           /\ pc' = IF p = NoPid THEN "verdict" ELSE "put"
           /\ failed' = IF p \in Owners(pkt) THEN failed ELSE failed \cup {pkt.port}
    /\ UNCHANGED <<now, kernel, queue, conns, cache, pkt, verdict, mark,
                   startedAt, addedAt, timer, outcome>>

PutPid ==
    /\ pc = "put"
    /\ cache' = CachePut(cache, KeyOf(pkt), pid, now)
    /\ pc' = "name"
    /\ UNCHANGED <<now, kernel, queue, conns, pkt, pid, verdict, mark,
                   startedAt, addedAt, failed, timer, outcome>>

(* What is never proxied, whatever the rule says. *)
Exempt(k) ==
    \/ k.dest \in LocalDest
    \/ k.proto = "udp" /\ (k.dest \in DhcpDest \/ ProxyKind = "http")
    \/ ProxyKind = "none"

RuleFor(prog, k) ==
    LET matched == Policy[prog][k.proto][k.dest] IN
        IF matched = "Proxy" /\ Exempt(k) THEN "Direct" ELSE matched

MutDecideAnyPid ==          \* does not ask pid == current_pid
    /\ pc = "name"
    /\ LET action == IF exe[pid] = NoProg THEN "Direct" ELSE RuleFor(exe[pid], pkt)
       IN  /\ pc' = IF action = "Proxy" THEN "add" ELSE "verdict"
           /\ verdict' = IF action = "Block" THEN "Drop" ELSE "Accept"
    /\ UNCHANGED <<now, kernel, queue, conns, cache, pkt, pid, mark,
                   startedAt, addedAt, failed, timer, outcome>>

Decide ==
    /\ pc = "name"
    /\ \E prog \in {exe[pid]} \cup (IF LookupMayFail THEN {NoProg} ELSE {}) :
           LET action == IF pid = BridgePid \/ prog = NoProg THEN "Direct"
                         ELSE RuleFor(prog, pkt)
           IN  /\ pc' = IF action = "Proxy" THEN "add" ELSE "verdict"
               /\ verdict' = IF action = "Block" THEN "Drop" ELSE "Accept"
               /\ failed' = IF prog = exe[pid] THEN failed ELSE failed \cup {pkt.port}
    /\ UNCHANGED <<now, kernel, queue, conns, cache, pkt, pid, mark,
                   startedAt, addedAt, timer, outcome>>

MutAddConnUnmarked ==       \* forgets set_nfmark
    /\ pc = "add"
    /\ conns' = Add(conns, pkt.port, pkt.addr, pkt.dest, now)
    /\ mark' = 0 /\ addedAt' = now /\ pc' = "verdict"
    /\ UNCHANGED <<now, kernel, queue, cache, pkt, pid, verdict, startedAt, failed,
                   timer, outcome>>

AddConn ==
    /\ pc = "add"
    /\ conns' = Add(conns, pkt.port, pkt.addr, pkt.dest, now)
    /\ mark' = MarkOf(pkt.proto)
    /\ addedAt' = now
    /\ pc' = "verdict"
    /\ UNCHANGED <<now, kernel, queue, cache, pkt, pid, verdict, startedAt, failed,
                   timer, outcome>>

(* queue.verdict(msg), and what the kernel makes of it: the nat chain sees *)
(* the first packet of a flow only, later ones follow the conntrack entry. *)
Path ==
    IF verdict = "Drop" THEN "dropped"
    ELSE IF nat[FlowOf(pkt)] # "none" THEN nat[FlowOf(pkt)]
    ELSE IF mark = MarkOf(pkt.proto) THEN "relay" ELSE "direct"

GiveVerdict ==
    /\ pc = "verdict"
    /\ \E path \in {Path} \cup (IF VerdictMayFail THEN {"lost"} ELSE {}) :
           /\ nat' = IF path \in {"relay", "direct"}
                     THEN [nat EXCEPT ![FlowOf(pkt)] = path] ELSE nat
           /\ judged' = [pkt |-> pkt, path |-> path]
           /\ failed' = IF path = "lost" THEN failed \cup {pkt.port} ELSE failed
           /\ since' = IF path = "relay" /\ mark # 0
                       THEN [since EXCEPT ![FlowOf(pkt)] = addedAt] ELSE since
    /\ pc' = "recv" /\ pkt' = NoEntry /\ pid' = NoPid
    /\ verdict' = "Accept" /\ mark' = 0 /\ startedAt' = 0 /\ addedAt' = 0
    /\ UNCHANGED <<now, kernel, queue, conns, cache, timer>>

-----------------------------------------------------------------------------
\* The cleanup task

CleanupConns ==
    /\ cleaner = "sleep" /\ now >= nextCleanup
    /\ conns' = CleanupStale(conns, now)
    /\ cleaner' = "pids"
    /\ UNCHANGED <<now, kernel, queue, cache, thread, nextCleanup, outcome>>

CleanupPids ==
    /\ cleaner = "pids"
    /\ cache' = CacheCleanup(cache, now)
    /\ cleaner' = "sleep"
    /\ nextCleanup' = now + CLEANUP_INTERVAL
    /\ UNCHANGED <<now, kernel, queue, conns, thread, outcome>>

-----------------------------------------------------------------------------

Thread ==
    \/ Recv \/ CheckTracked \/ CacheGet \/ Lookup
    \/ PutPid \/ Decide \/ AddConn \/ GiveVerdict

Cleaner == CleanupConns \/ CleanupPids

Environment ==
    \/ \E p \in Pid : Exit(p) \/ \E prog \in Prog : Spawn(p, prog)
    \/ \E b \in Binding :
           \/ CloseSocket(b)
           \/ \E p \in Pid : OpenSocket(p, b)
           \/ \E addr \in Addr, dest \in Dest, syn \in BOOLEAN : Send(b, addr, dest, syn)
    \/ \E f \in Flow : ForgetFlow(f)
    \/ Tick

Next == Thread \/ Cleaner \/ Environment

Spec == Init /\ [][Next]_vars

(* The thread's loop and its netlink timeout let it always go on.          *)
FairSpec == Spec /\ WF_vars(Thread)

-----------------------------------------------------------------------------
\* Properties

TypeOK ==
    /\ now \in Nat /\ nextCleanup \in Nat /\ startedAt \in Nat /\ addedAt \in Nat
    /\ exe \in [Pid -> Prog \cup {NoProg}]
    /\ sock \in [Binding -> Pid \cup {NoPid}]
    /\ nat \in [Flow -> {"none", "relay", "direct"}]
    /\ queue \in Seq(Packet)
    /\ conns \in [Port -> ConnectionInfo \cup {NoEntry}]
    /\ cache \in [PidCacheKey -> PidCacheEntry \cup {NoEntry}]
    /\ pc \in {"recv", "track", "cache", "lookup", "put", "name", "add", "verdict"}
    /\ pkt \in Packet \cup {NoEntry} /\ (pc = "recv" <=> pkt = NoEntry)
    /\ pid \in Pid \cup {NoPid} /\ (pc \in {"put", "name", "add"} => pid # NoPid)
    /\ verdict \in {"Accept", "Drop"} /\ mark \in {0, 1, 2} /\ failed \subseteq Port
    /\ cleaner \in {"sleep", "pids"}
    /\ heldAt \in [Holder -> Nat \cup {Never}]
    /\ since \in [Flow -> Nat]
    /\ judged \in [pkt : Packet, path : {"dropped", "relay", "direct", "lost"}] \cup {NoEntry}

(* While a flow that the nat chain redirects is younger than the tracker's *)
(* timeout, the relay that looks its source port up in the tracker gets    *)
(* that flow's own original destination: no cleanup drops the entry and no *)
(* other flow replaces it.                                                 *)
RelayWindow ==
    \A f \in Flow :
        nat[f] = "relay" /\ now - since[f] < CONNECTION_TIMEOUT =>
            Get(conns, f.port) = f.dest

(* The thread checks is_tracked and adds under two locks; between them     *)
(* nothing adds, so an entry is removed before its port gets another one.  *)
NeverRetargeted ==
    [][\A p \in Port : IsTracked(conns, p) /\ IsTracked(conns', p) => conns'[p] = conns[p]]_vars

(* The cleanup task never lets an entry outlive its timeout by a full      *)
(* interval, wherever in the interval it was added.                        *)
AgeBound ==
    \A p \in Port : IsTracked(conns, p) =>
        now - conns[p].last_activity < CONNECTION_TIMEOUT + CLEANUP_INTERVAL

(* The PID a packet is judged by held a socket on the packet's protocol    *)
(* and port no longer than a cache lifetime and one packet's processing    *)
(* before the packet was received, however lookup, put, get and cleanup    *)
(* interleave with sockets that close and processes that end.              *)
AttributionFresh ==
    pc # "recv" /\ pid # NoPid =>
        LET last == heldAt[HolderOf(pkt.proto, pkt.port, pid)] IN
            last # Never /\ startedAt - last < PID_CACHE_TTL + Latency

(* "Find the PID that owns a network connection": the PID is the sender's. *)
PidIsOwner == pc # "recv" /\ pid # NoPid => pid = pkt.pid

(* What the user's rules ask for a packet, by its real sender. *)
Intended(k) == IF k.pid = BridgePid THEN "Direct" ELSE RuleFor(k.prog, k)

(* Until a lookup or a verdict fails for their source port, all packets of *)
(* a program with a Block rule are dropped and all those of a program with *)
(* a Proxy rule go to the relay; what fails for other ports is no excuse.  *)
(* Two kinds of packets leave in spite of a Block rule: DNS, unless        *)
(* --dns-via-proxy is set, and those of ports that had a connection when   *)
(* the program started, which is_tracked and is_syn keep from the rules.   *)
BlockIsEnforced ==
    judged # NoEntry /\ Intended(judged.pkt) = "Block" =>
        \/ judged.path = "dropped"
        \/ judged.pkt.port \in failed
        \/ DnsExempt(judged.pkt)
ProxyIsEnforced ==
    judged # NoEntry /\ Intended(judged.pkt) = "Proxy" =>
        \/ judged.path = "relay"
        \/ judged.pkt.port \in failed
        \/ DnsExempt(judged.pkt)

(* What the program means to do with a packet: DNS precedes the rules. *)
Handling(k) == IF DnsExempt(k) THEN "Direct" ELSE Intended(k)

(* Failures only let packets out or lose them: nothing is dropped that no  *)
(* rule blocks and nothing is redirected that no rule proxies, the         *)
(* bridge's own packets to the proxy among it, and no exempt DNS is either.*)
FailsOpen ==
    judged # NoEntry =>
        /\ judged.path = "dropped" => Handling(judged.pkt) = "Block"
        /\ judged.path = "relay" => Handling(judged.pkt) = "Proxy"

(* The packets the kernel has queued and the thread not yet given back. *)
Waiting == IF pc = "recv" THEN queue ELSE <<pkt>> \o queue

Abstract ==
    INSTANCE Interceptor
    WITH Asks <- [k \in Packet |-> Handling(k)], MayFail <- LookupMayFail \/ VerdictMayFail,
         waiting <- Waiting

(* The thread, its tables and the nat chain do what Interceptor promises.  *)
ImplementsInterceptor == Abstract!Spec

(* The thread always comes back for the next packet: no lookup, lock or    *)
(* refused answer leaves it with a packet it never gives a verdict on.     *)
ThreadServesQueue ==
    /\ []<>(pc = "recv")
    /\ queue # <<>> ~> pc # "recv"
=============================================================================
