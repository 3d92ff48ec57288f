--------------------------- MODULE NfPolicyProofs ---------------------------
(***************************************************************************)
(* What becomes of a packet is what the rules say of its sender, and       *)
(* NfQueue implements Interceptor: theorems for every value of the         *)
(* constants that describes an orderly host, whatever lookups and verdicts *)
(* fail on it.  Runs refute the properties where the host is not orderly.  *)
(***************************************************************************)
EXTENDS NfQueueProofs

(* The flows the rules may decide about. *)
RuledFlow == {f \in Flow : ~DnsExempt(f) /\ \E b \in Binding : Serves(b, f) /\ f.dest \in Reach[b]}

(* Processes and sockets outlive the packets they send, a port changes     *)
(* hands no sooner than the PID cache forgets, and where lookups fail, UDP *)
(* sockets on one port have one owner: /proc/net/udp is searched by port.  *)
SteadyHost ==
    /\ Orderly /\ PID_CACHE_TTL <= ReuseDelay
    /\ LookupMayFail =>
           \A b, c \in Binding :
               b.proto = "udp" /\ c.proto = "udp" /\ b.port = c.port => Conflicts(b, c)

(* Conntrack entries outlive the tracker's too, TCP sockets are connected, *)
(* and a source port is used for one ruled flow.                           *)
OrderlyHost ==
    /\ SteadyHost /\ ConntrackLasts /\ RulesActive
    /\ \A b \in Binding : b.proto = "tcp" => b.addr # AnyAddr
    /\ \A f, g \in RuledFlow : f.port = g.port => f = g

(* Overlapping sockets have one owner, the relays keep theirs. *)
SocketInv ==
    /\ \A b, c \in Binding :
           Conflicts(b, c) /\ sock[b] # NoPid /\ sock[c] # NoPid => sock[b] = sock[c]
    /\ \A b \in Binding : IsRelay(b) => sock[b] = BridgePid

(* The sender of a packet under way still has the socket, and conntrack    *)
(* the connection a segment belongs to.                                    *)
Rooted(k) ==
    /\ \E b \in Binding : Serves(b, k) /\ k.dest \in Reach[b] /\ sock[b] = k.pid
    /\ exe[k.pid] = k.prog
    /\ (k.proto = "tcp" /\ ~k.syn => nat[FlowOf(k)] # "none")

RootedInv ==
    /\ (pc # "recv" => Rooted(pkt))
    /\ \A i \in 1..Len(queue) : Rooted(queue[i])

(* While a cached PID is used, nobody else has the socket. *)
OwnerInv ==
    /\ \A k \in PidCacheKey : cache[k] # NoEntry =>
           /\ cache[k].timestamp <= heldAt[HolderOf(k.proto, k.port, cache[k].pid)]
           /\ now - cache[k].timestamp < PID_CACHE_TTL =>
                  \A b \in Binding : Serves(b, k) /\ sock[b] # NoPid => sock[b] = cache[k].pid
    /\ (pid # NoPid => pc # "recv" /\ pid = pkt.pid)

(* The rule for process p, to flow or packet k. *)
Asked(p, k) == IF p = BridgePid THEN "Direct" ELSE RuleFor(exe[p], k)

(* Conntrack redirects no flow that the rule for the socket's owner does   *)
(* not send to the proxy.                                                  *)
PathSafe ==
    /\ \A f \in Flow, b \in Binding :
           Serves(b, f) /\ sock[b] # NoPid /\ nat[f] = "relay" => Asked(sock[b], f) = "Proxy"
    /\ \A f \in Flow : DnsExempt(f) => nat[f] # "relay"

(* The thread blocks and marks nothing but what is to be blocked and       *)
(* proxied.                                                                *)
DecisionSafe ==
    /\ (pc # "verdict" => verdict = "Accept" /\ mark = 0)
    /\ (pc \in {"cache", "lookup", "put", "name", "add"} => ~DnsExempt(pkt))
    /\ (pc = "add" => Handling(pkt) = "Proxy")
    /\ (pc = "verdict" =>
           /\ verdict = "Drop" => Handling(pkt) = "Block"
           /\ mark # 0 => Handling(pkt) = "Proxy" /\ mark = MarkOf(pkt.proto))

(* Where nothing has failed, conntrack lets out only flows that are to go  *)
(* out, and a tracked port's flow is redirected or about to be.            *)
PathExact ==
    \A f \in RuledFlow : f.port \notin failed =>
        /\ \A b \in Binding : Serves(b, f) /\ sock[b] # NoPid /\ nat[f] = "direct" =>
               Asked(sock[b], f) = "Direct"
        /\ IsTracked(conns, f.port) => nat[f] = "relay" \/ (mark # 0 /\ FlowOf(pkt) = f)

(* Where nothing has failed, the thread misses nothing.                    *)
DecisionExact ==
    pc = "verdict" /\ pkt.port \notin failed =>
        /\ Handling(pkt) = "Block" => verdict = "Drop"
        /\ Handling(pkt) = "Proxy" => mark # 0 \/ nat[FlowOf(pkt)] = "relay"

HostInv == SocketInv /\ RootedInv /\ OwnerInv
SafeInv == HostInv /\ PathSafe /\ DecisionSafe
ExactInv == PathExact /\ DecisionExact

Enforced == BlockIsEnforced /\ ProxyIsEnforced

-----------------------------------------------------------------------------
\* Sockets

LEMMA ServedOnce ==
    ASSUME NEW b, NEW c, NEW k, Serves(b, k), Serves(c, k)
    PROVE  Conflicts(b, c)
  BY DEF Serves, Conflicts

LEMMA SocketInit == Init => SocketInv
  BY DEF Init, HostAtWork, SocketInv

LEMMA SocketStep == TypeInv /\ SocketInv /\ [Next]_vars => SocketInv'
<1> SUFFICES ASSUME TypeInv, SocketInv, [Next]_vars PROVE SocketInv'
  OBVIOUS
<1> USE NfQueueAssumption DEF TypeInv, TypeOK, SocketInv
<1>1. CASE UNCHANGED sock
  BY <1>1
<1>2. ASSUME NEW p \in Pid, Exit(p) PROVE SocketInv'
  BY <1>2 DEF Exit
<1>3. ASSUME NEW b \in Binding, CloseSocket(b) PROVE SocketInv'
  BY <1>3 DEF CloseSocket
<1>4. ASSUME NEW p \in Pid, NEW b \in Binding, OpenSocket(p, b) PROVE SocketInv'
  <2>1. /\ sock' = [sock EXCEPT ![b] = p]
        /\ \A c \in Binding : Conflicts(b, c) => sock[c] = NoPid
    BY <1>4 DEF OpenSocket
  <2>2. \A c \in Binding : Conflicts(c, b) => sock[c] = NoPid
    BY <2>1 DEF Conflicts
  <2>3. sock[b] = NoPid
    BY <2>1 DEF Conflicts
  <2> QED
    BY <2>1, <2>2, <2>3
<1>5. CASE Thread \/ Cleaner
  BY <1>1, <1>5
     DEF Thread, Recv, CheckTracked, CacheGet, Lookup, PutPid, Decide, AddConn, GiveVerdict,
         Cleaner, CleanupConns, CleanupPids, kernel
<1>6. ASSUME NEW p \in Pid, NEW prog \in Prog, Spawn(p, prog) PROVE SocketInv'
  BY <1>1, <1>6 DEF Spawn
<1>7. ASSUME NEW b \in Binding, NEW addr \in Addr, NEW dest \in Dest, NEW syn \in BOOLEAN,
             Send(b, addr, dest, syn)
      PROVE  SocketInv'
  BY <1>1, <1>7 DEF Send, kernel
<1>8. ASSUME NEW f \in Flow, ForgetFlow(f) PROVE SocketInv'
  BY <1>1, <1>8 DEF ForgetFlow, kernel
<1>9. CASE Tick
  BY <1>1, <1>9 DEF Tick
<1>10. CASE UNCHANGED vars
  BY <1>1, <1>10 DEF vars, kernel
<1> QED
  BY <1>2, <1>3, <1>4, <1>5, <1>6, <1>7, <1>8, <1>9, <1>10 DEF Next, Environment

-----------------------------------------------------------------------------
\* Packets under way

UnderWay(k) == (pc # "recv" /\ k = pkt) \/ \E i \in 1..Len(queue) : k = queue[i]

LEMMA WayTyped ==
    ASSUME TypeInv, NEW k, UnderWay(k)
    PROVE  k \in Packet /\ InFlight(k.pid)
  BY DEF TypeInv, TypeOK, UnderWay, InFlight, InHand

LEMMA WayRooted ==
    ASSUME RootedInv, NEW k, UnderWay(k)
    PROVE  Rooted(k)
  BY DEF RootedInv, UnderWay

LEMMA RootedInit == Init => RootedInv
  BY DEF Init, RootedInv

(* A packet stays rooted while its sender keeps its sockets and its        *)
(* program, and conntrack its flow.                                        *)
LEMMA RootedKept ==
    ASSUME NEW k, Rooted(k),
           \A b \in Binding : sock[b] = k.pid => sock'[b] = k.pid,
           exe'[k.pid] = exe[k.pid],
           nat[FlowOf(k)] # "none" => nat'[FlowOf(k)] # "none"
    PROVE  Rooted(k)'
  BY DEF Rooted

LEMMA WayKept ==
    ASSUME TypeInv, RootedInv, UNCHANGED <<queue, pkt>>, pc' # "recv" => pc # "recv",
           \A k \in Packet : UnderWay(k) =>
               /\ \A b \in Binding : sock[b] = k.pid => sock'[b] = k.pid
               /\ exe'[k.pid] = exe[k.pid]
               /\ nat[FlowOf(k)] # "none" => nat'[FlowOf(k)] # "none"
    PROVE  RootedInv'
<1>1. \A k : UnderWay(k) => Rooted(k)'
  BY WayTyped, WayRooted, RootedKept
<1> QED
  BY <1>1 DEF RootedInv, UnderWay

LEMMA RootedStep ==
    ASSUME SteadyHost, TypeInv, RootedInv, [Next]_vars
    PROVE  RootedInv'
<1> USE NfQueueAssumption DEF TypeInv, TypeOK
<1>1. CASE UNCHANGED <<exe, sock, nat, queue, pkt>> /\ (pc' # "recv" => pc # "recv")
  BY <1>1, WayKept
<1>2. CASE Recv
  <2>1. /\ UNCHANGED <<exe, sock, nat>> /\ queue # <<>>
        /\ pkt' = Head(queue) /\ queue' = Tail(queue)
    BY <1>2 DEF Recv, kernel
  <2>2. ASSUME NEW k, Rooted(k) PROVE Rooted(k)'
    BY <2>1, <2>2, RootedKept
  <2>3. pkt' = queue[1] /\ 1 \in 1..Len(queue)
    BY <2>1
  <2>4. \A i \in 1..Len(queue') : queue'[i] = queue[i + 1] /\ i + 1 \in 1..Len(queue)
    BY <2>1
  <2>5. \A i \in 1..Len(queue) : Rooted(queue[i])
    BY DEF RootedInv
  <2>6. Rooted(pkt)'
    <3>1. PICK k : k = queue[1]
      OBVIOUS
    <3>2. Rooted(k)'
      BY <2>2, <2>3, <2>5, <3>1
    <3> QED
      BY <2>3, <3>1, <3>2 DEF Rooted
  <2>7. ASSUME NEW i \in 1..Len(queue') PROVE Rooted(queue[i])'
    <3>1. PICK k : k = queue[i + 1]
      OBVIOUS
    <3>2. k = queue'[i] /\ Rooted(k)'
      BY <2>2, <2>4, <2>5, <3>1
    <3> QED
      BY <3>2 DEF Rooted
  <2> QED
    BY <2>6, <2>7 DEF RootedInv
<1>3. CASE GiveVerdict
  <2>1. pc' = "recv" /\ UNCHANGED <<exe, sock, queue>>
    BY <1>3 DEF GiveVerdict, kernel
  <2>2. \A f \in Flow : nat[f] # "none" => nat'[f] # "none"
    BY <1>3 DEF GiveVerdict
  <2>3. ASSUME NEW i \in 1..Len(queue) PROVE Rooted(queue[i])'
    <3>1. queue[i] \in Packet /\ Rooted(queue[i])
      BY DEF RootedInv
    <3> QED
      BY <2>1, <2>2, <3>1, RootedKept, PacketShape
  <2> QED
    BY <2>1, <2>3 DEF RootedInv
<1>4. CASE CheckTracked \/ CacheGet \/ Lookup \/ PutPid \/ Decide \/ AddConn
  BY <1>1, <1>4 DEF CheckTracked, CacheGet, Lookup, PutPid, Decide, AddConn, kernel, outcome
<1>5. CASE Cleaner
  BY <1>1, <1>5 DEF Cleaner, CleanupConns, CleanupPids, kernel, outcome, thread
<1>6. ASSUME NEW p \in Pid, Exit(p) PROVE RootedInv'
  <2>1. ~InFlight(p) /\ UNCHANGED <<nat, queue, pkt, pc>>
    BY <1>6 DEF Exit, SteadyHost, outcome, thread
  <2>2. \A k \in Packet : UnderWay(k) => k.pid # p
    BY <2>1, WayTyped
  <2>3. \A q \in Pid \ {p} : exe'[q] = exe[q] /\ \A b \in Binding : sock[b] = q => sock'[b] = q
    BY <1>6 DEF Exit
  <2>4. \A k \in Packet : k.pid \in Pid
    BY DEF Packet
  <2> QED
    BY <2>1, <2>2, <2>3, <2>4, WayKept
<1>7. ASSUME NEW p \in Pid, NEW prog \in Prog, Spawn(p, prog) PROVE RootedInv'
  <2>1. exe[p] = NoProg /\ exe' = [exe EXCEPT ![p] = prog] /\ UNCHANGED <<sock, nat, queue, pkt, pc>>
    BY <1>7 DEF Spawn, outcome, thread
  <2>2. \A k \in Packet : UnderWay(k) => k.pid # p
    BY <2>1, WayRooted DEF Rooted, Packet
  <2>3. \A k \in Packet : k.pid \in Pid
    BY DEF Packet
  <2> QED
    BY <2>1, <2>2, <2>3, WayKept
<1>8. ASSUME NEW b \in Binding, CloseSocket(b) PROVE RootedInv'
  <2>1. /\ ~InFlight(sock[b]) /\ sock' = [sock EXCEPT ![b] = NoPid]
        /\ UNCHANGED <<exe, nat, queue, pkt, pc>>
    BY <1>8 DEF CloseSocket, SteadyHost, outcome, thread
  <2>2. \A k \in Packet : UnderWay(k) => k.pid # sock[b]
    BY <2>1, WayTyped
  <2> QED
    BY <2>1, <2>2, WayKept
<1>9. ASSUME NEW b \in Binding, NEW p \in Pid, OpenSocket(p, b) PROVE RootedInv'
  <2>1. /\ sock[b] = NoPid /\ sock' = [sock EXCEPT ![b] = p]
        /\ UNCHANGED <<exe, nat, queue, pkt, pc>>
    BY <1>9 DEF OpenSocket, Conflicts, outcome, thread
  <2>2. \A k \in Packet : k.pid # NoPid
    BY DEF Packet
  <2> QED
    BY <2>1, <2>2, WayKept
<1>10. ASSUME NEW b \in Binding, NEW addr \in Addr, NEW dest \in Dest, NEW syn \in BOOLEAN,
              Send(b, addr, dest, syn)
       PROVE  RootedInv'
  <2> DEFINE k == [proto |-> b.proto, syn |-> syn, addr |-> addr, port |-> b.port, dest |-> dest,
                   pid |-> sock[b], prog |-> exe[sock[b]]]
  <2>1. k \in Packet
    BY <1>10 DEF Send, Packet, OwnersLive
  <2>2. Serves(b, k) /\ k.dest \in Reach[b] /\ sock[b] = k.pid /\ exe[k.pid] = k.prog
    BY <1>10 DEF Send, Serves
  <2>3. k.proto = "tcp" /\ ~k.syn => nat[FlowOf(k)] # "none"
    BY <1>10 DEF Send, FlowOf
  <2>4. /\ queue' = Append(queue, k) /\ UNCHANGED <<exe, sock, nat, pkt, pc>>
    BY <1>10 DEF Send, kernel, outcome, thread
  <2> HIDE DEF k
  <2>5. Rooted(k)
    BY <2>2, <2>3 DEF Rooted
  <2>6. \A i \in 1..Len(queue') : queue'[i] = k \/ (i \in 1..Len(queue) /\ queue'[i] = queue[i])
    BY <2>1, <2>4
  <2>7. \A i \in 1..Len(queue') : Rooted(queue'[i])
    BY <2>5, <2>6 DEF RootedInv
  <2> QED
    BY <2>4, <2>7 DEF RootedInv, Rooted
<1>11. ASSUME NEW f \in Flow, ForgetFlow(f) PROVE RootedInv'
  <2>1. /\ nat' = [nat EXCEPT ![f] = "none"] /\ UNCHANGED <<exe, sock, queue, pkt, pc>>
        /\ \A k : UnderWay(k) => FlowOf(k) # f
    BY <1>11 DEF ForgetFlow, kernel, thread, UnderWay
  <2> QED
    BY <2>1, WayKept, PacketShape
<1>12. CASE Tick
  BY <1>1, <1>12 DEF Tick, outcome, thread
<1>13. CASE UNCHANGED vars
  BY <1>1, <1>13 DEF vars, kernel, outcome, thread
<1> QED
  BY <1>2, <1>3, <1>4, <1>5, <1>6, <1>7, <1>8, <1>9, <1>10, <1>11, <1>12, <1>13
     DEF Next, Environment, Thread

-----------------------------------------------------------------------------
\* The owner of a packet

LEMMA SenderKnown ==
    ASSUME SocketInv, NEW k, Rooted(k), NEW b \in Binding, Serves(b, k), sock[b] # NoPid,
           k.pid # NoPid
    PROVE  sock[b] = k.pid
  BY ServedOnce DEF Rooted, SocketInv

LEMMA ExactSender ==
    ASSUME TypeInv, SocketInv, NEW k \in Packet, Rooted(k)
    PROVE  ExactOwner(k) \subseteq {k.pid}
<1>1. k.pid # NoPid
  BY NfQueueAssumption DEF Packet
<1>2. ASSUME NEW c \in Binding, c = KeyOf(k), sock[c] # NoPid PROVE sock[c] = k.pid
  <2>1. Serves(c, k)
    BY <1>2 DEF KeyOf, Serves
  <2> QED
    BY <1>1, <1>2, <2>1, SenderKnown
<1> QED
  BY <1>2 DEF ExactOwner

(* The exact address is tried first, the port alone only if it fails.      *)
LEMMA PortSender ==
    ASSUME SteadyHost, TypeInv, SocketInv, NEW k \in Packet, Rooted(k),
           LookupMayFail \/ ExactOwner(k) = {}
    PROVE  UdpPortOwner(k) \subseteq {k.pid}
<1>1. k.pid # NoPid
  BY NfQueueAssumption DEF Packet
<1>2. PICK b \in Binding : Serves(b, k) /\ sock[b] = k.pid
  BY DEF Rooted
<1>3. ASSUME NEW c \in Binding, c.proto = "udp", k.proto = "udp", c.port = k.port
      PROVE  Conflicts(b, c)
  <2>1. b.proto = "udp" /\ b.port = k.port /\ b.addr \in {k.addr, AnyAddr}
    BY <1>2, <1>3 DEF Serves
  <2>2. CASE LookupMayFail
    BY <1>3, <2>1, <2>2 DEF SteadyHost
  <2>3. CASE b.addr = AnyAddr
    BY <1>3, <2>1, <2>3 DEF Conflicts
  <2>4. CASE ExactOwner(k) = {} /\ b.addr = k.addr
    <3>1. b = KeyOf(k)
      BY <1>2, <2>4, NfQueueAssumption DEF KeyOf, Serves, Packet
    <3>2. k.pid \in ExactOwner(k)
      BY <1>1, <1>2, <3>1 DEF ExactOwner
    <3> QED
      BY <2>4, <3>2
  <2> QED
    BY <2>1, <2>2, <2>3, <2>4
<1> QED
  BY <1>1, <1>2, <1>3 DEF UdpPortOwner, SocketInv

(* Neither of the lookups finds anybody but the sender. *)
LEMMA SenderOnly ==
    ASSUME SteadyHost, TypeInv, SocketInv, NEW k \in Packet, Rooted(k)
    PROVE  Owners(k) \cup Refused(k) \subseteq {k.pid, NoPid}
  BY ExactSender, PortSender DEF Owners, Refused

LEMMA SenderFound ==
    ASSUME OrderlyHost, TypeInv, SocketInv, NEW k \in Packet, Rooted(k)
    PROVE  Owners(k) = {k.pid}
<1>1. k.pid # NoPid /\ SteadyHost
  BY NfQueueAssumption DEF Packet, OrderlyHost
<1>2. CASE ExactOwner(k) # {}
  BY <1>2, ExactSender DEF Owners
<1>3. CASE ExactOwner(k) = {}
  <2>1. PICK b \in Binding : Serves(b, k) /\ sock[b] = k.pid
    BY DEF Rooted
  <2>2. b.addr # k.addr
    <3> SUFFICES ASSUME b.addr = k.addr PROVE FALSE
      OBVIOUS
    <3>1. b = KeyOf(k)
      BY <2>1, NfQueueAssumption DEF KeyOf, Serves, Packet
    <3> QED
      BY <1>1, <1>3, <2>1, <3>1 DEF ExactOwner
  <2>3. b.proto = "udp" /\ k.proto = "udp" /\ b.port = k.port
    BY <2>1, <2>2, PacketShape DEF Serves, OrderlyHost, Proto
  <2>4. k.pid \in UdpPortOwner(k)
    BY <1>1, <2>1, <2>3 DEF UdpPortOwner
  <2>5. UdpPortOwner(k) = {k.pid}
    BY <1>1, <1>3, <2>4, PortSender
  <2> QED
    BY <1>3, <2>5 DEF Owners
<1> QED
  BY <1>2, <1>3

LEMMA OwnerInit == Init => OwnerInv
  BY DEF Init, OwnerInv, Absent

LEMMA CacheOwnerStep ==
    ASSUME SteadyHost, TypeInv, AttributionInv, SocketInv, RootedInv, OwnerInv, [Next]_vars,
           NEW k \in PidCacheKey, cache'[k] # NoEntry
    PROVE  /\ cache'[k].timestamp <= heldAt'[HolderOf(k.proto, k.port, cache'[k].pid)]
           /\ now' - cache'[k].timestamp < PID_CACHE_TTL =>
                  \A b \in Binding : Serves(b, k) /\ sock'[b] # NoPid => sock'[b] = cache'[k].pid
<1> DEFINE q == cache[k].pid
           t == cache[k].timestamp
           h == HolderOf(k.proto, k.port, q)
           Fresh == now - t < PID_CACHE_TTL
           Sole == \A b \in Binding : Serves(b, k) /\ sock[b] # NoPid => sock[b] = q
<1> USE NfQueueAssumption, TimeoutsAssumption, NoEntryAssumption
<1>1. ASSUME cache[k] # NoEntry
      PROVE  /\ q \in Pid /\ t \in Nat /\ h \in Holder /\ t <= heldAt[h] /\ (Fresh => Sole)
             /\ heldAt[h] \in Nat /\ heldAt'[h] \in Nat /\ t <= heldAt'[h]
  <2>1. q \in Pid /\ t \in Nat
    BY <1>1 DEF TypeInv, TypeOK, PidCacheEntry
  <2>2. h \in Holder
    BY <2>1 DEF HolderOf, Holder, PidCacheKey
  <2>3. t <= heldAt[h] /\ (Fresh => Sole)
    BY <1>1 DEF OwnerInv
  <2>4. /\ heldAt[h] \in Nat \cup {Never} /\ heldAt'[h] \in Nat \cup {Never}
        /\ heldAt'[h] >= heldAt[h]
    BY <2>2, HeldAtGrows
  <2> HIDE DEF h, t, q
  <2> QED
    BY <2>1, <2>2, <2>3, <2>4 DEF Never
<1>2. ASSUME cache'[k] = cache[k], now' \in Nat, now <= now',
             \A b \in Binding : sock'[b] \in {NoPid, sock[b]}
      PROVE  /\ cache'[k].timestamp <= heldAt'[HolderOf(k.proto, k.port, cache'[k].pid)]
             /\ now' - cache'[k].timestamp < PID_CACHE_TTL =>
                  \A b \in Binding : Serves(b, k) /\ sock'[b] # NoPid => sock'[b] = cache'[k].pid
  <2>1. now' - t < PID_CACHE_TTL => Fresh
    BY <1>1, <1>2 DEF TypeInv, TypeOK
  <2> QED
    BY <1>1, <1>2, <2>1
<1>3. now \in Nat
  BY DEF TypeInv, TypeOK
<1>4. CASE UNCHANGED <<now, sock, cache>>
  BY <1>2, <1>3, <1>4
<1>5. CASE Thread /\ ~PutPid
  BY <1>4, <1>5 DEF Thread, Recv, CheckTracked, CacheGet, Lookup, Decide, AddConn, GiveVerdict, kernel
<1>6. CASE PutPid
  <2>1. /\ pkt \in Packet /\ pc # "recv" /\ pid \in Pid /\ pid = pkt.pid /\ pid # NoPid
        /\ UNCHANGED <<now, sock, heldAt>>
    BY <1>6 DEF PutPid, TypeInv, TypeOK, OwnerInv, kernel
  <2>2. Rooted(pkt)
    BY <2>1 DEF RootedInv
  <2>3. CASE k = KeyOf(pkt)
    <3>1. cache'[k].pid = pid /\ cache'[k].timestamp = now
      BY <1>6, <2>3 DEF PutPid, CachePut, TypeInv, TypeOK
    <3>2. k.proto = pkt.proto /\ k.port = pkt.port /\ k.addr = pkt.addr
      BY <2>3 DEF KeyOf
    <3>3. \A b \in Binding : Serves(b, k) /\ sock[b] # NoPid => sock[b] = pid
      BY <2>1, <2>2, <3>2, SenderKnown DEF Serves
    <3>4. Holds(HolderOf(pkt.proto, pkt.port, pid))
      BY <2>1, <2>2 DEF Rooted, Serves, Holds, HolderOf
    <3>5. heldAt[HolderOf(pkt.proto, pkt.port, pid)] = now
      BY <2>1, <3>4, PacketShape DEF AttributionInv
    <3> QED
      BY <1>3, <2>1, <3>1, <3>2, <3>3, <3>5
  <2>4. CASE k # KeyOf(pkt)
    BY <1>2, <1>3, <1>6, <2>1, <2>4 DEF PutPid, CachePut
  <2> QED
    BY <2>3, <2>4
<1>7. CASE Cleaner
  BY <1>2, <1>3, <1>7 DEF Cleaner, CleanupConns, CleanupPids, CacheCleanup, kernel
<1>8. CASE Tick
  BY <1>2, <1>3, <1>8 DEF Tick
<1>9. ASSUME NEW p \in Pid, Exit(p) \/ \E prog \in Prog : Spawn(p, prog)
      PROVE  /\ cache'[k].timestamp <= heldAt'[HolderOf(k.proto, k.port, cache'[k].pid)]
             /\ now' - cache'[k].timestamp < PID_CACHE_TTL =>
                  \A b \in Binding : Serves(b, k) /\ sock'[b] # NoPid => sock'[b] = cache'[k].pid
  BY <1>2, <1>3, <1>9 DEF Exit, Spawn
<1>10. ASSUME NEW b \in Binding,
              \/ CloseSocket(b)
              \/ \E addr \in Addr, dest \in Dest, syn \in BOOLEAN : Send(b, addr, dest, syn)
       PROVE  /\ cache'[k].timestamp <= heldAt'[HolderOf(k.proto, k.port, cache'[k].pid)]
              /\ now' - cache'[k].timestamp < PID_CACHE_TTL =>
                  \A c \in Binding : Serves(c, k) /\ sock'[c] # NoPid => sock'[c] = cache'[k].pid
  <2>1. CASE CloseSocket(b)
    <3>1. cache' = cache /\ now' = now /\ sock' = [sock EXCEPT ![b] = NoPid]
      BY <2>1 DEF CloseSocket
    <3>2. \A c \in Binding : sock'[c] \in {NoPid, sock[c]}
      BY <3>1 DEF TypeInv, TypeOK
    <3> QED
      BY <1>2, <1>3, <3>1, <3>2
  <2>2. CASE ~CloseSocket(b)
    BY <1>4, <1>10, <2>2 DEF Send, kernel
  <2> QED
    BY <2>1, <2>2
<1>11. ASSUME NEW p \in Pid, NEW c \in Binding, OpenSocket(p, c)
       PROVE  /\ cache'[k].timestamp <= heldAt'[HolderOf(k.proto, k.port, cache'[k].pid)]
              /\ now' - cache'[k].timestamp < PID_CACHE_TTL =>
                  \A b \in Binding : Serves(b, k) /\ sock'[b] # NoPid => sock'[b] = cache'[k].pid
  <2>1. cache' = cache /\ now' = now /\ sock' = [sock EXCEPT ![c] = p]
    BY <1>11 DEF OpenSocket
  <2>2. CASE Serves(c, k) /\ Fresh /\ p # q
    <3>1. heldAt[h] = Never \/ now - heldAt[h] >= ReuseDelay
      BY <1>1, <1>11, <2>1, <2>2 DEF OpenSocket, PortAged, HolderOf, Serves
    <3>2. now - t >= PID_CACHE_TTL
      BY <1>1, <1>3, <2>1, <3>1 DEF SteadyHost, Never
    <3> QED
      BY <2>2, <3>2, <1>1, <1>3, <2>1
  <2>3. CASE ~(Serves(c, k) /\ Fresh /\ p # q)
    <3>1. \A b \in Binding : sock'[b] = IF b = c THEN p ELSE sock[b]
      BY <2>1 DEF TypeInv, TypeOK
    <3> QED
      BY <1>1, <2>1, <2>3, <3>1
  <2> QED
    BY <2>2, <2>3
<1>12. CASE UNCHANGED vars
  BY <1>4, <1>12 DEF vars, kernel
<1>13. ASSUME NEW f \in Flow, ForgetFlow(f)
       PROVE  /\ cache'[k].timestamp <= heldAt'[HolderOf(k.proto, k.port, cache'[k].pid)]
              /\ now' - cache'[k].timestamp < PID_CACHE_TTL =>
                  \A b \in Binding : Serves(b, k) /\ sock'[b] # NoPid => sock'[b] = cache'[k].pid
  BY <1>4, <1>13 DEF ForgetFlow, kernel
<1> QED
  BY <1>5, <1>6, <1>7, <1>8, <1>9, <1>10, <1>11, <1>12, <1>13 DEF Next, Environment

LEMMA OwnerStep ==
    ASSUME SteadyHost, TypeInv, AttributionInv, SocketInv, RootedInv, OwnerInv, [Next]_vars
    PROVE  OwnerInv'
<1> USE NfQueueAssumption
<1>1. ASSUME NEW k \in PidCacheKey, cache'[k] # NoEntry
      PROVE  /\ cache'[k].timestamp <= heldAt'[HolderOf(k.proto, k.port, cache'[k].pid)]
             /\ now' - cache'[k].timestamp < PID_CACHE_TTL =>
                    \A b \in Binding : Serves(b, k) /\ sock'[b] # NoPid => sock'[b] = cache'[k].pid
  BY <1>1, CacheOwnerStep
<1>2. pid' # NoPid => pc' # "recv" /\ pid' = pkt'.pid
  <2> USE DEF TypeInv, TypeOK, OwnerInv
  <2>1. CASE UNCHANGED <<pkt, pid>> /\ (pid # NoPid => pc' # "recv")
    BY <2>1
  <2>2. CASE CacheGet
    <3> DEFINE hit == CachedPid(cache, KeyOf(pkt), now)
    <3>1. CASE hit = NoEntry
      BY <2>2, <3>1 DEF CacheGet
    <3>2. CASE hit # NoEntry
      <4>1. /\ pc = "cache" /\ pid' = hit /\ pc' = "name" /\ pkt' = pkt /\ pkt \in Packet
        BY <2>2, <3>2 DEF CacheGet
      <4>2. /\ KeyOf(pkt) \in PidCacheKey /\ cache[KeyOf(pkt)] # NoEntry
            /\ hit = cache[KeyOf(pkt)].pid /\ now - cache[KeyOf(pkt)].timestamp < PID_CACHE_TTL
        BY <3>2, <4>1, PacketShape DEF CachedPid
      <4>3. \A b \in Binding : Serves(b, KeyOf(pkt)) /\ sock[b] # NoPid => sock[b] = hit
        BY <4>2
      <4>4. PICK b \in Binding : Serves(b, pkt) /\ sock[b] = pkt.pid
        BY <4>1 DEF RootedInv, Rooted
      <4>5. Serves(b, KeyOf(pkt)) /\ sock[b] # NoPid
        BY <4>1, <4>4 DEF Serves, KeyOf, Packet
      <4> QED
        BY <4>1, <4>3, <4>4, <4>5
    <3> QED
      BY <3>1, <3>2
  <2>3. CASE Lookup
    <3>1. pc = "lookup" /\ pkt \in Packet /\ pkt' = pkt
      BY <2>3 DEF Lookup
    <3>2. Owners(pkt) \cup Refused(pkt) \subseteq {pkt.pid, NoPid}
      BY <3>1, SenderOnly DEF RootedInv
    <3> QED
      BY <2>3, <3>1, <3>2 DEF Lookup
  <2>4. CASE Recv
    BY <2>4 DEF Recv
  <2>5. CASE GiveVerdict
    BY <2>5 DEF GiveVerdict
  <2>6. CASE CheckTracked \/ PutPid \/ Decide \/ AddConn
    BY <2>1, <2>6 DEF CheckTracked, PutPid, Decide, AddConn
  <2>7. CASE Cleaner \/ Tick
    BY <2>1, <2>7 DEF Cleaner, CleanupConns, CleanupPids, Tick, thread
  <2>9. CASE Environment /\ ~Tick
    <3> HIDE DEF TypeInv, TypeOK, OwnerInv
    <3>1. UNCHANGED <<pc, pkt, pid>>
      BY <2>9, OthersWait
    <3> QED
      BY <2>1, <3>1 DEF OwnerInv
  <2>8. CASE UNCHANGED vars
    BY <2>1, <2>8 DEF vars, thread
  <2> QED
    BY <2>2, <2>3, <2>4, <2>5, <2>6, <2>7, <2>8, <2>9 DEF Next, Thread
<1> QED
  BY <1>1, <1>2 DEF OwnerInv

LEMMA HostInit == Init => HostInv
  BY SocketInit, RootedInit, OwnerInit DEF HostInv

LEMMA HostStep ==
    ASSUME SteadyHost, TypeInv, AttributionInv, HostInv, [Next]_vars
    PROVE  HostInv'
  BY SocketStep, RootedStep, OwnerStep DEF HostInv

-----------------------------------------------------------------------------
\* The safe half: nothing is blocked or redirected without a rule

LEMMA RuledPacket ==
    ASSUME NEW k \in Packet, Rooted(k), ~DnsExempt(k)
    PROVE  FlowOf(k) \in RuledFlow /\ Handling(k) = Asked(k.pid, FlowOf(k))
<1>1. FlowOf(k) \in Flow /\ ~DnsExempt(FlowOf(k))
  BY PacketShape DEF DnsExempt, FlowOf
<1>2. \E b \in Binding : Serves(b, FlowOf(k)) /\ FlowOf(k).dest \in Reach[b]
  BY DEF Rooted, Serves, FlowOf
<1>3. \A p : RuleFor(p, FlowOf(k)) = RuleFor(p, k)
  BY DEF RuleFor, Exempt, FlowOf
<1>4. Handling(k) = Asked(k.pid, FlowOf(k))
  BY <1>3 DEF Handling, Intended, DnsExempt, Asked, Rooted
<1> QED
  BY <1>1, <1>2, <1>4 DEF RuledFlow

LEMMA HandlingActions ==
    ASSUME NEW k \in Packet
    PROVE  Handling(k) \in {"Proxy", "Direct", "Block"}
  BY NfQueueAssumption DEF Packet, Handling, Intended, DnsExempt, RuleFor

LEMMA DnsGoesOut == \A k : DnsExempt(k) => Handling(k) = "Direct"
  BY DEF Handling, Intended, DnsExempt

LEMMA MarkIsSet == \A proto \in Proto : MarkOf(proto) \in {1, 2}
  BY DEF MarkOf

(* The thread has a packet in hand whose sender is known.                  *)
LEMMA HandRooted ==
    ASSUME TypeInv, HostInv, pc # "recv"
    PROVE  pkt \in Packet /\ Rooted(pkt) /\ FlowOf(pkt) \in Flow /\ pkt.proto \in Proto
  BY PacketShape DEF TypeInv, TypeOK, HostInv, RootedInv

(* Only a flow that is to be proxied is redirected.                        *)
LEMMA KnownSafe ==
    ASSUME TypeInv, PathSafe, NEW k \in Packet, Rooted(k), nat[FlowOf(k)] = "relay"
    PROVE  Handling(k) = "Proxy"
<1>1. FlowOf(k) \in Flow /\ (DnsExempt(k) <=> DnsExempt(FlowOf(k)))
  BY PacketShape DEF DnsExempt, FlowOf
<1>2. Handling(k) = Asked(k.pid, FlowOf(k))
  BY <1>1, RuledPacket DEF PathSafe
<1>3. PICK b \in Binding : Serves(b, k) /\ sock[b] = k.pid
  BY DEF Rooted
<1>4. Serves(b, FlowOf(k)) /\ sock[b] # NoPid
  BY <1>3, NfQueueAssumption DEF Serves, FlowOf, Packet
<1> QED
  BY <1>1, <1>2, <1>3, <1>4 DEF PathSafe

LEMMA FateSafe ==
    ASSUME TypeInv, HostInv, PathSafe, DecisionSafe, pc = "verdict"
    PROVE  /\ Path \in {"dropped", "relay", "direct"}
           /\ Path = "dropped" => Handling(pkt) = "Block"
           /\ Path = "relay" => Handling(pkt) = "Proxy"
<1>1. pkt \in Packet /\ Rooted(pkt) /\ FlowOf(pkt) \in Flow /\ pkt.proto \in Proto
  BY HandRooted
<1>2. /\ nat[FlowOf(pkt)] = "relay" => Handling(pkt) = "Proxy"
      /\ nat[FlowOf(pkt)] \in {"none", "relay", "direct"}
  BY <1>1, KnownSafe DEF TypeInv, TypeOK
<1>3. /\ verdict = "Drop" => Handling(pkt) = "Block"
      /\ mark # 0 => Handling(pkt) = "Proxy"
  BY DEF DecisionSafe
<1>4. MarkOf(pkt.proto) # 0
  BY <1>1, MarkIsSet
<1> QED
  BY <1>2, <1>3, <1>4 DEF Path

LEMMA SafeDecisionInit == Init => DecisionSafe
  BY DEF Init, DecisionSafe

LEMMA SafeDecisionStep ==
    ASSUME SteadyHost, TypeInv, HostInv, DecisionSafe, [Next]_vars
    PROVE  DecisionSafe'
<1> DEFINE Want == Handling(pkt)
<1>1. CASE Recv
  BY <1>1 DEF Recv, DecisionSafe
<1>2. ASSUME pkt' = pkt
      PROVE  /\ Handling(pkt)' = Want /\ (DnsExempt(pkt)' <=> DnsExempt(pkt))
             /\ MarkOf(pkt.proto)' = MarkOf(pkt.proto)
  BY <1>2 DEF Handling, Intended, DnsExempt, RuleFor, Exempt, MarkOf
<1>3. CASE CheckTracked
  <2>1. /\ pc = "track" /\ UNCHANGED <<pkt, verdict, mark>> /\ verdict = "Accept" /\ mark = 0
        /\ pc' = (IF Bypass(pkt) THEN "verdict" ELSE "cache")
    BY <1>3 DEF CheckTracked, DecisionSafe
  <2>2. ~Bypass(pkt) => ~DnsExempt(pkt)
    BY DEF Bypass, DnsExempt
  <2> QED
    BY <1>2, <2>1, <2>2 DEF DecisionSafe
<1>4. CASE CacheGet
  BY <1>2, <1>4 DEF CacheGet, DecisionSafe
<1>5. CASE Lookup
  <2>1. /\ pc = "lookup" /\ pc' \in {"put", "verdict"} /\ UNCHANGED <<pkt, verdict, mark>>
        /\ verdict = "Accept" /\ mark = 0 /\ ~DnsExempt(pkt)
    BY <1>5 DEF Lookup, DecisionSafe
  <2> QED
    BY <1>2, <2>1 DEF DecisionSafe
<1>6. CASE PutPid
  BY <1>2, <1>6 DEF PutPid, DecisionSafe
<1>7. CASE Decide
  <2>1. pc = "name" /\ pkt' = pkt /\ mark' = 0 /\ ~DnsExempt(pkt)
    BY <1>7 DEF Decide, DecisionSafe
  <2>2. /\ pkt \in Packet /\ Rooted(pkt) /\ pid = pkt.pid
    BY <2>1, HandRooted DEF TypeInv, TypeOK, HostInv, OwnerInv
  <2>3. Want = IF pid = BridgePid THEN "Direct" ELSE RuleFor(exe[pid], pkt)
    BY <2>1, <2>2 DEF Handling, Intended, DnsExempt, Rooted
  <2>4. PICK action \in {"Direct", Want} :
            /\ pc' = (IF action = "Proxy" THEN "add" ELSE "verdict")
            /\ verdict' = (IF action = "Block" THEN "Drop" ELSE "Accept")
    BY <1>7, <2>3 DEF Decide
  <2> HIDE DEF Want
  <2> QED
    BY <1>2, <2>1, <2>4 DEF DecisionSafe
<1>8. CASE AddConn
  <2>1. /\ pc = "add" /\ pc' = "verdict" /\ pkt' = pkt /\ mark' = MarkOf(pkt.proto)
        /\ verdict' = "Accept" /\ Want = "Proxy"
    BY <1>8 DEF AddConn, DecisionSafe
  <2> HIDE DEF Want
  <2> QED
    BY <1>2, <2>1 DEF DecisionSafe
<1>9. CASE GiveVerdict
  BY <1>9 DEF GiveVerdict, DecisionSafe
<1>10. ASSUME UNCHANGED <<pc, pkt, verdict, mark>> PROVE DecisionSafe'
  <2> HIDE DEF Want
  <2> QED
    BY <1>2, <1>10 DEF DecisionSafe, Want
<1>11. CASE Cleaner \/ Tick \/ UNCHANGED vars
  BY <1>10, <1>11 DEF Cleaner, CleanupConns, CleanupPids, Tick, thread, vars
<1>12. CASE Environment /\ ~Tick
  BY <1>10, <1>12, OthersWait
<1> QED
  BY <1>1, <1>3, <1>4, <1>5, <1>6, <1>7, <1>8, <1>9, <1>11, <1>12 DEF Next, Thread

LEMMA SafePathInit == Init => PathSafe
  BY DEF Init, HostAtWork, PathSafe, Flow

(* Only a verdict gives a flow a path. *)
LEMMA SafePathKept ==
    ASSUME PathSafe,
           \A f \in Flow : nat'[f] \in {"none", nat[f]},
           \A b \in Binding : sock'[b] # NoPid =>
               \/ sock'[b] = sock[b] /\ exe'[sock[b]] = exe[sock[b]]
               \/ \A f \in Flow : Serves(b, f) => nat[f] = "none"
    PROVE  PathSafe'
<1>1. ASSUME NEW f \in Flow, NEW b \in Binding, Serves(b, f), sock'[b] # NoPid, nat'[f] = "relay"
      PROVE  Asked(sock[b], f)' = "Proxy"
  <2>1. nat[f] = "relay" /\ sock'[b] = sock[b] /\ exe'[sock[b]] = exe[sock[b]]
    BY <1>1
  <2>2. Asked(sock[b], f)' = Asked(sock[b], f)
    BY <2>1 DEF Asked, RuleFor, Exempt
  <2> QED
    BY <1>1, <2>1, <2>2 DEF PathSafe
<1>2. \A f \in Flow : DnsExempt(f) => nat'[f] # "relay"
  BY DEF PathSafe
<1> QED
  BY <1>1, <1>2 DEF PathSafe, DnsExempt, Serves

LEMMA SafeVerdict ==
    ASSUME TypeInv, HostInv, PathSafe, DecisionSafe, GiveVerdict
    PROVE  PathSafe'
<1> DEFINE g == FlowOf(pkt)
<1>1. /\ pc = "verdict" /\ UNCHANGED <<exe, sock>>
      /\ pkt \in Packet /\ Rooted(pkt) /\ g \in Flow
  BY HandRooted DEF GiveVerdict, kernel
<1>2. PICK path \in {Path, "lost"} :
          nat' = IF path \in {"relay", "direct"} THEN [nat EXCEPT ![g] = path] ELSE nat
  BY DEF GiveVerdict
<1>3. path = "relay" => Handling(pkt) = "Proxy"
  BY <1>1, <1>2, FateSafe
<1>4. nat \in [Flow -> {"none", "relay", "direct"}]
  BY DEF TypeInv, TypeOK
<1> HIDE DEF g
<1>5. \A f \in Flow : nat'[f] = "relay" =>
          nat[f] = "relay" \/ (f = g /\ Handling(pkt) = "Proxy")
  BY <1>1, <1>2, <1>3, <1>4
<1>6. ~DnsExempt(pkt) \/ Handling(pkt) # "Proxy"
  BY DnsGoesOut
<1>7. DnsExempt(g) <=> DnsExempt(pkt)
  BY DEF DnsExempt, FlowOf, g
<1>8. ASSUME NEW f \in Flow, NEW b \in Binding, Serves(b, f), sock[b] # NoPid, nat'[f] = "relay"
      PROVE  Asked(sock[b], f) = "Proxy"
  <2>1. CASE nat[f] = "relay"
    BY <1>8, <2>1 DEF PathSafe
  <2>2. CASE f = g /\ Handling(pkt) = "Proxy"
    <3>1. Serves(b, pkt) /\ pkt.pid # NoPid
      BY <1>1, <1>8, <2>2, NfQueueAssumption DEF Serves, FlowOf, g, Packet
    <3>2. sock[b] = pkt.pid
      BY <1>1, <1>8, <3>1, SenderKnown DEF HostInv
    <3> QED
      BY <1>1, <1>6, <2>2, <3>2, RuledPacket DEF g
  <2> QED
    BY <1>5, <1>8, <2>1, <2>2
<1>9. ASSUME NEW f \in Flow, NEW b \in Binding, Serves(b, f), sock'[b] # NoPid, nat'[f] = "relay"
      PROVE  Asked(sock[b], f)' = "Proxy"
  <2>1. Asked(sock[b], f)' = Asked(sock[b], f)
    BY <1>1 DEF Asked, RuleFor, Exempt
  <2> QED
    BY <1>1, <1>8, <1>9, <2>1
<1>10. \A f \in Flow : DnsExempt(f) => nat'[f] # "relay"
  BY <1>5, <1>6, <1>7 DEF PathSafe
<1> QED
  BY <1>9, <1>10 DEF PathSafe, DnsExempt, Serves

LEMMA SafePathStep ==
    ASSUME SteadyHost, TypeInv, HostInv, PathSafe, DecisionSafe, [Next]_vars
    PROVE  PathSafe'
<1> USE NfQueueAssumption
<1>1. ASSUME nat' = nat, sock' = sock, exe' = exe PROVE PathSafe'
  BY <1>1, SafePathKept
<1>2. CASE Thread /\ ~GiveVerdict
  BY <1>1, <1>2
     DEF Thread, Recv, CheckTracked, CacheGet, Lookup, PutPid, Decide, AddConn, kernel, outcome
<1>3. CASE GiveVerdict
  BY <1>3, SafeVerdict
<1>4. CASE Cleaner \/ Tick \/ UNCHANGED vars
  BY <1>1, <1>4 DEF Cleaner, CleanupConns, CleanupPids, Tick, kernel, outcome, vars
<1>5. ASSUME NEW p \in Pid, Exit(p) PROVE PathSafe'
  <2>1. nat' = nat /\ \A b \in Binding : sock'[b] # NoPid =>
            sock'[b] = sock[b] /\ exe'[sock[b]] = exe[sock[b]]
    BY <1>5 DEF Exit, outcome, TypeInv, TypeOK
  <2> QED
    BY <2>1, SafePathKept
<1>6. ASSUME NEW p \in Pid, NEW prog \in Prog, Spawn(p, prog) PROVE PathSafe'
  <2>1. nat' = nat /\ \A b \in Binding : sock'[b] # NoPid =>
            sock'[b] = sock[b] /\ exe'[sock[b]] = exe[sock[b]]
    BY <1>6 DEF Spawn, outcome, TypeInv, TypeOK, OwnersLive
  <2> QED
    BY <2>1, SafePathKept
<1>7. ASSUME NEW b \in Binding, CloseSocket(b) PROVE PathSafe'
  <2>1. nat' = nat /\ exe' = exe /\ \A c \in Binding : sock'[c] # NoPid => sock'[c] = sock[c]
    BY <1>7 DEF CloseSocket, outcome, TypeInv, TypeOK
  <2> QED
    BY <2>1, SafePathKept
<1>8. ASSUME NEW b \in Binding, NEW p \in Pid, OpenSocket(p, b) PROVE PathSafe'
  <2>1. /\ exe' = exe /\ nat' = nat /\ sock' = [sock EXCEPT ![b] = p]
        /\ \A f \in Flow : f.proto = b.proto /\ f.port = b.port => nat[f] = "none"
    BY <1>8 DEF OpenSocket, PortAged, SteadyHost, outcome
  <2>2. \A c \in Binding : sock'[c] = sock[c] \/ \A f \in Flow : Serves(c, f) => nat[f] = "none"
    BY <2>1 DEF Serves
  <2> QED
    BY <2>1, <2>2, SafePathKept
<1>9. ASSUME NEW b \in Binding, NEW addr \in Addr, NEW dest \in Dest, NEW syn \in BOOLEAN,
             Send(b, addr, dest, syn)
      PROVE  PathSafe'
  BY <1>1, <1>9 DEF Send, kernel, outcome
<1>10. ASSUME NEW g \in Flow, ForgetFlow(g) PROVE PathSafe'
  <2>1. exe' = exe /\ sock' = sock /\ \A f \in Flow : nat'[f] \in {"none", nat[f]}
    BY <1>10 DEF ForgetFlow, kernel, TypeInv, TypeOK
  <2> QED
    BY <2>1, SafePathKept
<1> QED
  BY <1>2, <1>3, <1>4, <1>5, <1>6, <1>7, <1>8, <1>9, <1>10 DEF Next, Environment

(* Only GiveVerdict and Recv write judged.                                 *)
LEMMA OnlyVerdictsJudge ==
    ASSUME [Next]_vars, ~GiveVerdict, ~Recv
    PROVE  UNCHANGED judged
<1>1. CASE Thread
  BY <1>1 DEF Thread, CheckTracked, CacheGet, Lookup, PutPid, Decide, AddConn, outcome
<1>2. CASE Cleaner \/ Tick \/ UNCHANGED vars
  BY <1>2 DEF Cleaner, CleanupConns, CleanupPids, Tick, outcome, vars
<1>3. ASSUME NEW p \in Pid, Exit(p) \/ \E prog \in Prog : Spawn(p, prog) PROVE UNCHANGED judged
  BY <1>3 DEF Exit, Spawn, outcome
<1>4. ASSUME NEW b \in Binding,
             \/ CloseSocket(b)
             \/ \E p \in Pid : OpenSocket(p, b)
             \/ \E addr \in Addr, dest \in Dest, syn \in BOOLEAN : Send(b, addr, dest, syn)
      PROVE  UNCHANGED judged
  BY <1>4 DEF CloseSocket, OpenSocket, Send, outcome
<1>5. ASSUME NEW f \in Flow, ForgetFlow(f) PROVE UNCHANGED judged
  BY <1>5 DEF ForgetFlow
<1> QED
  BY <1>1, <1>2, <1>3, <1>4, <1>5 DEF Next, Environment

LEMMA FailsOpenStep ==
    ASSUME TypeInv, HostInv, PathSafe, DecisionSafe, FailsOpen, [Next]_vars
    PROVE  FailsOpen'
<1>1. CASE GiveVerdict
  <2>1. PICK path \in {Path, "lost"} : judged' = [pkt |-> pkt, path |-> path]
    BY <1>1 DEF GiveVerdict
  <2>2. /\ path = "dropped" => Handling(pkt) = "Block"
        /\ path = "relay" => Handling(pkt) = "Proxy"
    BY <1>1, <2>1, FateSafe DEF GiveVerdict
  <2>3. Handling(judged.pkt)' = Handling(pkt) /\ judged'.path = path
    BY <2>1 DEF Handling, Intended, DnsExempt, RuleFor, Exempt
  <2> QED
    BY <2>2, <2>3 DEF FailsOpen
<1>2. CASE UNCHANGED judged
  BY <1>2 DEF FailsOpen, Handling, Intended, DnsExempt, RuleFor, Exempt
<1>3. CASE Recv
  BY <1>3 DEF Recv, FailsOpen
<1>4. CASE ~GiveVerdict /\ ~Recv
  <2>1. UNCHANGED judged
    BY <1>4, OnlyVerdictsJudge
  <2> QED
    BY <1>2, <2>1
<1> QED
  BY <1>1, <1>3, <1>4

-----------------------------------------------------------------------------
\* The exact half: where nothing has failed, nothing is missed

(* What has failed stays failed.                                           *)
LEMMA FailedGrows ==
    ASSUME [Next]_vars
    PROVE  failed \subseteq failed'
<1>1. CASE Lookup
  BY <1>1 DEF Lookup
<1>2. CASE Decide
  BY <1>2 DEF Decide
<1>3. CASE GiveVerdict
  BY <1>3 DEF GiveVerdict
<1>4. CASE Recv \/ CheckTracked \/ CacheGet \/ PutPid \/ AddConn
  BY <1>4 DEF Recv, CheckTracked, CacheGet, PutPid, AddConn
<1>5. CASE Cleaner \/ Tick \/ UNCHANGED vars
  BY <1>5 DEF Cleaner, CleanupConns, CleanupPids, Tick, thread, vars
<1>6. CASE Environment /\ ~Tick
  BY <1>6, OthersWait DEF thread
<1> QED
  BY <1>1, <1>2, <1>3, <1>4, <1>5, <1>6 DEF Next, Thread

(* Only a flow that is to go out is let out.                               *)
LEMMA KnownExact ==
    ASSUME TypeInv, PathExact, NEW k \in Packet, Rooted(k), k.port \notin failed,
           nat[FlowOf(k)] = "direct"
    PROVE  Handling(k) = "Direct"
<1>1. CASE DnsExempt(k)
  BY <1>1, DnsGoesOut
<1>2. CASE ~DnsExempt(k)
  <2>1. /\ FlowOf(k) \in RuledFlow /\ FlowOf(k).port = k.port
        /\ Handling(k) = Asked(k.pid, FlowOf(k))
    BY <1>2, RuledPacket DEF FlowOf
  <2>2. PICK b \in Binding : Serves(b, k) /\ sock[b] = k.pid
    BY DEF Rooted
  <2>3. Serves(b, FlowOf(k)) /\ sock[b] # NoPid
    BY <2>2, NfQueueAssumption DEF Serves, FlowOf, Packet
  <2> QED
    BY <2>1, <2>2, <2>3 DEF PathExact
<1> QED
  BY <1>1, <1>2

(* Where a packet with a verdict goes. *)
LEMMA FateExact ==
    ASSUME TypeInv, SafeInv, ExactInv, pc = "verdict", pkt.port \notin failed
    PROVE  Path = IF Handling(pkt) = "Block" THEN "dropped"
                  ELSE IF Handling(pkt) = "Proxy" THEN "relay" ELSE "direct"
<1>1. pkt \in Packet /\ Rooted(pkt) /\ FlowOf(pkt) \in Flow /\ pkt.proto \in Proto
  BY HandRooted DEF SafeInv
<1>2. /\ nat[FlowOf(pkt)] = "relay" => Handling(pkt) = "Proxy"
      /\ nat[FlowOf(pkt)] = "direct" => Handling(pkt) = "Direct"
      /\ nat[FlowOf(pkt)] \in {"none", "relay", "direct"}
  BY <1>1, KnownSafe, KnownExact DEF TypeInv, TypeOK, SafeInv, ExactInv
<1>3. /\ verdict \in {"Accept", "Drop"}
      /\ verdict = "Drop" => Handling(pkt) = "Block"
      /\ mark # 0 => Handling(pkt) = "Proxy" /\ mark = MarkOf(pkt.proto)
  BY DEF SafeInv, DecisionSafe, TypeInv, TypeOK
<1>4. /\ Handling(pkt) = "Block" => verdict = "Drop"
      /\ Handling(pkt) = "Proxy" => mark # 0 \/ nat[FlowOf(pkt)] = "relay"
  BY DEF ExactInv, DecisionExact
<1>5. MarkOf(pkt.proto) # 0
  BY <1>1, MarkIsSet
<1> QED
  BY <1>1, <1>2, <1>3, <1>4, <1>5, HandlingActions DEF Path

LEMMA ExactInit == Init => ExactInv
  BY DEF Init, HostAtWork, ExactInv, PathExact, DecisionExact, RuledFlow, IsTracked, Absent, Flow

LEMMA ExactDecisionStep ==
    ASSUME OrderlyHost, TypeInv, SafeInv, ExactInv, [Next]_vars
    PROVE  DecisionExact'
<1> DEFINE Want == Handling(pkt)
<1> USE DEF SafeInv, ExactInv
<1>1. CASE Recv
  <2> DEFINE k == Head(queue)
  <2>1. /\ pkt' = k /\ pc' = (IF IsRelay(k) THEN "verdict" ELSE "track")
        /\ k = queue[1] /\ 1 \in 1..Len(queue)
    BY <1>1 DEF Recv, OrderlyHost, TypeInv, TypeOK
  <2> HIDE DEF k
  <2>2. CASE IsRelay(k)
    <3>1. PICK b \in Binding : Serves(b, k) /\ sock[b] = k.pid
      <4>1. Rooted(k)
        BY <2>1 DEF HostInv, RootedInv
      <4> QED
        BY <4>1 DEF Rooted
    <3>2. sock[b] = BridgePid
      BY <2>2, <3>1 DEF HostInv, SocketInv, IsRelay, Serves
    <3>3. Handling(k) = "Direct"
      BY <3>1, <3>2 DEF Handling, Intended, DnsExempt
    <3>4. Handling(pkt)' = "Direct"
      BY <2>1, <3>3 DEF Handling, Intended, DnsExempt, RuleFor, Exempt
    <3> QED
      BY <3>4 DEF DecisionExact
  <2>3. CASE ~IsRelay(k)
    BY <2>1, <2>3 DEF DecisionExact
  <2> QED
    BY <2>2, <2>3
<1>2. ASSUME pkt' = pkt
      PROVE  Handling(pkt)' = Want /\ FlowOf(pkt)' = FlowOf(pkt)
  BY <1>2 DEF Handling, Intended, DnsExempt, RuleFor, Exempt, FlowOf
<1>3. CASE CheckTracked
  <2>1. /\ pc = "track" /\ UNCHANGED <<pkt, nat, failed>> /\ mark = 0
        /\ pc' = (IF Bypass(pkt) THEN "verdict" ELSE "cache")
    BY <1>3 DEF CheckTracked, DecisionSafe, outcome
  <2>2. pkt \in Packet /\ Rooted(pkt)
    BY <2>1, HandRooted
  <2>3. CASE Bypass(pkt) /\ pkt.port \notin failed
    <3>1. /\ nat[FlowOf(pkt)] = "relay" => Want = "Proxy"
          /\ nat[FlowOf(pkt)] = "direct" => Want = "Direct"
          /\ nat[FlowOf(pkt)] \in {"none", "relay", "direct"}
      BY <2>2, <2>3, KnownSafe, KnownExact, PacketShape DEF TypeInv, TypeOK
    <3>2. Want = "Direct" \/ nat[FlowOf(pkt)] = "relay"
      <4>1. CASE DnsExempt(pkt)
        BY <4>1, DnsGoesOut
      <4>2. CASE pkt.proto = "tcp" /\ ~pkt.syn
        BY <2>2, <3>1, <4>2 DEF Rooted
      <4>3. CASE IsTracked(conns, pkt.port) /\ ~DnsExempt(pkt)
        <5>1. FlowOf(pkt) \in RuledFlow /\ FlowOf(pkt).port = pkt.port
          BY <2>2, <4>3, RuledPacket DEF FlowOf
        <5> QED
          BY <2>1, <2>3, <4>3, <5>1 DEF PathExact
      <4> QED
        BY <2>3, <4>1, <4>2, <4>3 DEF Bypass, DnsExempt
    <3> HIDE DEF Want
    <3> QED
      BY <1>2, <2>1, <2>3, <3>1, <3>2 DEF DecisionExact
  <2>4. CASE ~Bypass(pkt) \/ pkt.port \in failed
    BY <2>1, <2>4 DEF DecisionExact
  <2> QED
    BY <2>3, <2>4
<1>4. CASE CacheGet \/ PutPid
  BY <1>4 DEF CacheGet, PutPid, DecisionExact
<1>5. CASE Lookup
  <2>1. pc = "lookup" /\ pkt' = pkt
    BY <1>5 DEF Lookup
  <2>2. pkt \in Packet /\ Rooted(pkt) /\ pkt.pid # NoPid
    BY <2>1, HandRooted, NfQueueAssumption DEF Packet
  <2>3. Owners(pkt) = {pkt.pid}
    BY <2>2, SenderFound DEF HostInv
  <2>4. pc' = "put" \/ pkt.port \in failed'
    BY <1>5, <2>2, <2>3 DEF Lookup
  <2> QED
    BY <2>1, <2>4 DEF DecisionExact
<1>6. CASE Decide
  <2>1. pc = "name" /\ pkt' = pkt
    BY <1>6 DEF Decide
  <2>2. /\ pkt \in Packet /\ Rooted(pkt) /\ pid = pkt.pid /\ exe[pid] = pkt.prog
        /\ pkt.prog # NoProg /\ ~DnsExempt(pkt)
    <3>1. pkt \in Packet /\ Rooted(pkt) /\ pid # NoPid /\ ~DnsExempt(pkt)
      BY <2>1, HandRooted DEF TypeInv, TypeOK, DecisionSafe
    <3>2. pid = pkt.pid
      BY <3>1 DEF HostInv, OwnerInv
    <3> QED
      BY <3>1, <3>2, NfQueueAssumption DEF Rooted, Packet
  <2>3. Want = IF pid = BridgePid THEN "Direct" ELSE RuleFor(exe[pid], pkt)
    BY <2>2 DEF Handling, Intended, DnsExempt
  <2>4. \/ pkt.port \in failed'
        \/ /\ pc' = (IF Want = "Proxy" THEN "add" ELSE "verdict")
           /\ verdict' = (IF Want = "Block" THEN "Drop" ELSE "Accept")
    BY <1>6, <2>2, <2>3 DEF Decide
  <2> HIDE DEF Want
  <2> QED
    BY <1>2, <2>1, <2>4 DEF DecisionExact
<1>7. CASE AddConn
  <2>1. /\ pc = "add" /\ pkt' = pkt /\ mark' = MarkOf(pkt.proto) /\ Want = "Proxy"
    BY <1>7 DEF AddConn, DecisionSafe
  <2>2. MarkOf(pkt.proto) \in {1, 2}
    BY <2>1, HandRooted, MarkIsSet
  <2> HIDE DEF Want
  <2> QED
    BY <1>2, <2>1, <2>2 DEF DecisionExact
<1>8. CASE GiveVerdict
  BY <1>8 DEF GiveVerdict, DecisionExact
<1>9. ASSUME UNCHANGED <<pc, pkt, verdict, mark>>,
             pc = "verdict" => nat'[FlowOf(pkt)] = nat[FlowOf(pkt)]
      PROVE  DecisionExact'
  <2>1. failed \subseteq failed'
    BY FailedGrows
  <2> HIDE DEF Want
  <2> QED
    BY <1>2, <1>9, <2>1 DEF DecisionExact, Want
<1>10. CASE Cleaner \/ Tick \/ UNCHANGED vars
  BY <1>9, <1>10 DEF Cleaner, CleanupConns, CleanupPids, Tick, outcome, thread, vars
<1>11. ASSUME NEW f \in Flow, ForgetFlow(f) PROVE DecisionExact'
  <2>1. nat' = [nat EXCEPT ![f] = "none"] /\ (pc = "verdict" => FlowOf(pkt) # f) /\ UNCHANGED thread
    BY <1>11 DEF ForgetFlow
  <2> QED
    BY <1>9, <2>1 DEF thread
<1>12. ASSUME NEW p \in Pid, Exit(p) \/ \E prog \in Prog : Spawn(p, prog) PROVE DecisionExact'
  BY <1>9, <1>12 DEF Exit, Spawn, outcome, thread
<1>13. ASSUME NEW b \in Binding,
              \/ CloseSocket(b)
              \/ \E p \in Pid : OpenSocket(p, b)
              \/ \E addr \in Addr, dest \in Dest, syn \in BOOLEAN : Send(b, addr, dest, syn)
       PROVE  DecisionExact'
  BY <1>9, <1>13 DEF CloseSocket, OpenSocket, Send, outcome, thread
<1> QED
  BY <1>1, <1>3, <1>4, <1>5, <1>6, <1>7, <1>8, <1>10, <1>11, <1>12, <1>13
     DEF Next, Thread, Environment

-----------------------------------------------------------------------------
\* Paths

(* What the thread knows of a flow: it is tracked, so it is redirected. *)
Announced(f) == IsTracked(conns, f.port) => nat[f] = "relay" \/ (mark # 0 /\ FlowOf(pkt) = f)

(* Only a verdict gives a flow a path, and only AddConn tracks a port.     *)
LEMMA ExactPathKept ==
    ASSUME PathExact, failed \subseteq failed',
           \A f \in Flow : nat'[f] \in {"none", nat[f]},
           \A b \in Binding : sock'[b] # NoPid =>
               \/ sock'[b] = sock[b] /\ exe'[sock[b]] = exe[sock[b]]
               \/ \A f \in Flow : Serves(b, f) => nat[f] = "none",
           \A f \in RuledFlow : f.port \notin failed => Announced(f)'
    PROVE  PathExact'
<1>1. ASSUME NEW f \in RuledFlow, f.port \notin failed', NEW b \in Binding, Serves(b, f),
             sock'[b] # NoPid, nat'[f] = "direct"
      PROVE  Asked(sock[b], f)' = "Direct"
  <2>1. f \in Flow /\ f.port \notin failed
    BY <1>1 DEF RuledFlow
  <2>2. nat[f] = "direct" /\ sock'[b] = sock[b] /\ exe'[sock[b]] = exe[sock[b]]
    BY <1>1, <2>1
  <2>3. Asked(sock[b], f)' = Asked(sock[b], f)
    BY <2>2 DEF Asked, RuleFor, Exempt
  <2> QED
    BY <1>1, <2>1, <2>2, <2>3 DEF PathExact
<1>2. ASSUME NEW f \in RuledFlow, f.port \notin failed' PROVE Announced(f)'
  BY <1>2
<1>3. RuledFlow' = RuledFlow
  BY DEF RuledFlow, DnsExempt, Serves
<1> QED
  BY <1>1, <1>2, <1>3 DEF PathExact, Announced, Serves

LEMMA ExactVerdict ==
    ASSUME OrderlyHost, TypeInv, SafeInv, ExactInv, GiveVerdict
    PROVE  PathExact'
<1> DEFINE g == FlowOf(pkt)
           Want == Handling(pkt)
<1>1. /\ pc = "verdict" /\ UNCHANGED <<exe, sock, conns>> /\ mark' = 0 /\ failed \subseteq failed'
      /\ pkt \in Packet /\ Rooted(pkt) /\ g \in Flow /\ g.port = pkt.port
  BY HandRooted DEF GiveVerdict, kernel, SafeInv, FlowOf
<1>2. nat \in [Flow -> {"none", "relay", "direct"}]
  BY DEF TypeInv, TypeOK
<1>3. Want \in {"Proxy", "Direct", "Block"}
  BY <1>1, HandlingActions
<1>4. \A f \in Flow : f = g \/ nat'[f] = nat[f]
  BY <1>1, <1>2 DEF GiveVerdict
<1>5. ASSUME pkt.port \notin failed'
      PROVE  nat'[g] = IF Want = "Block" THEN nat[g] ELSE IF Want = "Proxy" THEN "relay" ELSE "direct"
  <2>1. Path = IF Want = "Block" THEN "dropped" ELSE IF Want = "Proxy" THEN "relay" ELSE "direct"
    BY <1>1, <1>5, FateExact
  <2>2. nat' = IF Path \in {"relay", "direct"} THEN [nat EXCEPT ![g] = Path] ELSE nat
    BY <1>5 DEF GiveVerdict
  <2> HIDE DEF Want, g
  <2> QED
    BY <1>1, <1>2, <1>3, <2>1, <2>2
<1>6. pkt.port \notin failed => (nat[g] = "direct" => Want = "Direct") /\ (nat[g] = "relay" => Want = "Proxy")
  BY <1>1, KnownSafe, KnownExact DEF SafeInv, ExactInv
<1>7. mark # 0 => Want = "Proxy"
  BY <1>1 DEF SafeInv, DecisionSafe
<1>8. ASSUME NEW f \in RuledFlow, f.port \notin failed', NEW b \in Binding, Serves(b, f),
             sock'[b] # NoPid, nat'[f] = "direct"
      PROVE  Asked(sock[b], f)' = "Direct"
  <2>1. f \in Flow /\ ~DnsExempt(f) /\ f.port \notin failed /\ sock'[b] = sock[b]
    BY <1>1, <1>8 DEF RuledFlow
  <2>2. Asked(sock[b], f)' = Asked(sock[b], f)
    BY <1>1 DEF Asked, RuleFor, Exempt
  <2>3. CASE f # g
    BY <1>4, <1>8, <2>1, <2>2, <2>3 DEF ExactInv, PathExact
  <2>4. CASE f = g
    <3>1. Want = "Direct"
      <4> HIDE DEF Want, g
      <4> QED
        BY <1>1, <1>3, <1>5, <1>6, <1>8, <2>1, <2>4
    <3>2. Serves(b, pkt) /\ pkt.pid # NoPid /\ ~DnsExempt(pkt)
      BY <1>1, <1>8, <2>1, <2>4, NfQueueAssumption DEF Serves, FlowOf, Packet, DnsExempt
    <3>3. sock[b] = pkt.pid
      BY <1>1, <1>8, <2>1, <3>2, SenderKnown DEF HostInv, SafeInv
    <3> QED
      BY <1>1, <2>1, <2>2, <2>4, <3>1, <3>2, <3>3, RuledPacket
  <2> QED
    BY <2>3, <2>4
<1>9. ASSUME NEW f \in RuledFlow, f.port \notin failed', IsTracked(conns', f.port)
      PROVE  nat'[f] = "relay"
  <2>1. f \in Flow /\ f.port \notin failed /\ IsTracked(conns, f.port)
    BY <1>1, <1>9 DEF RuledFlow
  <2>2. nat[f] = "relay" \/ (mark # 0 /\ f = g)
    BY <1>9, <2>1 DEF ExactInv, PathExact
  <2> HIDE DEF Want, g
  <2>3. CASE f # g
    BY <1>4, <2>1, <2>2, <2>3
  <2>4. CASE f = g
    BY <1>1, <1>5, <1>6, <1>7, <1>9, <2>1, <2>2, <2>4
  <2> QED
    BY <2>3, <2>4
<1>10. RuledFlow' = RuledFlow
  BY DEF RuledFlow, DnsExempt, Serves
<1> QED
  BY <1>8, <1>9, <1>10 DEF PathExact, Serves

LEMMA ExactPathStep ==
    ASSUME OrderlyHost, TypeInv, TrackerInv, SafeInv, ExactInv, [Next]_vars
    PROVE  PathExact'
<1> USE NfQueueAssumption
<1>0. /\ failed \subseteq failed' /\ PathExact /\ DecisionSafe
      /\ \A f \in RuledFlow : f \in Flow /\ f.port \in Port
  BY FailedGrows DEF ExactInv, SafeInv, RuledFlow, Flow
<1> DEFINE OwnersKept == \A b \in Binding : sock'[b] # NoPid =>
               sock'[b] = sock[b] /\ exe'[sock[b]] = exe[sock[b]]
<1>1. ASSUME nat' = nat, \A p \in Port : IsTracked(conns', p) => IsTracked(conns, p),
             mark # 0 => mark' = mark /\ pkt' = pkt, OwnersKept
      PROVE  PathExact'
  <2>1. \A f \in RuledFlow : f.port \notin failed => Announced(f)'
    BY <1>0, <1>1 DEF PathExact, Announced, FlowOf, IsTracked
  <2> QED
    BY <1>0, <1>1, <2>1, ExactPathKept
<1>2. CASE Recv \/ CheckTracked \/ CacheGet \/ Lookup \/ PutPid \/ Decide
  <2>1. mark = 0
    BY <1>0, <1>2 DEF Recv, CheckTracked, CacheGet, Lookup, PutPid, Decide, DecisionSafe
  <2>2. UNCHANGED <<nat, conns, sock, exe>>
    BY <1>2 DEF Recv, CheckTracked, CacheGet, Lookup, PutPid, Decide, kernel, outcome
  <2> QED
    BY <1>1, <2>1, <2>2
<1>3. CASE AddConn
  <2>1. /\ pc = "add" /\ mark' = MarkOf(pkt.proto) /\ pkt' = pkt /\ ~DnsExempt(pkt)
        /\ UNCHANGED <<exe, sock, nat>>
        /\ conns' = Add(conns, pkt.port, pkt.addr, pkt.dest, now)
    BY <1>0, <1>3 DEF AddConn, DecisionSafe, kernel, outcome
  <2>2. pkt \in Packet /\ Rooted(pkt) /\ mark' # 0 /\ mark = 0
    BY <1>0, <2>1, HandRooted, MarkIsSet DEF SafeInv, DecisionSafe
  <2>3. FlowOf(pkt) \in RuledFlow /\ FlowOf(pkt).port = pkt.port /\ FlowOf(pkt') = FlowOf(pkt)
    BY <2>1, <2>2, RuledPacket DEF FlowOf
  <2>4. ASSUME NEW f \in RuledFlow, f.port \notin failed, IsTracked(conns', f.port)
        PROVE  nat'[f] = "relay" \/ (mark' # 0 /\ FlowOf(pkt') = f)
    <3>1. CASE f.port = pkt.port
      BY <2>2, <2>3, <3>1 DEF OrderlyHost
    <3>2. CASE f.port # pkt.port
      <4>1. IsTracked(conns, f.port)
        BY <1>0, <2>1, <2>4, <3>2 DEF IsTracked, Add, TypeInv, TypeOK
      <4> QED
        BY <2>1, <2>2, <2>4, <4>1 DEF ExactInv, PathExact
    <3> QED
      BY <3>1, <3>2
  <2>5. \A f \in RuledFlow : f.port \notin failed => Announced(f)'
    BY <2>1, <2>4 DEF Announced, FlowOf, IsTracked
  <2> QED
    BY <1>0, <2>1, <2>5, ExactPathKept
<1>4. CASE GiveVerdict
  BY <1>4, ExactVerdict
<1>5. CASE Cleaner
  <2>1. UNCHANGED <<exe, sock, nat, mark, pkt>>
    BY <1>5 DEF Cleaner, CleanupConns, CleanupPids, kernel, outcome, thread
  <2>2. \A p \in Port : IsTracked(conns', p) => IsTracked(conns, p)
    BY <1>5 DEF Cleaner, CleanupConns, CleanupStale, CleanupPids, IsTracked
  <2> QED
    BY <1>1, <2>1, <2>2
<1>6. CASE Tick \/ UNCHANGED vars
  BY <1>1, <1>6 DEF Tick, kernel, outcome, thread, vars
<1>7. ASSUME NEW p \in Pid, Exit(p) PROVE PathExact'
  <2>1. OwnersKept
    BY <1>7 DEF Exit, TypeInv, TypeOK
  <2> QED
    BY <1>1, <1>7, <2>1 DEF Exit, outcome, thread
<1>8. ASSUME NEW p \in Pid, NEW prog \in Prog, Spawn(p, prog) PROVE PathExact'
  <2>1. OwnersKept
    BY <1>8 DEF Spawn, OwnersLive, TypeInv, TypeOK
  <2> QED
    BY <1>1, <1>8, <2>1 DEF Spawn, outcome, thread
<1>9. ASSUME NEW b \in Binding,
             \/ CloseSocket(b)
             \/ \E addr \in Addr, dest \in Dest, syn \in BOOLEAN : Send(b, addr, dest, syn)
      PROVE  PathExact'
  <2>1. OwnersKept
    BY <1>9 DEF CloseSocket, Send, kernel, TypeInv, TypeOK
  <2> QED
    BY <1>1, <1>9, <2>1 DEF CloseSocket, Send, outcome, thread
<1>10. ASSUME NEW b \in Binding, NEW p \in Pid, OpenSocket(p, b) PROVE PathExact'
  <2>1. /\ UNCHANGED <<exe, nat, conns, mark, pkt>> /\ sock' = [sock EXCEPT ![b] = p]
        /\ \A f \in Flow : f.proto = b.proto /\ f.port = b.port => nat[f] = "none"
    BY <1>10 DEF OpenSocket, PortAged, OrderlyHost, SteadyHost, outcome, thread
  <2>2. \A c \in Binding :
            \/ sock'[c] = sock[c] /\ exe'[sock[c]] = exe[sock[c]]
            \/ \A f \in Flow : Serves(c, f) => nat[f] = "none"
    BY <2>1 DEF Serves
  <2>3. \A f \in RuledFlow : f.port \notin failed => Announced(f)'
    BY <2>1 DEF ExactInv, PathExact, Announced, FlowOf, IsTracked
  <2> QED
    BY <1>0, <2>1, <2>2, <2>3, ExactPathKept
<1>11. ASSUME NEW g \in Flow, ForgetFlow(g) PROVE PathExact'
  <2>1. /\ UNCHANGED <<exe, sock, conns, mark, pkt>> /\ nat' = [nat EXCEPT ![g] = "none"]
        /\ ~IsTracked(conns, g.port)
    BY <1>11 DEF ForgetFlow, OrderlyHost, kernel, thread
  <2>2. \A f \in Flow : nat'[f] \in {"none", nat[f]} /\ (f # g => nat'[f] = nat[f])
    BY <2>1 DEF TypeInv, TypeOK
  <2>3. \A f \in RuledFlow : f.port \notin failed => Announced(f)'
    BY <1>0, <2>1, <2>2 DEF PathExact, Announced, FlowOf, IsTracked
  <2> QED
    BY <1>0, <2>1, <2>2, <2>3, ExactPathKept
<1> QED
  BY <1>2, <1>3, <1>4, <1>5, <1>6, <1>7, <1>8, <1>9, <1>10, <1>11 DEF Next, Thread, Environment

(* Exempt DNS aside, what the program means to do is what the rules ask.   *)
LEMMA Enforcing ==
    Enforced <=> (judged # NoEntry => LET want == Handling(judged.pkt) IN
                      \/ judged.pkt.port \in failed \/ DnsExempt(judged.pkt)
                      \/ /\ want = "Block" => judged.path = "dropped"
                         /\ want = "Proxy" => judged.path = "relay")
  BY DEF Enforced, BlockIsEnforced, ProxyIsEnforced, Handling

LEMMA EnforcedStep ==
    ASSUME OrderlyHost, TypeInv, SafeInv, ExactInv, Enforced, [Next]_vars
    PROVE  Enforced'
<1> DEFINE Goal == judged' # NoEntry =>
               \/ judged'.pkt.port \in failed' \/ DnsExempt(judged'.pkt)
               \/ /\ Handling(judged.pkt)' = "Block" => judged'.path = "dropped"
                  /\ Handling(judged.pkt)' = "Proxy" => judged'.path = "relay"
<1>0. Goal => Enforced'
  BY DEF Enforced, BlockIsEnforced, ProxyIsEnforced, Handling, Intended, RuleFor, Exempt, DnsExempt
<1>1. CASE GiveVerdict
  <2>1. PICK path \in {Path, "lost"} :
            /\ judged' = [pkt |-> pkt, path |-> path]
            /\ failed' = IF path = "lost" THEN failed \cup {pkt.port} ELSE failed
    BY <1>1 DEF GiveVerdict
  <2>2. Handling(judged.pkt)' = Handling(pkt) /\ judged'.path = path /\ judged'.pkt = pkt
    BY <2>1 DEF Handling, Intended, DnsExempt, RuleFor, Exempt
  <2>3. CASE pkt.port \in failed'
    BY <1>0, <2>2, <2>3
  <2>4. CASE pkt.port \notin failed'
    <3>1. path = Path /\ pkt.port \notin failed /\ pc = "verdict"
      BY <1>1, <2>1, <2>4 DEF GiveVerdict
    <3>2. /\ Handling(pkt) = "Block" => path = "dropped"
          /\ Handling(pkt) = "Proxy" => path = "relay"
      BY <3>1, FateExact
    <3> QED
      BY <1>0, <2>2, <3>2
  <2> QED
    BY <2>3, <2>4
<1>2. CASE UNCHANGED judged
  <2>1. failed \subseteq failed' /\ Handling(judged.pkt)' = Handling(judged.pkt)
    BY <1>2, FailedGrows DEF Handling, Intended, DnsExempt, RuleFor, Exempt
  <2> QED
    BY <1>0, <1>2, <2>1, Enforcing
<1>3. CASE Recv
  BY <1>0, <1>3 DEF Recv
<1>4. CASE ~GiveVerdict /\ ~Recv
  BY <1>2, <1>4, OnlyVerdictsJudge
<1> QED
  BY <1>1, <1>3, <1>4

-----------------------------------------------------------------------------
\* The refinement of Interceptor

LEMMA InHandFirst ==
    ASSUME TypeInv, pc # "recv"
    PROVE  Waiting # <<>> /\ Head(Waiting) = pkt /\ Tail(Waiting) = queue
<1>1. pkt \in Packet /\ queue \in Seq(Packet) /\ Waiting = <<pkt>> \o queue
  BY DEF TypeInv, TypeOK, Waiting
<1>2. \A k \in Packet, q \in Seq(Packet) :
          <<k>> \o q # <<>> /\ Head(<<k>> \o q) = k /\ Tail(<<k>> \o q) = q
  OBVIOUS
<1> QED
  BY <1>1, <1>2

LEMMA AttendRefines ==
    ASSUME TypeInv, Recv
    PROVE  Abstract!Attend
<1>1. /\ pc = "recv" /\ queue # <<>> /\ queue \in Seq(Packet) /\ pc' # "recv"
      /\ pkt' = Head(queue) /\ queue' = Tail(queue) /\ judged' = NoEntry /\ failed' = failed
  BY DEF Recv, TypeInv, TypeOK
<1>2. \A q \in Seq(Packet) : q # <<>> => <<Head(q)>> \o Tail(q) = q
  OBVIOUS
<1>3. Waiting # <<>> /\ Waiting' = Waiting
  BY <1>1, <1>2 DEF Waiting
<1> QED
  BY <1>1, <1>3 DEF Abstract!Attend

LEMMA SubmitRefines ==
    ASSUME TypeInv, NEW b \in Binding, NEW addr \in Addr, NEW dest \in Dest, NEW syn \in BOOLEAN,
           Send(b, addr, dest, syn)
    PROVE  \E k \in Packet : Abstract!Submit(k)
<1> DEFINE k == [proto |-> b.proto, syn |-> syn, addr |-> addr, port |-> b.port, dest |-> dest,
                 pid |-> sock[b], prog |-> exe[sock[b]]]
<1>1. /\ k \in Packet /\ queue' = Append(queue, k) /\ UNCHANGED <<pc, pkt, judged, failed>>
      /\ queue \in Seq(Packet) /\ (pc # "recv" => pkt \in Packet)
  BY NfQueueAssumption DEF Send, Packet, OwnersLive, TypeInv, TypeOK, thread, outcome
<1> HIDE DEF k
<1>2. \A p, l \in Packet, q \in Seq(Packet) : <<p>> \o Append(q, l) = Append(<<p>> \o q, l)
  OBVIOUS
<1>3. Waiting' = Append(Waiting, k)
  BY <1>1, <1>2 DEF Waiting
<1>4. Abstract!Submit(k)
  BY <1>1, <1>3 DEF Abstract!Submit
<1> QED
  BY <1>1, <1>4

(* A lookup that fails is a failure of the packet in hand, one that does   *)
(* not is not seen.                                                        *)
LEMMA FailRefines ==
    ASSUME TypeInv, Lookup \/ Decide
    PROVE  Abstract!Fail
<1>1. /\ pc # "recv" /\ pc' # "recv" /\ UNCHANGED <<pkt, queue, judged>>
      /\ failed' = failed \/ (LookupMayFail /\ failed' = failed \cup {pkt.port})
  <2>1. CASE Lookup
    BY <2>1 DEF Lookup, Refused, outcome
  <2>2. CASE Decide
    BY <2>2 DEF Decide, outcome
  <2> QED
    BY <2>1, <2>2
<1>2. Waiting # <<>> /\ Head(Waiting) = pkt /\ Waiting' = Waiting
  BY <1>1, InHandFirst DEF Waiting
<1> QED
  BY <1>1, <1>2 DEF Abstract!Fail, Abstract!MayFailFor

LEMMA JudgeRefines ==
    ASSUME TypeInv, SafeInv, ExactInv, GiveVerdict
    PROVE  Abstract!Judge
<1> DEFINE Want == Handling(pkt)
           Due == Abstract!Fate(pkt)
<1>1. /\ pc = "verdict" /\ pc' = "recv" /\ queue' = queue /\ pkt \in Packet
  BY DEF GiveVerdict, TypeInv, TypeOK
<1>2. Waiting # <<>> /\ Head(Waiting) = pkt /\ Waiting' = Tail(Waiting)
  BY <1>1, InHandFirst DEF Waiting
<1>3. PICK path \in {Path, "lost"} :
          /\ judged' = [pkt |-> pkt, path |-> path]
          /\ failed' = IF path = "lost" THEN failed \cup {pkt.port} ELSE failed
          /\ path = "lost" => VerdictMayFail
  <2>1. Path # "lost"
    BY <1>1, FateSafe DEF SafeInv
  <2> QED
    BY <2>1 DEF GiveVerdict
<1>4. Want \in {"Proxy", "Direct", "Block"}
  BY <1>1, HandlingActions
<1>5. Due = IF Want = "Block" THEN "dropped" ELSE IF Want = "Proxy" THEN "relay" ELSE "direct"
  BY <1>1, <1>4 DEF Abstract!Fate
<1>6. Abstract!MayFailFor(pkt)
  BY <1>3 DEF Abstract!MayFailFor
<1>7. path \in {Due} \cup (IF pkt.port \in failed' THEN {"direct", "lost"} ELSE {})
  <2>1. CASE path = "lost"
    BY <1>3, <2>1
  <2>2. CASE path # "lost" /\ pkt.port \notin failed
    BY <1>1, <1>3, <1>5, <2>2, FateExact
  <2>3. CASE path # "lost" /\ pkt.port \in failed
    <3>1. path = Path /\ pkt.port \in failed'
      BY <1>3, <2>3
    <3>2. /\ path \in {"dropped", "relay", "direct"}
          /\ path = "dropped" => Want = "Block"
          /\ path = "relay" => Want = "Proxy"
      BY <1>1, <3>1, FateSafe DEF SafeInv
    <3> HIDE DEF Want, Due
    <3> QED
      BY <1>5, <3>1, <3>2
  <2> QED
    BY <2>1, <2>2, <2>3
<1> HIDE DEF Due
<1> QED
  BY <1>2, <1>3, <1>6, <1>7 DEF Abstract!Judge, Due

LEMMA InterceptorInit == Init => Abstract!Init
<1> SUFFICES ASSUME Init PROVE Abstract!Init
  OBVIOUS
<1>1. Waiting = <<>> /\ judged = NoEntry
  BY DEF Init, Waiting
<1>2. ASSUME NEW f \in Flow PROVE f.port \in {k.port : k \in Packet}
  <2> DEFINE k == [proto |-> f.proto, syn |-> TRUE, addr |-> f.addr, port |-> f.port,
                   dest |-> f.dest, pid |-> BridgePid, prog |-> BridgeProg]
  <2>1. k \in Packet /\ k.port = f.port
    BY <1>2, NfQueueAssumption DEF Flow, Packet
  <2> QED
    BY <2>1
<1>3. failed \subseteq {k.port : k \in Packet}
  BY <1>2 DEF Init, HostAtWork
<1> QED
  BY <1>1, <1>3 DEF Abstract!Init

LEMMA InterceptorStep ==
    ASSUME TypeInv, SafeInv, ExactInv, [Next]_vars
    PROVE  [Abstract!Next]_(Abstract!vars)
<1> USE DEF Abstract!Next
<1>1. CASE Recv
  BY <1>1, AttendRefines
<1>2. CASE Lookup \/ Decide
  BY <1>2, FailRefines
<1>3. CASE GiveVerdict
  BY <1>3, JudgeRefines
<1>4. ASSUME NEW b \in Binding, NEW addr \in Addr, NEW dest \in Dest, NEW syn \in BOOLEAN,
             Send(b, addr, dest, syn)
      PROVE  Abstract!Next
  BY <1>4, SubmitRefines
<1>5. ASSUME UNCHANGED <<pkt, queue, judged, failed>>, pc' = "recv" <=> pc = "recv"
      PROVE  UNCHANGED Abstract!vars
  BY <1>5 DEF Abstract!vars, Waiting
<1>6. CASE CheckTracked \/ CacheGet \/ PutPid \/ AddConn
  BY <1>5, <1>6 DEF CheckTracked, CacheGet, PutPid, AddConn, outcome
<1>7. CASE Cleaner \/ Tick \/ UNCHANGED vars
  BY <1>5, <1>7 DEF Cleaner, CleanupConns, CleanupPids, Tick, outcome, thread, vars
<1>8. ASSUME NEW p \in Pid, Exit(p) \/ \E prog \in Prog : Spawn(p, prog)
      PROVE  UNCHANGED Abstract!vars
  BY <1>5, <1>8 DEF Exit, Spawn, outcome, thread
<1>9. ASSUME NEW b \in Binding, CloseSocket(b) \/ \E p \in Pid : OpenSocket(p, b)
      PROVE  UNCHANGED Abstract!vars
  BY <1>5, <1>9 DEF CloseSocket, OpenSocket, outcome, thread
<1>10. ASSUME NEW f \in Flow, ForgetFlow(f) PROVE UNCHANGED Abstract!vars
  BY <1>5, <1>10 DEF ForgetFlow, thread
<1> HIDE DEF Abstract!Next
<1> QED
  BY <1>1, <1>2, <1>3, <1>4, <1>6, <1>7, <1>8, <1>9, <1>10 DEF Next, Thread, Environment

-----------------------------------------------------------------------------
\* The theorems

LEMMA SafeHolds == ASSUME SteadyHost PROVE Spec => [](TypeInv /\ SafeInv /\ FailsOpen)
<1> DEFINE Inv == TypeInv /\ AttributionInv /\ SafeInv /\ FailsOpen
<1>1. Init => Inv
  BY TypeInit, AttributionInit, HostInit, SafePathInit, SafeDecisionInit
     DEF SafeInv, FailsOpen, Init
<1>2. Inv /\ [Next]_vars => Inv'
  BY TypeStep, AttributionStep, HostStep, SafePathStep, SafeDecisionStep, FailsOpenStep DEF SafeInv
<1> QED
  BY <1>1, <1>2, PTL DEF Spec

LEMMA ExactHolds == ASSUME OrderlyHost PROVE Spec => [](ExactInv /\ Enforced)
<1>1. SteadyHost
  BY DEF OrderlyHost
<1>2. Spec => [](TypeInv /\ SafeInv)
  BY <1>1, SafeHolds, PTL
<1>3. Init => TrackerInv /\ ExactInv /\ Enforced
  BY TrackerInit, ExactInit DEF Init, Enforced, BlockIsEnforced, ProxyIsEnforced
<1>4. TypeInv /\ SafeInv /\ TrackerInv /\ ExactInv /\ Enforced /\ [Next]_vars =>
          (TrackerInv /\ ExactInv /\ Enforced)'
  <2> SUFFICES ASSUME TypeInv, SafeInv, TrackerInv, ExactInv, Enforced, [Next]_vars
               PROVE  TrackerInv' /\ ExactInv' /\ Enforced'
    OBVIOUS
  <2>1. TrackerInv'
    BY TrackerStep
  <2>2. ExactInv'
    BY ExactPathStep, ExactDecisionStep DEF ExactInv
  <2>3. Enforced'
    BY EnforcedStep
  <2> QED
    BY <2>1, <2>2, <2>3
<1> QED
  BY <1>2, <1>3, <1>4, PTL DEF Spec

(* On a steady host the lookup and the cache name nobody but the sender,   *)
(* whatever fails.                                                         *)
THEOREM PidIsOwnerHolds == ASSUME SteadyHost PROVE Spec => []PidIsOwner
<1>1. SafeInv => PidIsOwner
  BY DEF SafeInv, HostInv, OwnerInv, PidIsOwner
<1> QED
  BY <1>1, SafeHolds, PTL

(* On a steady host failures let packets out or lose them; none is dropped *)
(* that no rule blocks and none is redirected that no rule proxies.        *)
THEOREM FailsOpenHolds == ASSUME SteadyHost PROVE Spec => []FailsOpen
  BY SafeHolds, PTL

(* On an orderly host no packet of a blocked program leaves it from a      *)
(* source port for which nothing has failed and that had no connection     *)
(* when the program started, but for the DNS that no rule is asked about.  *)
THEOREM BlockIsEnforcedHolds == ASSUME OrderlyHost PROVE Spec => []BlockIsEnforced
<1>1. Enforced => BlockIsEnforced
  BY DEF Enforced
<1> QED
  BY <1>1, ExactHolds, PTL

(* On an orderly host every packet of a proxied program reaches the relay  *)
(* from such a source port, with the same exception for DNS.               *)
THEOREM ProxyIsEnforcedHolds == ASSUME OrderlyHost PROVE Spec => []ProxyIsEnforced
<1>1. Enforced => ProxyIsEnforced
  BY DEF Enforced
<1> QED
  BY <1>1, ExactHolds, PTL

(* On an orderly host the thread with its tables, the cleanup task and     *)
(* conntrack implement Interceptor: every packet is judged once, in order, *)
(* as the rules ask for its sender, and a failure harms its own port only. *)
THEOREM InterceptorImplemented == ASSUME OrderlyHost PROVE Spec => ImplementsInterceptor
<1>1. SteadyHost
  BY DEF OrderlyHost
<1>2. Spec => [](TypeInv /\ SafeInv) /\ [](ExactInv /\ Enforced)
  BY <1>1, SafeHolds, ExactHolds, PTL
<1>3. TypeInv /\ SafeInv /\ ExactInv /\ [Next]_vars => [Abstract!Next]_(Abstract!vars)
  BY InterceptorStep
<1>4. Spec => Abstract!Spec
  BY <1>2, <1>3, InterceptorInit, PTL DEF Spec, Abstract!Spec
<1> QED
  BY <1>4 DEF ImplementsInterceptor
=============================================================================
