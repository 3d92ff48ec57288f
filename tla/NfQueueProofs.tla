---------------------------- MODULE NfQueueProofs ----------------------------
(***************************************************************************)
(* Theorems about NfQueue, for every value of its constants.               *)
(***************************************************************************)
EXTENDS NfQueue, TLAPS

(* A process that owns a socket runs: a packet's program is one of Prog.   *)
OwnersLive == \A b \in Binding : sock[b] # NoPid => exe[sock[b]] # NoProg

TypeInv == TypeOK /\ OwnersLive

LEMMA TypeInit == Init => TypeInv
<1> SUFFICES ASSUME Init PROVE TypeInv
  OBVIOUS
<1> USE NfQueueAssumption, NoEntryAssumption, NoPacketAssumption, TimeoutsAssumption DEF Init, HostAtWork
<1>1. /\ now \in Nat /\ nextCleanup \in Nat /\ startedAt \in Nat /\ addedAt \in Nat
      /\ queue \in Seq(Packet) /\ cleaner \in {"sleep", "pids"}
      /\ pc \in {"recv", "track", "cache", "lookup", "put", "name", "add", "verdict"}
      /\ pkt \in Packet \cup {NoEntry} /\ (pc = "recv" <=> pkt = NoEntry)
      /\ pid \in Pid \cup {NoPid} /\ (pc \in {"put", "name", "add"} => pid # NoPid)
      /\ verdict \in {"Accept", "Drop"} /\ mark \in {0, 1, 2}
      /\ judged \in [pkt : Packet, path : {"dropped", "relay", "direct", "lost"}] \cup {NoEntry}
  OBVIOUS
<1>2. exe \in [Pid -> Prog \cup {NoProg}] /\ sock \in [Binding -> Pid \cup {NoPid}]
  OBVIOUS
<1>3. /\ conns \in [Port -> ConnectionInfo \cup {NoEntry}]
      /\ cache \in [PidCacheKey -> PidCacheEntry \cup {NoEntry}]
  BY DEF Absent
<1>4. /\ nat \in [Flow -> {"none", "relay", "direct"}] /\ since \in [Flow -> Nat]
      /\ failed \subseteq Port
  BY DEF Flow
<1>5. heldAt \in [Holder -> Nat \cup {Never}]
  OBVIOUS
<1>6. OwnersLive
  BY DEF OwnersLive
<1> QED
  BY <1>1, <1>2, <1>3, <1>4, <1>5, <1>6 DEF TypeInv, TypeOK

LEMMA PacketShape ==
    ASSUME NEW k \in Packet
    PROVE  /\ KeyOf(k) \in PidCacheKey /\ FlowOf(k) \in Flow
           /\ k.port \in Port /\ k.addr \in Addr /\ k.dest \in Dest /\ k.proto \in Proto
           /\ \A p \in Pid : HolderOf(k.proto, k.port, p) \in Holder
  BY DEF Packet, KeyOf, FlowOf, PidCacheKey, Flow, Holder, HolderOf

(* Whoever a lookup finds holds a socket on the packet's protocol and port *)
(* at that moment.                                                         *)
LEMMA OwnersHold ==
    ASSUME sock \in [Binding -> Pid \cup {NoPid}], NEW k
    PROVE  \A p \in ExactOwner(k) \cup UdpPortOwner(k) :
               p \in Pid /\ Holds(HolderOf(k.proto, k.port, p))
  BY DEF ExactOwner, UdpPortOwner, KeyOf, Holds, HolderOf

LEMMA TypeStep == TypeInv /\ [Next]_vars => TypeInv'
<1> SUFFICES ASSUME TypeInv, [Next]_vars PROVE TypeInv'
  OBVIOUS
<1> USE NfQueueAssumption, NoEntryAssumption, NoPacketAssumption, TimeoutsAssumption
<1> USE DEF TypeInv, TypeOK, OwnersLive, thread, kernel, outcome, timer
<1>1. CASE UNCHANGED vars
  BY <1>1 DEF vars
<1>2. CASE Recv
  <2>1. Head(queue) \in Packet /\ Tail(queue) \in Seq(Packet)
    BY <1>2 DEF Recv
  <2> QED
    BY <1>2, <2>1 DEF Recv
<1>3. CASE CheckTracked
  BY <1>3 DEF CheckTracked
<1>4. CASE CacheGet
  <2>1. pkt \in Packet
    BY <1>4 DEF CacheGet
  <2>2. CachedPid(cache, KeyOf(pkt), now) \in Pid \cup {NoEntry}
    BY <2>1, PacketShape DEF CachedPid, PidCacheEntry
  <2> QED
    BY <1>4, <2>2 DEF CacheGet
<1>5. CASE Lookup
  <2>1. PICK p \in Owners(pkt) \cup Refused(pkt) :
            /\ pid' = p
            /\ pc' = IF p = NoPid THEN "verdict" ELSE "put"
            /\ failed' = IF p \in Owners(pkt) THEN failed ELSE failed \cup {pkt.port}
    BY <1>5 DEF Lookup
  <2>2. p \in Pid \cup {NoPid}
    BY OwnersHold DEF Owners, Refused
  <2>3. pkt \in Packet
    BY <1>5 DEF Lookup
  <2>4. failed' \subseteq Port
    BY <2>1, <2>3, PacketShape
  <2> QED
    BY <1>5, <2>1, <2>2, <2>4 DEF Lookup
<1>6. CASE PutPid
  <2>1. pkt \in Packet /\ pid \in Pid
    BY <1>6 DEF PutPid
  <2>2. cache' \in [PidCacheKey -> PidCacheEntry \cup {NoEntry}]
    BY <1>6, <2>1, PacketShape DEF PutPid, CachePut, PidCacheEntry
  <2> QED
    BY <1>6, <2>2 DEF PutPid
<1>7. CASE Decide
  <2>1. pkt \in Packet
    BY <1>7 DEF Decide
  <2>2. failed' \subseteq Port
    BY <1>7, <2>1, PacketShape DEF Decide
  <2>3. verdict' \in {"Accept", "Drop"} /\ pc' \in {"add", "verdict"}
    BY <1>7 DEF Decide
  <2> QED
    BY <1>7, <2>2, <2>3 DEF Decide
<1>8. CASE AddConn
  <2>1. pkt \in Packet
    BY <1>8 DEF AddConn
  <2>2. conns' \in [Port -> ConnectionInfo \cup {NoEntry}]
    BY <1>8, <2>1, PacketShape DEF AddConn, Add, ConnectionInfo
  <2> QED
    BY <1>8, <2>2 DEF AddConn, MarkOf
<1>9. CASE GiveVerdict
  <2>1. pkt \in Packet
    BY <1>9 DEF GiveVerdict
  <2>2. Path \in {"dropped", "relay", "direct"}
    BY <2>1, PacketShape DEF Path
  <2>3. /\ nat' \in [Flow -> {"none", "relay", "direct"}] /\ since' \in [Flow -> Nat]
        /\ judged' \in [pkt : Packet, path : {"dropped", "relay", "direct", "lost"}]
    BY <1>9, <2>1, <2>2, PacketShape DEF GiveVerdict
  <2>4. failed' \subseteq Port
    BY <1>9, <2>1, PacketShape DEF GiveVerdict
  <2> QED
    BY <1>9, <2>3, <2>4 DEF GiveVerdict
<1>10. CASE CleanupConns
  BY <1>10 DEF CleanupConns, CleanupStale
<1>11. CASE CleanupPids
  BY <1>11 DEF CleanupPids, CacheCleanup
<1>12. ASSUME NEW p \in Pid, Exit(p) PROVE TypeInv'
  BY <1>12 DEF Exit
<1>13. ASSUME NEW p \in Pid, NEW prog \in Prog, Spawn(p, prog) PROVE TypeInv'
  BY <1>13 DEF Spawn
<1>14. ASSUME NEW b \in Binding, CloseSocket(b) PROVE TypeInv'
  BY <1>14 DEF CloseSocket
<1>15. ASSUME NEW b \in Binding, NEW p \in Pid, OpenSocket(p, b) PROVE TypeInv'
  <2>1. heldAt' \in [Holder -> Nat \cup {Never}]
    BY <1>15 DEF OpenSocket, Holder, HolderOf
  <2> QED
    BY <1>15, <2>1 DEF OpenSocket
<1>16. ASSUME NEW b \in Binding, NEW addr \in Addr, NEW dest \in Dest, NEW syn \in BOOLEAN,
              Send(b, addr, dest, syn)
       PROVE  TypeInv'
  <2>1. [proto |-> b.proto, syn |-> syn, addr |-> addr, port |-> b.port, dest |-> dest,
         pid |-> sock[b], prog |-> exe[sock[b]]] \in Packet
    BY <1>16 DEF Send, Packet
  <2>2. queue' \in Seq(Packet)
    BY <1>16, <2>1 DEF Send
  <2> QED
    BY <1>16, <2>2 DEF Send
<1>17. ASSUME NEW f \in Flow, ForgetFlow(f) PROVE TypeInv'
  BY <1>17 DEF ForgetFlow
<1>18. CASE Tick
  BY <1>18 DEF Tick
<1> QED
  BY <1>1, <1>2, <1>3, <1>4, <1>5, <1>6, <1>7, <1>8, <1>9, <1>10, <1>11, <1>12,
     <1>13, <1>14, <1>15, <1>16, <1>17, <1>18
     DEF Next, Thread, Cleaner, Environment

(* Every variable keeps to its type, a process that owns a socket runs.    *)
THEOREM TypeCorrect == Spec => []TypeOK
<1>1. Spec => []TypeInv
  BY TypeInit, TypeStep, PTL DEF Spec
<1>2. TypeInv => TypeOK
  BY DEF TypeInv
<1> QED
  BY <1>1, <1>2, PTL

-----------------------------------------------------------------------------
\* The tracker

EntryOf(k, t) == [src_ip |-> k.addr, dest |-> k.dest, last_activity |-> t]

(* Only the thread adds entries, so what it saw of its packet's port when  *)
(* it checked is_tracked still holds when it adds, and what it added is    *)
(* there, until the timeout, when the verdict redirects the flow.          *)
TrackerInv ==
    /\ pc \in {"cache", "lookup", "put", "name", "add"} => ~IsTracked(conns, pkt.port)
    /\ mark # 0 => pc = "verdict" /\ addedAt <= now
    /\ mark # 0 /\ now - addedAt < CONNECTION_TIMEOUT =>
           conns[pkt.port] = EntryOf(pkt, addedAt)
    /\ \A f \in Flow : nat[f] = "relay" /\ now - since[f] < CONNECTION_TIMEOUT =>
           conns[f.port] = EntryOf(f, since[f])

(* The two cleanup steps and the clock: no entry is older than its timeout *)
(* at the last run of the task.                                            *)
AgeInv ==
    /\ now <= nextCleanup /\ nextCleanup <= now + CLEANUP_INTERVAL
    /\ \A p \in Port : IsTracked(conns, p) =>
           IF cleaner = "sleep"
           THEN nextCleanup - conns[p].last_activity < CONNECTION_TIMEOUT + CLEANUP_INTERVAL
           ELSE now - conns[p].last_activity < CONNECTION_TIMEOUT

(* What is known of the PID in hand: it owned the socket at the lookup, or *)
(* it is the cache's claim of a recent owner.                              *)
InHandInv ==
    /\ pc \in {"recv", "track", "cache", "lookup"} => pid = NoPid
    /\ pc = "put" => heldAt[HolderOf(pkt.proto, pkt.port, pid)] >= startedAt
    /\ AttributionFresh

(* A cached PID held its socket when it was looked up, and the thread does *)
(* not take longer than Latency to put it into the cache.                  *)
AttributionInv ==
    /\ \A h \in Holder : heldAt[h] <= now /\ (Holds(h) => heldAt[h] = now)
    /\ \A k \in PidCacheKey : cache[k] # NoEntry =>
           LET last == heldAt[HolderOf(k.proto, k.port, cache[k].pid)] IN
               last # Never /\ cache[k].timestamp - last <= Latency
    /\ pc # "recv" => startedAt <= now /\ now - startedAt <= Latency
    /\ InHandInv

LEMMA EntryType ==
    ASSUME NEW k \in Packet \cup Flow, NEW t \in Nat
    PROVE  k.port \in Port /\ EntryOf(k, t) \in ConnectionInfo /\ EntryOf(k, t) # NoEntry
  BY NoEntryAssumption DEF Packet, Flow, EntryOf, ConnectionInfo

LEMMA TrackerInit == Init => TrackerInv
  BY NfQueueAssumption DEF Init, HostAtWork, TrackerInv

LEMMA TrackerStep == TypeInv /\ TrackerInv /\ [Next]_vars => TrackerInv'
<1> SUFFICES ASSUME TypeInv, TrackerInv, [Next]_vars PROVE TrackerInv'
  OBVIOUS
<1> USE TimeoutsAssumption, NoEntryAssumption
<1> USE DEF TypeInv, TypeOK, TrackerInv, thread, kernel, outcome, timer, IsTracked
<1>1. CASE UNCHANGED vars
  BY <1>1 DEF vars
<1>2. CASE Recv
  BY <1>2 DEF Recv
<1>3. CASE CheckTracked
  BY <1>3 DEF CheckTracked, Bypass
<1>4. CASE CacheGet \/ Lookup \/ PutPid \/ Decide
  BY <1>4 DEF CacheGet, Lookup, PutPid, Decide
<1>5. CASE AddConn
  <2>1. pkt \in Packet /\ mark = 0 /\ conns[pkt.port] = NoEntry
    BY <1>5 DEF AddConn
  <2>2. /\ conns'[pkt.port] = EntryOf(pkt, now)
        /\ \A p \in Port \ {pkt.port} : conns'[p] = conns[p]
    BY <1>5, <2>1, PacketShape DEF AddConn, Add, EntryOf
  <2>3. \A f \in Flow : nat[f] = "relay" /\ now - since[f] < CONNECTION_TIMEOUT =>
            f.port # pkt.port
    BY <2>1, EntryType
  <2> QED
    BY <1>5, <2>1, <2>2, <2>3 DEF AddConn, Flow
<1>6. CASE GiveVerdict
  <2>1. pkt \in Packet /\ FlowOf(pkt) \in Flow /\ FlowOf(pkt).port = pkt.port
    BY <1>6, PacketShape DEF GiveVerdict, FlowOf
  <2>2. PICK path \in {Path} \cup (IF VerdictMayFail THEN {"lost"} ELSE {}) :
            /\ nat' = IF path \in {"relay", "direct"}
                      THEN [nat EXCEPT ![FlowOf(pkt)] = path] ELSE nat
            /\ since' = IF path = "relay" /\ mark # 0
                        THEN [since EXCEPT ![FlowOf(pkt)] = addedAt] ELSE since
    BY <1>6 DEF GiveVerdict
  <2>3. UNCHANGED <<now, conns>> /\ mark' = 0 /\ pc' = "recv"
    BY <1>6 DEF GiveVerdict
  <2>4. ASSUME NEW f \in Flow, nat'[f] = "relay", now - since'[f] < CONNECTION_TIMEOUT
        PROVE  conns[f.port] = EntryOf(f, since'[f])
    <3>1. CASE f = FlowOf(pkt) /\ path = "relay" /\ mark # 0
      BY <2>1, <2>2, <2>4, <3>1 DEF FlowOf, EntryOf
    <3>2. CASE f = FlowOf(pkt) /\ path = "relay" /\ mark = 0
      <4>1. nat[f] = "relay"
        BY <2>1, <2>2, <3>2 DEF Path, MarkOf
      <4> QED
        BY <2>2, <2>4, <3>2, <4>1
    <3>3. CASE f # FlowOf(pkt) \/ path # "relay"
      BY <2>1, <2>2, <2>4, <3>3
    <3> QED
      BY <3>1, <3>2, <3>3
  <2> QED
    BY <2>3, <2>4
<1>7. CASE CleanupConns
  <2>1. \A p \in Port : conns[p] = NoEntry => conns'[p] = NoEntry
    BY <1>7 DEF CleanupConns, CleanupStale
  <2>2. ASSUME NEW p \in Port, NEW e \in ConnectionInfo, conns[p] = e,
               now - e.last_activity < CONNECTION_TIMEOUT
        PROVE  conns'[p] = e
    BY <1>7, <2>2 DEF CleanupConns, CleanupStale
  <2>3. UNCHANGED <<now, thread, outcome>>
    BY <1>7 DEF CleanupConns
  <2>4. pc \in {"cache", "lookup", "put", "name", "add"} => conns'[pkt.port] = NoEntry
    BY <2>1, PacketShape
  <2>5. mark # 0 /\ now - addedAt < CONNECTION_TIMEOUT => conns'[pkt.port] = EntryOf(pkt, addedAt)
    <3>1. SUFFICES ASSUME mark # 0, now - addedAt < CONNECTION_TIMEOUT
                   PROVE  conns'[pkt.port] = EntryOf(pkt, addedAt)
      OBVIOUS
    <3>2. pkt \in Packet /\ EntryOf(pkt, addedAt) \in ConnectionInfo
          /\ EntryOf(pkt, addedAt).last_activity = addedAt
      BY <3>1, EntryType DEF EntryOf
    <3> QED
      BY <2>2, <3>1, <3>2, EntryType
  <2>6. ASSUME NEW f \in Flow, nat[f] = "relay", now - since[f] < CONNECTION_TIMEOUT
        PROVE  conns'[f.port] = EntryOf(f, since[f])
    <3>1. since[f] \in Nat /\ EntryOf(f, since[f]).last_activity = since[f]
      BY DEF EntryOf
    <3> QED
      BY <2>2, <2>6, <3>1, EntryType
  <2> QED
    BY <2>3, <2>4, <2>5, <2>6
<1>8. ASSUME NEW f \in Flow, ForgetFlow(f) PROVE TrackerInv'
  BY <1>8 DEF ForgetFlow
<1>9. CASE Tick
  BY <1>9 DEF Tick
<1>10. CASE UNCHANGED <<now, conns, thread, outcome>>
  BY <1>10
<1>11. CASE CleanupPids
  BY <1>10, <1>11 DEF CleanupPids
<1>12. ASSUME NEW p \in Pid, Exit(p) \/ \E prog \in Prog : Spawn(p, prog)
       PROVE  UNCHANGED <<now, conns, thread, outcome>>
  BY <1>12 DEF Exit, Spawn
<1>13. ASSUME NEW b \in Binding, CloseSocket(b) \/ \E p \in Pid : OpenSocket(p, b)
       PROVE  UNCHANGED <<now, conns, thread, outcome>>
  BY <1>13 DEF CloseSocket, OpenSocket
<1>14. ASSUME NEW b \in Binding, NEW addr \in Addr, NEW dest \in Dest, NEW syn \in BOOLEAN,
              Send(b, addr, dest, syn)
       PROVE  UNCHANGED <<now, conns, thread, outcome>>
  BY <1>14 DEF Send
<1> HIDE DEF TypeInv, TypeOK, TrackerInv, thread, kernel, outcome, timer
<1> QED
  BY <1>1, <1>2, <1>3, <1>4, <1>5, <1>6, <1>7, <1>8, <1>9, <1>10, <1>11, <1>12,
     <1>13, <1>14 DEF Next, Thread, Cleaner, Environment

(* While a redirected flow is younger than CONNECTION_TIMEOUT, the tracker *)
(* answers a relay with that flow's destination.                           *)
THEOREM RelayWindowHolds == Spec => []RelayWindow
<1>1. Spec => [](TypeInv /\ TrackerInv)
  BY TypeInit, TypeStep, TrackerInit, TrackerStep, PTL DEF Spec
<1>2. TypeInv /\ TrackerInv => RelayWindow
  <2> SUFFICES ASSUME TypeInv, TrackerInv, NEW f \in Flow,
                      nat[f] = "relay", now - since[f] < CONNECTION_TIMEOUT
               PROVE  Get(conns, f.port) = f.dest
    BY DEF RelayWindow
  <2>1. conns[f.port] = EntryOf(f, since[f]) /\ since[f] \in Nat
    BY DEF TrackerInv, TypeInv, TypeOK
  <2> QED
    BY <2>1, EntryType DEF Get, IsTracked, EntryOf
<1> QED
  BY <1>1, <1>2, PTL

(* An entry of the tracker is removed before its port gets another one.    *)
THEOREM NeverRetargetedHolds == Spec => NeverRetargeted
<1> DEFINE Kept == \A p \in Port :
               IsTracked(conns, p) /\ IsTracked(conns', p) => conns'[p] = conns[p]
<1>1. Spec => [](TypeInv /\ TrackerInv)
  BY TypeInit, TypeStep, TrackerInit, TrackerStep, PTL DEF Spec
<1>2. TypeInv /\ TrackerInv /\ [Next]_vars => [Kept]_vars
  <2> SUFFICES ASSUME TypeInv, TrackerInv, Next PROVE Kept
    BY DEF vars
  <2>1. CASE AddConn
    <3>1. pkt \in Packet /\ ~IsTracked(conns, pkt.port)
      BY <2>1 DEF AddConn, TypeInv, TypeOK, TrackerInv
    <3>2. \A p \in Port \ {pkt.port} : conns'[p] = conns[p]
      BY <2>1 DEF AddConn, Add, TypeInv, TypeOK
    <3> QED
      BY <3>1, <3>2
  <2>2. CASE CleanupConns
    BY <2>2 DEF CleanupConns, CleanupStale, IsTracked
  <2>3. CASE UNCHANGED conns
    BY <2>3
  <2>4. CASE Thread /\ ~AddConn
    BY <2>3, <2>4
       DEF Thread, Recv, CheckTracked, CacheGet, Lookup, PutPid, Decide, GiveVerdict
  <2>5. CASE Environment \/ CleanupPids
    BY <2>3, <2>5
       DEF Environment, Exit, Spawn, CloseSocket, OpenSocket, Send, ForgetFlow, Tick, CleanupPids
  <2> QED
    BY <2>1, <2>2, <2>4, <2>5 DEF Next, Cleaner
<1> QED
  BY <1>1, <1>2, PTL DEF Spec, NeverRetargeted

LEMMA AgeInit == Init => AgeInv
  BY NfQueueAssumption DEF Init, AgeInv, IsTracked, Absent

LEMMA AgeStep == TypeInv /\ AgeInv /\ [Next]_vars => AgeInv'
<1> SUFFICES ASSUME TypeInv, AgeInv, [Next]_vars PROVE AgeInv'
  OBVIOUS
<1> USE NfQueueAssumption, TimeoutsAssumption
<1> USE DEF TypeInv, TypeOK, AgeInv, IsTracked
<1>1. CASE UNCHANGED <<now, timer, conns>>
  BY <1>1 DEF timer
<1>2. CASE AddConn
  <2>1. pkt \in Packet
    BY <1>2 DEF AddConn
  <2>2. /\ conns'[pkt.port].last_activity = now
        /\ \A p \in Port \ {pkt.port} : conns'[p] = conns[p]
    BY <1>2, <2>1, PacketShape DEF AddConn, Add
  <2>3. UNCHANGED <<now, cleaner, nextCleanup>>
    BY <1>2 DEF AddConn, timer
  <2>4. ASSUME NEW p \in Port, IsTracked(conns', p)
        PROVE  IF cleaner = "sleep"
               THEN nextCleanup - conns'[p].last_activity < CONNECTION_TIMEOUT + CLEANUP_INTERVAL
               ELSE now - conns'[p].last_activity < CONNECTION_TIMEOUT
    <3>1. CASE p = pkt.port
      BY <2>2, <3>1
    <3>2. CASE p # pkt.port
      BY <2>2, <2>4, <3>2
    <3> QED
      BY <3>1, <3>2
  <2> QED
    BY <2>3, <2>4
<1>3. CASE CleanupConns
  BY <1>3 DEF CleanupConns, CleanupStale
<1>4. CASE CleanupPids
  <2>1. ASSUME NEW p \in Port, IsTracked(conns, p)
        PROVE  now + CLEANUP_INTERVAL - conns[p].last_activity
                   < CONNECTION_TIMEOUT + CLEANUP_INTERVAL
    <3>1. conns[p].last_activity \in Nat
      BY <2>1 DEF ConnectionInfo
    <3>2. now - conns[p].last_activity < CONNECTION_TIMEOUT
      BY <1>4, <2>1 DEF CleanupPids
    <3> QED
      BY <3>1, <3>2
  <2>2. /\ UNCHANGED <<now, conns>> /\ cleaner' = "sleep"
        /\ nextCleanup' = now + CLEANUP_INTERVAL
    BY <1>4 DEF CleanupPids
  <2>3. now' <= nextCleanup' /\ nextCleanup' <= now' + CLEANUP_INTERVAL
    BY <2>2
  <2>4. ASSUME NEW p \in Port, IsTracked(conns', p)
        PROVE  nextCleanup' - conns'[p].last_activity < CONNECTION_TIMEOUT + CLEANUP_INTERVAL
    <3>1. IsTracked(conns, p) /\ conns'[p] = conns[p]
      BY <2>2, <2>4
    <3>2. conns[p].last_activity \in Nat
      BY <3>1 DEF ConnectionInfo
    <3> QED
      BY <2>1, <2>2, <3>1, <3>2
  <2> QED
    BY <2>2, <2>3, <2>4
<1>5. CASE Tick
  BY <1>5 DEF Tick, timer
<1>6. CASE Thread /\ ~AddConn
  BY <1>1, <1>6
     DEF Thread, Recv, CheckTracked, CacheGet, Lookup, PutPid, Decide, GiveVerdict
<1>7. CASE Environment /\ ~Tick
  BY <1>1, <1>7 DEF Environment, Exit, Spawn, CloseSocket, OpenSocket, Send, ForgetFlow
<1>8. CASE UNCHANGED vars
  BY <1>1, <1>8 DEF vars
<1> QED
  BY <1>2, <1>3, <1>4, <1>5, <1>6, <1>7, <1>8 DEF Next, Cleaner

(* No entry of the tracker gets as old as its timeout and a full interval  *)
(* of the cleanup task.                                                    *)
THEOREM AgeBoundHolds == Spec => []AgeBound
<1>1. Spec => [](TypeInv /\ AgeInv)
  BY TypeInit, TypeStep, AgeInit, AgeStep, PTL DEF Spec
<1>2. TypeInv /\ AgeInv => AgeBound
  <2> SUFFICES ASSUME TypeInv, AgeInv, NEW p \in Port, IsTracked(conns, p)
               PROVE  now - conns[p].last_activity < CONNECTION_TIMEOUT + CLEANUP_INTERVAL
    BY DEF AgeBound
  <2>1. conns[p].last_activity \in Nat
    BY DEF TypeInv, TypeOK, IsTracked, ConnectionInfo
  <2> QED
    BY <2>1, NfQueueAssumption, TimeoutsAssumption DEF AgeInv, TypeInv, TypeOK
<1> QED
  BY <1>1, <1>2, PTL

-----------------------------------------------------------------------------
\* The PID cache

LEMMA AttributionInit == Init => AttributionInv
<1> SUFFICES ASSUME Init PROVE AttributionInv
  OBVIOUS
<1>1. \A h \in Holder : heldAt[h] <= now /\ (Holds(h) => heldAt[h] = now)
  BY DEF Init, Never
<1>2. \A k \in PidCacheKey : cache[k] = NoEntry
  BY DEF Init, Absent
<1> QED
  BY <1>1, <1>2 DEF Init, AttributionInv, InHandInv, AttributionFresh

(* The moments at which processes held their sockets only move forward.    *)
LEMMA HeldAtGrows ==
    ASSUME TypeInv, AttributionInv, [Next]_vars, NEW h \in Holder
    PROVE  /\ heldAt[h] \in Nat \cup {Never} /\ heldAt'[h] \in Nat \cup {Never}
           /\ heldAt'[h] >= heldAt[h]
<1> USE DEF TypeInv, TypeOK, AttributionInv, Never
<1>1. TypeInv'
  BY TypeStep
<1>2. CASE UNCHANGED heldAt
  BY <1>1, <1>2
<1>3. ASSUME NEW p \in Pid, NEW b \in Binding, OpenSocket(p, b) PROVE heldAt'[h] >= heldAt[h]
  <2>1. heldAt'[h] = heldAt[h] \/ heldAt'[h] = now
    BY <1>3 DEF OpenSocket
  <2>2. now \in Nat /\ heldAt[h] \in Nat \cup {Never} /\ heldAt[h] <= now
    OBVIOUS
  <2> HIDE DEF TypeInv, TypeOK, AttributionInv
  <2> QED
    BY <2>1, <2>2
<1>4. CASE Tick
  <2>1. heldAt'[h] = heldAt[h] \/ heldAt'[h] = now + 1
    BY <1>4 DEF Tick
  <2>2. now \in Nat /\ heldAt[h] \in Nat \cup {Never} /\ heldAt[h] <= now
    OBVIOUS
  <2> HIDE DEF TypeInv, TypeOK, AttributionInv
  <2> QED
    BY <2>1, <2>2
<1>5. CASE Thread \/ Cleaner
  BY <1>2, <1>5
     DEF Thread, Recv, CheckTracked, CacheGet, Lookup, PutPid, Decide, AddConn, GiveVerdict,
         Cleaner, CleanupConns, CleanupPids, kernel
<1>6. ASSUME NEW p \in Pid, Exit(p) \/ \E prog \in Prog : Spawn(p, prog)
      PROVE  heldAt'[h] >= heldAt[h]
  BY <1>2, <1>6 DEF Exit, Spawn
<1>7. CASE UNCHANGED vars
  BY <1>2, <1>7 DEF vars, kernel
<1>8. ASSUME NEW b \in Binding,
             \/ CloseSocket(b)
             \/ \E addr \in Addr, dest \in Dest, syn \in BOOLEAN : Send(b, addr, dest, syn)
      PROVE  heldAt'[h] >= heldAt[h]
  BY <1>2, <1>8 DEF CloseSocket, Send, kernel
<1>9. ASSUME NEW f \in Flow, ForgetFlow(f) PROVE heldAt'[h] >= heldAt[h]
  BY <1>2, <1>9 DEF ForgetFlow, kernel
<1> HIDE DEF TypeInv, TypeOK, AttributionInv
<1>10. heldAt'[h] >= heldAt[h]
  BY <1>3, <1>4, <1>5, <1>6, <1>7, <1>8, <1>9 DEF Next, Environment
<1> QED
  BY <1>1, <1>10 DEF TypeInv, TypeOK

(* Holding a socket is being seen to hold it, at every step.               *)
LEMMA HoldsStep ==
    ASSUME TypeInv, AttributionInv, [Next]_vars, NEW h \in Holder
    PROVE  heldAt'[h] <= now' /\ (Holds(h)' => heldAt'[h] = now')
<1> USE NfQueueAssumption DEF TypeInv, TypeOK, AttributionInv, Never
<1>1. CASE UNCHANGED <<now, sock, heldAt>>
  BY <1>1 DEF Holds
<1>2. ASSUME NEW p \in Pid, NEW b \in Binding, OpenSocket(p, b)
      PROVE  heldAt'[h] <= now' /\ (Holds(h)' => heldAt'[h] = now')
  <2>1. HolderOf(b.proto, b.port, p) \in Holder /\ now' = now
    BY <1>2 DEF HolderOf, Holder, OpenSocket
  <2>2. CASE h = HolderOf(b.proto, b.port, p)
    BY <1>2, <2>1, <2>2 DEF OpenSocket
  <2>3. CASE h # HolderOf(b.proto, b.port, p)
    <3>1. heldAt'[h] = heldAt[h]
      BY <1>2, <2>1, <2>3 DEF OpenSocket
    <3>2. Holds(h)' => Holds(h)
      BY <1>2, <2>3 DEF OpenSocket, Holds, HolderOf, Holder
    <3> QED
      BY <2>1, <3>1, <3>2
  <2> QED
    BY <2>2, <2>3
<1>3. CASE Tick
  <2>1. /\ now' = now + 1 /\ heldAt'[h] = IF Holds(h) THEN now + 1 ELSE heldAt[h]
        /\ sock' = sock
    BY <1>3 DEF Tick
  <2>2. Holds(h)' <=> Holds(h)
    BY <2>1 DEF Holds
  <2>3. heldAt[h] <= now /\ heldAt[h] \in Int /\ now \in Int
    OBVIOUS
  <2>4. CASE Holds(h)
    <3>1. heldAt'[h] = now'
      BY <2>1, <2>4
    <3> QED
      BY <2>1, <2>3, <3>1
  <2>5. CASE ~Holds(h)
    <3>1. heldAt'[h] <= now'
      BY <2>1, <2>3, <2>5
    <3> QED
      BY <2>2, <2>5, <3>1
  <2> QED
    BY <2>4, <2>5
<1>4. ASSUME NEW p \in Pid, Exit(p)
      PROVE  heldAt'[h] <= now' /\ (Holds(h)' => heldAt'[h] = now')
  BY <1>4 DEF Exit, Holds, Holder
<1>5. ASSUME NEW b \in Binding, CloseSocket(b)
      PROVE  heldAt'[h] <= now' /\ (Holds(h)' => heldAt'[h] = now')
  BY <1>5 DEF CloseSocket, Holds, Holder
<1>6. CASE Thread \/ Cleaner
  BY <1>1, <1>6
     DEF Thread, Recv, CheckTracked, CacheGet, Lookup, PutPid, Decide, AddConn, GiveVerdict,
         Cleaner, CleanupConns, CleanupPids, kernel
<1>7. ASSUME NEW p \in Pid, NEW prog \in Prog, Spawn(p, prog)
      PROVE  heldAt'[h] <= now' /\ (Holds(h)' => heldAt'[h] = now')
  BY <1>1, <1>7 DEF Spawn
<1>8. ASSUME NEW b \in Binding, NEW addr \in Addr, NEW dest \in Dest, NEW syn \in BOOLEAN,
             Send(b, addr, dest, syn)
      PROVE  heldAt'[h] <= now' /\ (Holds(h)' => heldAt'[h] = now')
  BY <1>1, <1>8 DEF Send, kernel
<1>9. ASSUME NEW f \in Flow, ForgetFlow(f)
      PROVE  heldAt'[h] <= now' /\ (Holds(h)' => heldAt'[h] = now')
  BY <1>1, <1>9 DEF ForgetFlow, kernel
<1>10. CASE UNCHANGED vars
  BY <1>1, <1>10 DEF vars, kernel
<1> QED
  BY <1>2, <1>3, <1>4, <1>5, <1>6, <1>7, <1>8, <1>9, <1>10 DEF Next, Environment

LEMMA CacheStep ==
    ASSUME TypeInv, AttributionInv, [Next]_vars, NEW k \in PidCacheKey, cache'[k] # NoEntry
    PROVE  LET last == heldAt'[HolderOf(k.proto, k.port, cache'[k].pid)] IN
               last # Never /\ cache'[k].timestamp - last <= Latency
<1> USE NfQueueAssumption, NoEntryAssumption
<1> USE DEF TypeInv, TypeOK, AttributionInv, Never
<1>1. ASSUME cache'[k] = cache[k]
      PROVE  LET last == heldAt'[HolderOf(k.proto, k.port, cache'[k].pid)] IN
                 last # Never /\ cache'[k].timestamp - last <= Latency
  <2>1. cache[k].pid \in Pid /\ cache[k].timestamp \in Nat
    BY <1>1 DEF PidCacheEntry
  <2> DEFINE h == HolderOf(k.proto, k.port, cache[k].pid)
  <2>2. h \in Holder
    BY <2>1 DEF HolderOf, Holder, PidCacheKey
  <2>3. heldAt[h] # Never /\ cache[k].timestamp - heldAt[h] <= Latency
    BY <1>1
  <2>4. /\ heldAt[h] \in Nat \cup {Never} /\ heldAt'[h] \in Nat \cup {Never}
        /\ heldAt'[h] >= heldAt[h]
    BY <2>2, HeldAtGrows
  <2> HIDE DEF h
  <2>5. heldAt'[h] # Never /\ cache[k].timestamp - heldAt'[h] <= Latency
    BY <2>1, <2>3, <2>4
  <2> QED
    BY <1>1, <2>5 DEF h
<1>2. CASE PutPid
  <2>1. pkt \in Packet /\ pid \in Pid /\ UNCHANGED heldAt
    BY <1>2 DEF PutPid, kernel
  <2> DEFINE h == HolderOf(pkt.proto, pkt.port, pid)
  <2>2. h \in Holder
    BY <2>1, PacketShape
  <2>3. CASE k = KeyOf(pkt)
    <3>1. cache'[k] = [pid |-> pid, timestamp |-> now]
      BY <1>2, <2>3 DEF PutPid, CachePut
    <3>2. k.proto = pkt.proto /\ k.port = pkt.port
      BY <2>3 DEF KeyOf
    <3>3. heldAt[h] >= startedAt /\ now - startedAt <= Latency
      BY <1>2 DEF PutPid, InHandInv
    <3>4. heldAt[h] \in Nat \cup {Never}
      BY <2>2
    <3> HIDE DEF h
    <3>5. heldAt[h] # Never /\ now - heldAt[h] <= Latency
      BY <3>3, <3>4
    <3> QED
      BY <2>1, <3>1, <3>2, <3>5 DEF h
  <2>4. CASE k # KeyOf(pkt)
    BY <1>1, <1>2, <2>4 DEF PutPid, CachePut
  <2> QED
    BY <2>3, <2>4
<1>3. CASE CleanupPids
  BY <1>1, <1>3 DEF CleanupPids, CacheCleanup
<1>4. CASE (Thread /\ ~PutPid) \/ CleanupConns
  BY <1>1, <1>4
     DEF Thread, Recv, CheckTracked, CacheGet, Lookup, Decide, AddConn, GiveVerdict, CleanupConns
<1>5. CASE Environment
  BY <1>1, <1>5
     DEF Environment, Exit, Spawn, CloseSocket, OpenSocket, Send, ForgetFlow, Tick
<1>6. CASE UNCHANGED vars
  BY <1>1, <1>6 DEF vars
<1> QED
  BY <1>2, <1>3, <1>4, <1>5, <1>6 DEF Next, Cleaner

(* What happens outside, the clock apart, leaves the thread alone.         *)
LEMMA OthersWait ==
    ASSUME Environment, ~Tick
    PROVE  UNCHANGED <<now, thread, pc, pkt, pid, verdict, mark, startedAt>>
<1>1. ASSUME NEW p \in Pid, Exit(p) PROVE UNCHANGED <<now, thread>>
  BY <1>1 DEF Exit
<1>2. ASSUME NEW p \in Pid, NEW prog \in Prog, Spawn(p, prog) PROVE UNCHANGED <<now, thread>>
  BY <1>2 DEF Spawn
<1>3. ASSUME NEW b \in Binding, CloseSocket(b) PROVE UNCHANGED <<now, thread>>
  BY <1>3 DEF CloseSocket
<1>4. ASSUME NEW b \in Binding, NEW p \in Pid, OpenSocket(p, b) PROVE UNCHANGED <<now, thread>>
  BY <1>4 DEF OpenSocket
<1>5. ASSUME NEW b \in Binding, NEW addr \in Addr, NEW dest \in Dest, NEW syn \in BOOLEAN,
             Send(b, addr, dest, syn)
      PROVE  UNCHANGED <<now, thread>>
  BY <1>5 DEF Send
<1>6. ASSUME NEW f \in Flow, ForgetFlow(f) PROVE UNCHANGED <<now, thread>>
  BY <1>6 DEF ForgetFlow
<1>7. UNCHANGED <<now, thread>>
  BY <1>1, <1>2, <1>3, <1>4, <1>5, <1>6 DEF Environment
<1> QED
  BY <1>7 DEF thread

LEMMA LatencyStep ==
    ASSUME TypeInv, AttributionInv, [Next]_vars, pc' # "recv"
    PROVE  startedAt' <= now' /\ now' - startedAt' <= Latency
<1> USE NfQueueAssumption DEF TypeInv, TypeOK, AttributionInv
<1>1. CASE Tick
  BY <1>1 DEF Tick, thread
<1>2. CASE Recv
  BY <1>2 DEF Recv
<1>3. CASE Thread /\ ~Recv
  BY <1>3
     DEF Thread, CheckTracked, CacheGet, Lookup, PutPid, Decide, AddConn, GiveVerdict
<1>4. CASE UNCHANGED <<now, pc, startedAt>>
  BY <1>4
<1>5. CASE Cleaner \/ UNCHANGED vars
  BY <1>4, <1>5 DEF Cleaner, CleanupConns, CleanupPids, thread, vars
<1>6. CASE Environment /\ ~Tick
  <2> HIDE DEF TypeInv, TypeOK, AttributionInv
  <2>1. UNCHANGED <<now, pc, startedAt>>
    BY <1>6, OthersWait
  <2> QED
    BY <1>4, <2>1
<1> QED
  BY <1>1, <1>2, <1>3, <1>5, <1>6 DEF Next

LEMMA InHandStep ==
    ASSUME TypeInv, AttributionInv, [Next]_vars
    PROVE  InHandInv'
<1> USE NfQueueAssumption, NoEntryAssumption, TimeoutsAssumption
<1> USE DEF Never
<1>0. PID_CACHE_TTL \in Nat /\ Latency \in Nat /\ 0 < PID_CACHE_TTL + Latency
  OBVIOUS
<1> DEFINE Keeps == /\ pkt' = pkt /\ pid' = pid /\ startedAt' = startedAt
                    /\ \/ pc' = pc
                       \/ /\ pc # "recv" /\ (pc' \in {"track", "cache"} => pid = NoPid)
                          /\ pc' \notin {"recv", "put", "lookup"}
<1>1. ASSUME Keeps PROVE InHandInv'
  <2> USE DEF TypeInv, TypeOK, AttributionInv, InHandInv
  <2> DEFINE h == HolderOf(pkt.proto, pkt.port, pid)
  <2>1. CASE pc = "recv" \/ pid = NoPid
    BY <1>1, <2>1 DEF AttributionFresh
  <2>2. CASE pc # "recv" /\ pid # NoPid
    <3>1. h \in Holder /\ startedAt \in Nat
      BY <2>2, PacketShape
    <3>2. heldAt[h] # Never /\ startedAt - heldAt[h] < PID_CACHE_TTL + Latency
      BY <2>2 DEF AttributionFresh
    <3>3. /\ heldAt[h] \in Nat \cup {Never} /\ heldAt'[h] \in Nat \cup {Never}
          /\ heldAt'[h] >= heldAt[h]
      BY <3>1, HeldAtGrows
    <3>4. pc' = "put" => heldAt[h] >= startedAt
      BY <1>1
    <3> HIDE DEF h
    <3>5. /\ heldAt'[h] # Never /\ startedAt - heldAt'[h] < PID_CACHE_TTL + Latency
          /\ pc' = "put" => heldAt'[h] >= startedAt
      BY <3>1, <3>2, <3>3, <3>4
    <3> QED
      BY <1>1, <2>2, <3>5 DEF h, AttributionFresh
  <2> QED
    BY <2>1, <2>2
<1>2. CASE Recv \/ GiveVerdict
  BY <1>2 DEF Recv, GiveVerdict, InHandInv, AttributionInv, AttributionFresh
<1>3. CASE CacheGet
  <2> DEFINE key == KeyOf(pkt)
  <2>1. /\ pkt \in Packet /\ key \in PidCacheKey
        /\ UNCHANGED <<pkt, startedAt, heldAt>> /\ pc' \in {"name", "lookup"}
        /\ startedAt <= now /\ startedAt \in Nat /\ now \in Nat
    BY <1>3, PacketShape DEF CacheGet, TypeInv, TypeOK, AttributionInv, kernel
  <2>2. CASE CachedPid(cache, key, now) = NoEntry
    BY <1>3, <2>2 DEF CacheGet, InHandInv, AttributionFresh
  <2>3. CASE CachedPid(cache, key, now) # NoEntry
    <3> DEFINE last == heldAt[HolderOf(pkt.proto, pkt.port, cache[key].pid)]
    <3>1. /\ cache[key] \in PidCacheEntry /\ now - cache[key].timestamp < PID_CACHE_TTL
          /\ pid' = cache[key].pid /\ pc' = "name"
      BY <1>3, <2>1, <2>3 DEF CacheGet, CachedPid, TypeInv, TypeOK
    <3>2. last # Never /\ cache[key].timestamp - last <= Latency
      BY <2>1, <3>1, NoEntryAssumption DEF AttributionInv, KeyOf
    <3>3. last \in Nat \cup {Never} /\ cache[key].timestamp \in Nat
      BY <2>1, <3>1, PacketShape DEF TypeInv, TypeOK, PidCacheEntry
    <3> HIDE DEF last
    <3>4. startedAt - last < PID_CACHE_TTL + Latency
      BY <2>1, <3>1, <3>2, <3>3
    <3> QED
      BY <2>1, <3>1, <3>2, <3>4 DEF last, InHandInv, AttributionFresh
  <2> QED
    BY <2>2, <2>3
<1>4. CASE Lookup
  <2>1. /\ pkt \in Packet /\ UNCHANGED <<pkt, startedAt, heldAt>>
        /\ startedAt <= now /\ startedAt \in Nat /\ now \in Nat
    BY <1>4 DEF Lookup, TypeInv, TypeOK, AttributionInv, kernel
  <2>2. PICK q \in Owners(pkt) \cup Refused(pkt) : pid' = q /\ pc' = IF q = NoPid THEN "verdict" ELSE "put"
    BY <1>4 DEF Lookup
  <2>3. CASE q = NoPid
    BY <2>1, <2>2, <2>3 DEF InHandInv, AttributionFresh
  <2>4. CASE q # NoPid
    <3> DEFINE last == heldAt[HolderOf(pkt.proto, pkt.port, q)]
    <3>1. q \in ExactOwner(pkt) \cup UdpPortOwner(pkt)
      BY <2>2, <2>4 DEF Owners, Refused
    <3>2. q \in Pid /\ Holds(HolderOf(pkt.proto, pkt.port, q))
      BY <3>1, OwnersHold DEF TypeInv, TypeOK
    <3>3. last = now
      BY <2>1, <3>2, PacketShape DEF AttributionInv
    <3> HIDE DEF last
    <3>4. last # Never /\ startedAt - last < PID_CACHE_TTL + Latency /\ last >= startedAt
      BY <1>0, <2>1, <3>3
    <3> QED
      BY <2>1, <2>2, <2>4, <3>4 DEF last, InHandInv, AttributionFresh
  <2> QED
    BY <2>3, <2>4
<1>5. CASE CheckTracked
  BY <1>1, <1>5 DEF CheckTracked, AttributionInv, InHandInv
<1>6. CASE PutPid \/ Decide \/ AddConn
  BY <1>1, <1>6 DEF PutPid, Decide, AddConn
<1>7. CASE UNCHANGED thread
  <2>1. Keeps
    BY <1>7 DEF thread
  <2> HIDE DEF Keeps
  <2> QED
    BY <1>1, <2>1
<1>8. CASE Cleaner \/ Environment
  BY <1>7, <1>8 DEF Cleaner, CleanupConns, CleanupPids,
       Environment, Exit, Spawn, CloseSocket, OpenSocket, Send, ForgetFlow, Tick
<1>9. CASE UNCHANGED vars
  BY <1>7, <1>9 DEF vars
<1> QED
  BY <1>2, <1>3, <1>4, <1>5, <1>6, <1>8, <1>9 DEF Next, Thread

LEMMA AttributionStep == TypeInv /\ AttributionInv /\ [Next]_vars => AttributionInv'
<1> SUFFICES ASSUME TypeInv, AttributionInv, [Next]_vars PROVE AttributionInv'
  OBVIOUS
<1>1. \A h \in Holder : heldAt'[h] <= now' /\ (Holds(h)' => heldAt'[h] = now')
  BY HoldsStep
<1>2. \A k \in PidCacheKey : cache'[k] # NoEntry =>
          LET last == heldAt'[HolderOf(k.proto, k.port, cache'[k].pid)] IN
              last # Never /\ cache'[k].timestamp - last <= Latency
  BY CacheStep
<1>3. pc' # "recv" => startedAt' <= now' /\ now' - startedAt' <= Latency
  BY LatencyStep
<1> QED
  BY <1>1, <1>2, <1>3, InHandStep DEF AttributionInv

(* A packet is judged by a process that held a socket on its port within a *)
(* cache lifetime and one packet's processing time of its arrival.         *)
THEOREM AttributionFreshHolds == Spec => []AttributionFresh
<1>1. Spec => [](TypeInv /\ AttributionInv)
  BY TypeInit, TypeStep, AttributionInit, AttributionStep, PTL DEF Spec
<1>2. AttributionInv => AttributionFresh
  BY DEF AttributionInv, InHandInv
<1> QED
  BY <1>1, <1>2, PTL
=============================================================================
