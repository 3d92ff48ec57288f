--------------------------- MODULE UdpRelayProofs ---------------------------
(***************************************************************************)
(* Theorems about UdpRelay, for every value of its constants: type         *)
(* correctness; that an association a send has failed on is not used; and  *)
(* where replies go, whoever shares a destination with whom.               *)
(***************************************************************************)
EXTENDS UdpRelay, ProxyClientProofs

(* What TypeOK leaves open: after the handshake conv stays "ready" in the  *)
(* loop, and UDP ASSOCIATE has no HTTP header to read.                     *)
TalkInv ==
    /\ TypeOK
    /\ conv.at # "header"
    /\ (pc = "reply" => conv.at = "ready")

(* A failed send leaves the loop no relay address. *)
FailedInv == failed => ~connected

(* Everything under way belongs to a client that uses its destination, and *)
(* so does every entry of the tracker.                                     *)
Meant(d) == d.dest \in Reach[d.port]

RouteInv ==
    /\ \A i \in 1..Len(inbox) : Meant(inbox[i])
    /\ \A i \in 1..Len(replies) : Meant(replies[i])
    /\ \A d \in atProxy : Meant(d)
    /\ \A p \in Port : IsTracked(conns, p) => conns[p].dest \in Reach[p]
    /\ ReplyToAsker

-----------------------------------------------------------------------------
\* Type correctness

LEMMA ConfigTyped == config \in Config /\ config.cmd = "associate"
  BY UdpRelayAssumption DEF config, Config

LEMMA AddTyped ==
    ASSUME conns \in [Port -> ConnectionInfo \cup {NoEntry}], now \in Nat,
           NEW p \in Port, NEW d \in Dest
    PROVE  Add(conns, p, LocalAddr, d, now) \in [Port -> ConnectionInfo \cup {NoEntry}]
  BY UdpRelayAssumption DEF Add, ConnectionInfo

(* The reads of this handshake do not come to a header. *)
LEMMA ReadsOn ==
    ASSUME NEW v \in Conversation(Answer), Handshaking(v), v.at # "header", NEW w \in Reads(v, config)
    PROVE  /\ w \in Conversation(Answer)
           /\ w.at \in {"auth", "reply", "ready", "failed"}
<1>1. w \in Conversation(Answer)
  BY ConfigTyped, ReadsFit
<1>2. v.at \in {"method", "auth", "reply"}
  BY DEF Handshaking
<1>3. CASE w = Failed
  BY <1>1, <1>3 DEF Failed, Fresh
<1>4. CASE w # Failed
  <2>1. v.stream # <<>>
    BY <1>4 DEF Reads
  <2>2. CASE v.at = "method"
    BY <1>1, <1>4, <2>1, <2>2 DEF Reads, AfterMethod, Ask, Conversation
  <2>3. CASE v.at = "auth"
    BY <1>1, <1>4, <2>1, <2>3 DEF Reads, AfterAuth, Ask, Conversation
  <2>4. CASE v.at = "reply"
    BY <1>1, <1>4, <2>1, <2>4 DEF Reads, AfterReply, Conversation
  <2> QED
    BY <1>2, <2>2, <2>3, <2>4
<1> QED
  BY <1>1, <1>3, <1>4

LEMMA TypeInit == Init => TalkInv
<1> SUFFICES ASSUME Init PROVE TalkInv
  OBVIOUS
<1>1. conv \in Conversation(Answer) /\ ~Handshaking(conv) /\ conv.at # "header"
  BY StartFits DEF Init, Fresh, Handshaking
<1>2. conns \in [Port -> ConnectionInfo \cup {NoEntry}]
  BY DEF Init, Absent
<1>3. read \in Delivery \cup {NoEntry}
  BY DEF Init
<1>4. inbox \in Seq(Datagram) /\ replies \in Seq(Datagram)
  BY DEF Init
<1> QED
  BY <1>1, <1>2, <1>3, <1>4 DEF Init, TalkInv, TypeOK

LEMMA TypeStep == TalkInv /\ [Next]_vars => TalkInv'
<1> SUFFICES ASSUME TalkInv, [Next]_vars PROVE TalkInv'
  OBVIOUS
<1> USE DEF TalkInv, TypeOK, network
<1>1. CASE UNCHANGED vars
  BY <1>1 DEF vars
<1>2. CASE RecvClient
  <2>1. Head(inbox) \in Datagram /\ Tail(inbox) \in Seq(Datagram)
    BY <1>2 DEF RecvClient
  <2>2. atProxy' \subseteq Datagram
    <3>1. Get(conns, Head(inbox).port) \in Dest \cup {NoEntry}
      BY <2>1 DEF Get, IsTracked, Datagram, ConnectionInfo
    <3>2. Get(conns, Head(inbox).port) # NoEntry =>
              [port |-> Head(inbox).port, dest |-> Get(conns, Head(inbox).port)] \in Datagram
      BY <2>1, <3>1 DEF Datagram
    <3> QED
      BY <1>2, <3>2 DEF RecvClient
  <2>3. connected' \in BOOLEAN /\ failed' \in BOOLEAN
    BY <1>2 DEF RecvClient
  <2> QED
    BY <1>2, <2>1, <2>2, <2>3 DEF RecvClient
<1>3. CASE RecvNothing
  BY <1>3 DEF RecvNothing
<1>4. CASE ReadReply
  <2>1. Head(replies) \in Datagram /\ Tail(replies) \in Seq(Datagram)
    BY <1>4 DEF ReadReply
  <2>2. read' \in Delivery \cup {NoEntry}
    <3>1. CASE UNCHANGED read
      BY <3>1
    <3>2. ASSUME NEW to \in Port \cup {NoPort},
                 read' = [from |-> Head(replies).dest, asker |-> Head(replies).port, to |-> to,
                          expired |-> Get(conns, Head(replies).port) # Head(replies).dest]
          PROVE  read' \in Delivery
      BY <2>1, <3>2 DEF Datagram, Delivery
    <3> QED
      BY <1>4, <3>1, <3>2 DEF ReadReply, FindByDest
  <2>3. pc' \in {"recv", "connect"} /\ (pc' = "recv" => connected) /\ (pc' = "connect" => ~connected)
    BY <1>4 DEF ReadReply, Top
  <2>4. conv.at = "ready" /\ ~Handshaking(conv)
    BY <1>4 DEF ReadReply, Handshaking
  <2> QED
    BY <1>4, <2>1, <2>2, <2>3, <2>4 DEF ReadReply
<1>5. CASE ReplyNothing
  <2>1. pc' \in {"recv", "connect"} /\ (pc' = "recv" => connected) /\ (pc' = "connect" => ~connected)
    BY <1>5 DEF ReplyNothing, Top
  <2>2. conv.at = "ready" /\ ~Handshaking(conv)
    BY <1>5 DEF ReplyNothing, Handshaking
  <2> QED
    BY <1>5, <2>1, <2>2 DEF ReplyNothing
<1>6. CASE WakeUp
  BY <1>6 DEF WakeUp
<1>7. CASE Handshake
  <2>1. PICK v \in Outcomes :
            /\ conv' = v
            /\ \/ /\ v.at = "ready"
                  /\ connected' = TRUE /\ replies' = <<>>
                  /\ failed' = FALSE
                  /\ pc' = "recv"
               \/ /\ v.at # "ready"
                  /\ pc' = IF v.at = "failed" THEN "sleep" ELSE "handshake"
                  /\ UNCHANGED <<connected, replies, failed>>
    BY <1>7 DEF Handshake
  <2>2. conv' \in Conversation(Answer) /\ conv'.at \in {"auth", "reply", "ready", "failed"}
    <3>1. CASE v = Failed
      BY <2>1, <3>1, StartFits DEF Failed, Fresh
    <3>2. CASE v \in Reads(conv, config)
      BY <1>7, <2>1, <3>2, ReadsOn DEF Handshake
    <3> QED
      BY <2>1, <3>1, <3>2 DEF Outcomes
  <2>3. UNCHANGED <<now, conns, network, atProxy, read>>
    BY <1>7 DEF Handshake
  <2>4. CASE conv'.at = "ready"
    <3>1. connected' = TRUE /\ replies' = <<>> /\ failed' = FALSE /\ pc' = "recv"
      BY <2>1, <2>4
    <3>2. replies' \in Seq(Datagram) /\ ~Handshaking(conv')
      BY <2>4, <3>1 DEF Handshaking
    <3> QED
      BY <2>2, <2>3, <2>4, <3>1, <3>2 DEF Handshaking
  <2>5. CASE conv'.at # "ready"
    BY <1>7, <2>1, <2>2, <2>3, <2>5 DEF Handshake, Handshaking
  <2> QED
    BY <2>4, <2>5
<1>8. CASE Connect
  <2>1. conv' \in Conversation(Answer) /\ conv'.at = "method"
    BY <1>8, ConfigTyped, StartFits DEF Connect, Begin, Fresh
  <2> QED
    BY <1>8, <2>1 DEF Connect, Handshaking
<1>9. CASE ConnectFails
  <2>1. conv' \in Conversation(Answer) /\ conv'.at = "failed"
    BY <1>9, StartFits DEF ConnectFails, Failed, Fresh
  <2> QED
    BY <1>9, <2>1 DEF ConnectFails, Handshaking
<1>10. ASSUME NEW p \in Port, NEW d \in Dest, ClientSend(p, d) PROVE TalkInv'
  <2>1. [port |-> p, dest |-> d] \in Datagram
    BY DEF Datagram
  <2>2. conns' \in [Port -> ConnectionInfo \cup {NoEntry}]
    BY <1>10, AddTyped DEF ClientSend
  <2>3. inbox' \in Seq(Datagram) /\ redirected' \subseteq Datagram
    BY <1>10, <2>1 DEF ClientSend
  <2> QED
    BY <1>10, <2>2, <2>3 DEF ClientSend
<1>11. ASSUME NEW f \in redirected, ForgetFlow(f) PROVE TalkInv'
  BY <1>11 DEF ForgetFlow
<1>12. ASSUME NEW d \in atProxy, ProxyReplies(d) PROVE TalkInv'
  <2>1. Append(replies, d) \in Seq(Datagram)
    BY <1>12
  <2> QED
    BY <1>12, <2>1 DEF ProxyReplies
<1>13. CASE ProxyAnswers
  <2>1. conv' \in Conversation(Answer)
    BY <1>13, ConfigTyped, AnsweredFits DEF ProxyAnswers
  <2>2. conv'.at = conv.at
    BY <1>13 DEF ProxyAnswers, Answered, Conversation
  <2> QED
    BY <1>13, <2>1, <2>2 DEF ProxyAnswers, Handshaking
<1>14. CASE ProxyHangsUp \/ ProxyForgets
  <2>1. conv' = Hangup(conv) /\ UNCHANGED <<now, conns, network, pc, connected, replies, failed, read>>
    BY <1>14 DEF ProxyHangsUp, ProxyForgets
  <2>2. conv' \in Conversation(Answer) /\ conv'.at = conv.at
    BY <2>1 DEF Hangup, Conversation, Question
  <2>3. atProxy' \subseteq Datagram
    BY <1>14 DEF ProxyHangsUp, ProxyForgets
  <2> QED
    BY <2>1, <2>2, <2>3 DEF Handshaking
<1>15. CASE Cleanup
  BY <1>15 DEF Cleanup, CleanupStale
<1>16. CASE Tick
  BY <1>16 DEF Tick
<1> QED
  BY <1>1, <1>2, <1>3, <1>4, <1>5, <1>6, <1>7, <1>8, <1>9, <1>10, <1>11, <1>12, <1>13,
     <1>14, <1>15, <1>16 DEF Next, Turn

(* Every variable keeps to its type, and the relay's control state to its  *)
(* conversation with the proxy.                                            *)
THEOREM TypeCorrect == Spec => []TypeOK
<1>1. Spec => []TalkInv
  BY TypeInit, TypeStep, PTL DEF Spec
<1>2. TalkInv => TypeOK
  BY DEF TalkInv
<1> QED
  BY <1>1, <1>2, PTL

-----------------------------------------------------------------------------
\* A failed association

LEMMA FailedStep == TalkInv /\ FailedInv /\ [Next]_vars => FailedInv'
<1> SUFFICES ASSUME TalkInv, FailedInv, [Next]_vars PROVE FailedInv'
  OBVIOUS
<1> USE DEF FailedInv
<1>1. CASE RecvClient
  <2>1. connected
    BY <1>1 DEF RecvClient, TalkInv, TypeOK
  <2> QED
    BY <1>1, <2>1 DEF RecvClient
<1>2. CASE Handshake
  <2>1. failed' = FALSE \/ UNCHANGED <<connected, failed>>
    BY <1>2 DEF Handshake
  <2> QED
    BY <2>1
<1>3. CASE UNCHANGED <<connected, failed>>
  BY <1>3
<1>4. CASE UNCHANGED vars \/ RecvNothing \/ ReadReply \/ ReplyNothing \/ WakeUp
  BY <1>3, <1>4 DEF vars, RecvNothing, ReadReply, ReplyNothing, WakeUp
<1>5. CASE Connect \/ ConnectFails
  BY <1>3, <1>5 DEF Connect, ConnectFails
<1>6. ASSUME NEW p \in Port, NEW d \in Dest, ClientSend(p, d) PROVE FailedInv'
  BY <1>3, <1>6 DEF ClientSend
<1>7. ASSUME NEW f \in redirected, ForgetFlow(f) PROVE FailedInv'
  BY <1>3, <1>7 DEF ForgetFlow
<1>8. ASSUME NEW d \in atProxy, ProxyReplies(d) PROVE FailedInv'
  BY <1>3, <1>8 DEF ProxyReplies
<1>9. CASE ProxyAnswers \/ ProxyHangsUp \/ ProxyForgets \/ Cleanup \/ Tick
  BY <1>3, <1>9 DEF ProxyAnswers, ProxyHangsUp, ProxyForgets, Cleanup, Tick
<1> QED
  BY <1>1, <1>2, <1>4, <1>5, <1>6, <1>7, <1>8, <1>9 DEF Next, Turn

(* After a send on it failed, an association gets no packet any more: the  *)
(* clients' datagrams wait for the next one.                               *)
THEOREM NoSendAfterErrorHolds == Spec => NoSendAfterError
<1> DEFINE Kept == failed => Len(inbox') >= Len(inbox)
<1>1. Init => FailedInv
  BY DEF Init, FailedInv
<1>2. Spec => [](TalkInv /\ FailedInv)
  BY <1>1, TypeInit, TypeStep, FailedStep, PTL DEF Spec
<1>3. TalkInv /\ FailedInv /\ [Next]_vars => [Kept]_vars
  <2> SUFFICES ASSUME TalkInv, FailedInv, Next, failed PROVE Len(inbox') >= Len(inbox)
    BY DEF vars
  <2>1. pc # "recv" /\ inbox \in Seq(Datagram)
    BY DEF TalkInv, TypeOK, FailedInv
  <2>2. CASE UNCHANGED inbox
    BY <2>1, <2>2
  <2>3. ASSUME NEW p \in Port, NEW d \in Dest, ClientSend(p, d)
        PROVE  Len(inbox') >= Len(inbox)
    <3>1. inbox' = Append(inbox, [port |-> p, dest |-> d])
      BY <2>3 DEF ClientSend
    <3>2. [port |-> p, dest |-> d] \in Datagram
      BY DEF Datagram
    <3>3. Len(inbox') = Len(inbox) + 1
      BY <2>1, <3>1, <3>2
    <3> QED
      BY <2>1, <3>3
  <2>4. CASE ReadReply \/ ReplyNothing \/ WakeUp \/ Handshake \/ Connect \/ ConnectFails
    BY <2>2, <2>4 DEF ReadReply, ReplyNothing, WakeUp, Handshake, Connect, ConnectFails, network
  <2>5. CASE RecvClient \/ RecvNothing
    BY <2>1, <2>5 DEF RecvClient, RecvNothing
  <2>6. ASSUME NEW f \in redirected, ForgetFlow(f) PROVE UNCHANGED inbox
    BY <2>6 DEF ForgetFlow
  <2>7. ASSUME NEW d \in atProxy, ProxyReplies(d) PROVE UNCHANGED inbox
    BY <2>7 DEF ProxyReplies, network
  <2>8. CASE ProxyAnswers \/ ProxyHangsUp \/ ProxyForgets \/ Cleanup \/ Tick
    BY <2>2, <2>8 DEF ProxyAnswers, ProxyHangsUp, ProxyForgets, Cleanup, Tick, network
  <2> QED
    BY <2>2, <2>3, <2>4, <2>5, <2>6, <2>7, <2>8 DEF Next, Turn
<1> QED
  BY <1>2, <1>3, PTL DEF Spec, NoSendAfterError

-----------------------------------------------------------------------------
\* Replies

LEMMA RouteInit == Init => RouteInv
  BY DEF Init, RouteInv, ReplyToAsker, Absent, IsTracked

(* Where the tracker sends a reply. *)
LEMMA FoundUses ==
    ASSUME TypeOK, RouteInv, NEW r \in Datagram, Meant(r),
           NEW to \in IF FindByDest(conns, r.dest) = {} THEN {NoPort} ELSE FindByDest(conns, r.dest)
    PROVE  \/ to = NoPort /\ Get(conns, r.port) # r.dest
           \/ to \in Port /\ r.dest \in Reach[r.port] \cap Reach[to]
<1>1. r.port \in Port /\ r.dest \in Dest
  BY DEF Datagram
<1>2. CASE FindByDest(conns, r.dest) = {}
  <2>1. r.port \notin FindByDest(conns, r.dest)
    BY <1>2
  <2>2. Get(conns, r.port) # r.dest
    BY <1>1, <2>1, NoEntryAssumption DEF FindByDest, Get, IsTracked
  <2> QED
    BY <1>2, <2>2
<1>3. CASE FindByDest(conns, r.dest) # {}
  <2>1. to \in Port /\ IsTracked(conns, to) /\ conns[to].dest = r.dest
    BY <1>3 DEF FindByDest
  <2> QED
    BY <2>1 DEF RouteInv, Meant
<1> QED
  BY <1>2, <1>3

LEMMA RouteStep == TalkInv /\ RouteInv /\ [Next]_vars => RouteInv'
<1> SUFFICES ASSUME TalkInv, RouteInv, [Next]_vars PROVE RouteInv'
  OBVIOUS
<1>0. TypeOK
  BY DEF TalkInv
<1> USE <1>0 DEF network
<1>1. CASE UNCHANGED <<conns, inbox, replies, atProxy, read>>
  BY <1>1 DEF RouteInv, Meant, ReplyToAsker, IsTracked
<1>2. CASE RecvClient
  <2>1. /\ inbox \in Seq(Datagram) /\ inbox # <<>> /\ inbox' = Tail(inbox)
        /\ UNCHANGED <<conns, replies, read>>
    BY <1>2 DEF RecvClient, TypeOK
  <2>2. \A i \in 1..Len(inbox') : Meant(inbox'[i])
    BY <2>1 DEF RouteInv
  <2>3. Head(inbox) \in Datagram
    BY <2>1
  <2>4. Get(conns, Head(inbox).port) # NoEntry =>
            Meant([port |-> Head(inbox).port, dest |-> Get(conns, Head(inbox).port)])
    BY <2>3 DEF RouteInv, Get, IsTracked, Meant, Datagram
  <2>5. \A d \in atProxy' : Meant(d)
    BY <1>2, <2>4 DEF RecvClient, RouteInv
  <2> QED
    BY <2>1, <2>2, <2>5 DEF RouteInv, Meant, ReplyToAsker, IsTracked
<1>3. CASE ReadReply
  <2>1. /\ replies \in Seq(Datagram) /\ replies # <<>> /\ replies' = Tail(replies)
        /\ UNCHANGED <<conns, inbox, atProxy>>
    BY <1>3 DEF ReadReply, TypeOK
  <2>2. \A i \in 1..Len(replies') : Meant(replies'[i])
    BY <2>1 DEF RouteInv
  <2>3. Head(replies) \in Datagram /\ Meant(Head(replies))
    BY <2>1 DEF RouteInv
  <2>4. ReplyToAsker'
    <3> DEFINE r == Head(replies)
               Found == FindByDest(conns, r.dest)
    <3>1. CASE UNCHANGED read
      BY <3>1 DEF RouteInv, ReplyToAsker
    <3>2. ASSUME NEW to \in IF Found = {} THEN {NoPort} ELSE Found,
                 read' = [from |-> r.dest, asker |-> r.port, to |-> to,
                          expired |-> Get(conns, r.port) # r.dest]
          PROVE  ReplyToAsker'
      <4>1. \/ to = NoPort /\ Get(conns, r.port) # r.dest
            \/ to \in Port /\ r.dest \in Reach[r.port] \cap Reach[to]
        BY <2>3, <3>2, FoundUses
      <4>2. to \in Port => to # NoPort
        BY UdpRelayAssumption
      <4> QED
        BY <3>2, <4>1, <4>2 DEF ReplyToAsker
    <3> QED
      BY <1>3, <3>1, <3>2 DEF ReadReply
  <2> QED
    BY <2>1, <2>2, <2>4 DEF RouteInv, Meant, IsTracked
<1>4. CASE Handshake
  <2>1. UNCHANGED <<conns, inbox, atProxy, read>>
    BY <1>4 DEF Handshake
  <2>2. replies' = <<>> \/ replies' = replies
    BY <1>4 DEF Handshake
  <2> QED
    BY <2>1, <2>2 DEF RouteInv, Meant, ReplyToAsker, IsTracked
<1>5. CASE Connect \/ ConnectFails \/ ProxyForgets
  <2>1. atProxy' = {} /\ UNCHANGED <<conns, inbox, replies, read>>
    BY <1>5 DEF Connect, ConnectFails, ProxyForgets
  <2> QED
    BY <2>1 DEF RouteInv, Meant, ReplyToAsker, IsTracked
<1>6. ASSUME NEW p \in Port, NEW d \in Dest, ClientSend(p, d) PROVE RouteInv'
  <2>1. d \in Reach[p] /\ UNCHANGED <<replies, atProxy, read>>
    BY <1>6 DEF ClientSend
  <2>2. \A i \in 1..Len(inbox') : Meant(inbox'[i])
    <3>1. inbox \in Seq(Datagram) /\ [port |-> p, dest |-> d] \in Datagram
      BY DEF TypeOK, Datagram
    <3>2. inbox' = Append(inbox, [port |-> p, dest |-> d])
      BY <1>6 DEF ClientSend
    <3>3. Meant([port |-> p, dest |-> d])
      BY <2>1 DEF Meant
    <3> QED
      BY <3>1, <3>2, <3>3 DEF RouteInv
  <2>3. \A q \in Port : IsTracked(conns', q) => conns'[q].dest \in Reach[q]
    BY <1>6, <2>1 DEF ClientSend, RouteInv, Add, IsTracked, TypeOK
  <2> QED
    BY <2>1, <2>2, <2>3 DEF RouteInv, Meant, ReplyToAsker, IsTracked
<1>7. ASSUME NEW d \in atProxy, ProxyReplies(d) PROVE RouteInv'
  <2>1. replies \in Seq(Datagram) /\ d \in Datagram /\ Meant(d)
    BY DEF TypeOK, RouteInv
  <2>2. replies' = Append(replies, d) /\ UNCHANGED <<conns, inbox, atProxy, read>>
    BY <1>7 DEF ProxyReplies
  <2>3. \A i \in 1..Len(replies') : Meant(replies'[i])
    BY <2>1, <2>2 DEF RouteInv
  <2> QED
    BY <2>2, <2>3 DEF RouteInv, Meant, ReplyToAsker, IsTracked
<1>8. CASE Cleanup
  <2>1. \A p \in Port : IsTracked(conns', p) => IsTracked(conns, p) /\ conns'[p] = conns[p]
    BY <1>8 DEF Cleanup, CleanupStale, IsTracked
  <2>2. UNCHANGED <<inbox, replies, atProxy, read>>
    BY <1>8 DEF Cleanup
  <2> QED
    BY <2>1, <2>2 DEF RouteInv, Meant, ReplyToAsker
<1>9. CASE UNCHANGED vars \/ RecvNothing \/ ReplyNothing \/ WakeUp
  BY <1>1, <1>9 DEF vars, RecvNothing, ReplyNothing, WakeUp
<1>10. CASE ProxyAnswers \/ ProxyHangsUp \/ Tick
  BY <1>1, <1>10 DEF ProxyAnswers, ProxyHangsUp, Tick
<1>11. ASSUME NEW f \in redirected, ForgetFlow(f) PROVE RouteInv'
  BY <1>1, <1>11 DEF ForgetFlow
<1> QED
  BY <1>2, <1>3, <1>4, <1>5, <1>6, <1>7, <1>8, <1>9, <1>10, <1>11 DEF Next, Turn

(* No client ever gets a reply from a destination it does not use, and no *)
(* reply it can parse is dropped while its asker is tracked, whatever is   *)
(* lost, late or repeated and whoever shares a destination.                *)
THEOREM ReplyToAskerHolds == Spec => []ReplyToAsker
<1>1. Spec => [](TalkInv /\ RouteInv)
  BY TypeInit, TypeStep, RouteInit, RouteStep, PTL DEF Spec
<1>2. RouteInv => ReplyToAsker
  BY DEF RouteInv
<1> QED
  BY <1>1, <1>2, PTL

(* Sharing is all there is to it: where no other client uses the           *)
(* destination, a reply goes to its asker or, after expiry, to nobody.     *)
THEOREM UnsharedReplies ==
    ASSUME NEW d, \A p, q \in Port : d \in Reach[p] \cap Reach[q] => p = q
    PROVE  Spec => [](read # NoEntry /\ read.from = d =>
                          read.to = read.asker \/ (read.to = NoPort /\ read.expired))
<1>1. Spec => [](TalkInv /\ ReplyToAsker)
  BY TypeInit, TypeStep, ReplyToAskerHolds, PTL DEF Spec
<1>2. TalkInv /\ ReplyToAsker =>
          (read # NoEntry /\ read.from = d =>
               read.to = read.asker \/ (read.to = NoPort /\ read.expired))
  BY DEF TalkInv, TypeOK, ReplyToAsker, Delivery
<1> QED
  BY <1>1, <1>2, PTL
=============================================================================
