------------------------------ MODULE UdpRelay ------------------------------
(***************************************************************************)
(* The UDP relay of linux/src/relay/udp.rs: one task that turns datagrams  *)
(* of local clients into SOCKS5 packets for the proxy's UDP association    *)
(* and the proxy's packets back into datagrams.  The tracker says where a  *)
(* client's datagram goes and, asked the other way round, which client a   *)
(* reply is for.                                                           *)
(*                                                                         *)
(* Around it: clients whose flows the nat chain redirects, the interceptor *)
(* (module NfQueue) as the one step that adds a tracker entry, the cleanup *)
(* task, and the proxy, which may refuse, forget or lose.                  *)
(***************************************************************************)
EXTENDS ConnectionTracker, ProxyClient

CONSTANTS
    Reach,      \* the destinations each client port is used for
    WithAuth,   \* the proxy is configured with user name and password
    LocalAddr,  \* the clients' address
    NoPort,     \* no port: a reply that was not delivered
    MaxWaiting, \* bound: datagrams waiting in a socket
    MaxTime     \* bound: the clock

ASSUME UdpRelayAssumption ==
    /\ Reach \in [Port -> SUBSET Dest]
    /\ WithAuth \in BOOLEAN
    /\ LocalAddr \in Addr
    /\ NoPort \notin Port
    /\ {MaxWaiting, MaxTime} \subseteq Nat

(* A datagram by its client and the destination the client meant, which    *)
(* the redirect hides from the relay; a reply by the datagram it answers.  *)
Datagram == [port : Port, dest : Dest]

VARIABLES
    now,        \* the clock
    conns,      \* the ConnectionTracker
    redirected, \* conntrack: flows that the nat chain sends to the relay
    inbox,      \* datagrams waiting in the relay's socket
    pc,         \* next step of the relay's loop
    conv,       \* the control connection: its handshake with the proxy
    connected,  \* relay_addr.is_some()
    replies,    \* replies waiting in send_sock
    atProxy,    \* datagrams the proxy has and may answer
    \* History, read by the properties only:
    failed,     \* a send on the association of send_sock has failed
    read        \* the last reply read: from which destination, whose, where it
                \* went, and whether its asker's entry had expired

network == <<redirected, inbox>>
vars  == <<now, conns, network, pc, conv, connected, replies, atProxy, failed, read>>

(* The proxy serves the association of send_sock.                          *)
alive == conv.at = "ready" /\ conv.open

config == [cmd |-> "associate", auth |-> WithAuth]

Delivery == [from : Dest, asker : Port, to : Port \cup {NoPort}, expired : BOOLEAN]

Init ==
    /\ now = 0
    /\ conns = Absent(Port)
    /\ redirected = {} /\ inbox = <<>>
    /\ pc = "connect" /\ conv = Fresh /\ connected = FALSE /\ replies = <<>>
    /\ atProxy = {}
    /\ failed = FALSE /\ read = NoEntry

-----------------------------------------------------------------------------
\* Clients, interceptor, cleanup task and clock

(* A datagram passes the interceptor, which tracks its port unless it is   *)
(* tracked, and reaches the relay if its flow is redirected.               *)
ClientSend(p, d) ==
    /\ d \in Reach[p]
    /\ Len(inbox) < MaxWaiting
    /\ IsTracked(conns, p) => [port |-> p, dest |-> d] \in redirected
    /\ conns' = IF IsTracked(conns, p) THEN conns ELSE Add(conns, p, LocalAddr, d, now)
    /\ redirected' = redirected \cup {[port |-> p, dest |-> d]}
    /\ inbox' = Append(inbox, [port |-> p, dest |-> d])
    /\ UNCHANGED <<now, pc, conv, connected, replies, atProxy, failed, read>>

ForgetFlow(f) ==
    /\ f \in redirected
    /\ redirected' = redirected \ {f}
    /\ UNCHANGED <<now, conns, inbox, pc, conv, connected, replies, atProxy, failed, read>>

(* The cleanup task may come at any time. *)
Cleanup ==
    /\ CleanupStale(conns, now) # conns
    /\ conns' = CleanupStale(conns, now)
    /\ UNCHANGED <<now, network, pc, conv, connected, replies, atProxy, failed, read>>

Tick ==
    /\ now < MaxTime
    /\ now' = now + 1
    /\ UNCHANGED <<conns, network, pc, conv, connected, replies, atProxy, failed, read>>

-----------------------------------------------------------------------------
\* The proxy

(* An answer is read only while the association lives; others are lost.    *)
ProxyReplies(d) ==
    /\ alive /\ d \in atProxy
    /\ Len(replies) < MaxWaiting
    /\ replies' = Append(replies, d)
    /\ UNCHANGED <<now, conns, network, pc, conv, connected, atProxy, failed, read>>

ProxyAnswers ==
    /\ pc = "handshake"
    /\ conv' \in Answered(conv, config)
    /\ UNCHANGED <<now, conns, network, pc, connected, replies, atProxy, failed, read>>

ProxyHangsUp ==
    /\ pc = "handshake" /\ conv.open
    /\ conv' = Hangup(conv)
    /\ UNCHANGED <<now, conns, network, pc, connected, replies, atProxy, failed, read>>

ProxyForgets ==
    /\ alive
    /\ conv' = Hangup(conv) /\ atProxy' = {}
    /\ UNCHANGED <<now, conns, network, pc, connected, replies, failed, read>>

-----------------------------------------------------------------------------
\* The relay's loop

(* establish_udp_associate: the control connection opens, or fails, and    *)
(* the task sleeps five seconds.  What an old association still gets is    *)
(* left out from here on: nobody will read it.                             *)
Connect ==
    /\ pc = "connect"
    /\ conv' = Begin(config) /\ atProxy' = {} /\ pc' = "handshake"
    /\ UNCHANGED <<now, conns, network, connected, replies, failed, read>>

ConnectFails ==
    /\ pc = "connect"
    /\ conv' = Failed /\ atProxy' = {} /\ pc' = "sleep"
    /\ UNCHANGED <<now, conns, network, connected, replies, failed, read>>

(* The next read of the handshake, which has no timeout.  At its end a new *)
(* socket is bound, unless bind fails; it and the new control connection   *)
(* replace the old ones, and what waited in the old socket is lost.        *)
Outcomes ==
    LET after == Reads(conv, config)
    IN  after \cup {Failed : v \in {w \in after : w.at = "ready"}}

Handshake ==
    /\ pc = "handshake"
    /\ \E v \in Outcomes :
           /\ conv' = v
           /\ \/ /\ v.at = "ready"
                 /\ connected' = TRUE /\ replies' = <<>>
                 /\ failed' = FALSE
                 /\ pc' = "recv"
              \/ /\ v.at # "ready"
                 /\ pc' = IF v.at = "failed" THEN "sleep" ELSE "handshake"
                 /\ UNCHANGED <<connected, replies, failed>>
    /\ UNCHANGED <<now, conns, network, atProxy, read>>

WakeUp ==
    /\ pc = "sleep"
    /\ pc' = "connect"
    /\ UNCHANGED <<now, conns, conv, network, connected, replies, atProxy, failed, read>>

(* A client's datagram: the tracker is asked for its destination and, if   *)
(* it has one, a packet is sent, which succeeds whether or not the proxy   *)
(* still has the association; a failing send forgets the relay address.    *)
MutRecvClient ==        \* ignores the result of send_to
    /\ pc = "recv" /\ inbox # <<>>
    /\ inbox' = Tail(inbox)
    /\ LET dest == Get(conns, Head(inbox).port) IN
           \/ /\ dest = NoEntry
              /\ UNCHANGED <<connected, atProxy, failed>>
           \/ /\ dest # NoEntry
              /\ atProxy' = IF alive
                            THEN atProxy \cup {[port |-> Head(inbox).port, dest |-> dest]}
                            ELSE atProxy
              /\ UNCHANGED <<connected, failed>>
           \/ /\ dest # NoEntry
              /\ failed' = TRUE
              /\ UNCHANGED <<connected, atProxy>>
    /\ pc' = "reply"
    /\ UNCHANGED <<now, conns, conv, redirected, replies, read>>

RecvClient ==
    /\ pc = "recv" /\ inbox # <<>>
    /\ inbox' = Tail(inbox)
    /\ LET dest == Get(conns, Head(inbox).port) IN
           \/ /\ dest = NoEntry
              /\ UNCHANGED <<connected, atProxy, failed>>
           \/ /\ dest # NoEntry
              /\ atProxy' = IF alive
                            THEN atProxy \cup {[port |-> Head(inbox).port, dest |-> dest]}
                            ELSE atProxy
              /\ UNCHANGED <<connected, failed>>
           \/ /\ dest # NoEntry
              /\ connected' = FALSE /\ failed' = TRUE
              /\ UNCHANGED atProxy
    /\ pc' = "reply"
    /\ UNCHANGED <<now, conns, conv, redirected, replies, read>>

(* Nothing came within a second, or the receive failed, whatever waits.    *)
RecvNothing ==
    /\ pc = "recv"
    /\ pc' = "reply"
    /\ UNCHANGED <<now, conns, conv, network, connected, replies, atProxy, failed, read>>

(* The top of the loop goes on to the clients while there is a relay       *)
(* address.                                                                *)
MutTop == "recv"        \* does not look at relay_addr again

Top == IF connected THEN "recv" ELSE "connect"

(* parse_socks5_udp_packet and find_by_dest: a reply goes to a port whose  *)
(* tracked destination it comes from; a fragment, or one from a name or an *)
(* IPv6 address, is dropped.                                               *)
ReadReply ==
    /\ pc = "reply" /\ replies # <<>>
    /\ replies' = Tail(replies)
    /\ LET r == Head(replies)
           found == FindByDest(conns, r.dest)
       IN  \/ \E to \in IF found = {} THEN {NoPort} ELSE found :
                  read' = [from |-> r.dest, asker |-> r.port, to |-> to,
                           expired |-> Get(conns, r.port) # r.dest]
           \/ UNCHANGED read
    /\ pc' = Top
    /\ UNCHANGED <<now, conns, conv, network, connected, atProxy, failed>>

(* Nothing came within ten milliseconds, or the receive failed.            *)
MutReplyNothing ==      \* waits for a reply that has been asked for
    /\ pc = "reply" /\ replies = <<>> /\ atProxy = {}
    /\ pc' = Top
    /\ UNCHANGED <<now, conns, conv, network, connected, replies, atProxy, failed, read>>

ReplyNothing ==
    /\ pc = "reply"
    /\ pc' = Top
    /\ UNCHANGED <<now, conns, conv, network, connected, replies, atProxy, failed, read>>

-----------------------------------------------------------------------------

Turn == RecvClient \/ RecvNothing \/ ReadReply \/ ReplyNothing \/ WakeUp \/ Handshake

Next ==
    \/ Turn \/ Connect \/ ConnectFails
    \/ \E p \in Port, d \in Dest : ClientSend(p, d)
    \/ \E f \in redirected : ForgetFlow(f)
    \/ \E d \in atProxy : ProxyReplies(d)
    \/ ProxyAnswers \/ ProxyHangsUp \/ ProxyForgets \/ Cleanup \/ Tick

Spec == Init /\ [][Next]_vars

(* The runtime polls the task and its timers, and a connection attempt     *)
(* ends one way or the other.  Nothing is assumed of the proxy.            *)
FairSpec == Spec /\ WF_vars(Turn) /\ WF_vars(Connect \/ ConnectFails)

(* The proxy gives the answer that lets the handshake go on. *)
ProxyAgrees(question) ==
    /\ conv.asked = question
    /\ ProxyAnswers
    /\ conv'.stream \in {<<Method("none")>>, <<Auth("granted")>>, <<Reply("ipv4")>>}

(* Besides, of infinitely many attempts some connect, some go on at each   *)
(* question and some get a socket, and not every receive fails.            *)
WillingSpec ==
    /\ FairSpec
    /\ SF_vars(Connect) /\ SF_vars(Handshake /\ conv'.at = "ready") /\ SF_vars(RecvClient)
    /\ \A q \in {"hello", "credentials", "request"} : SF_vars(ProxyAgrees(q))

-----------------------------------------------------------------------------
\* Properties

TypeOK ==
    /\ now \in Nat
    /\ conns \in [Port -> ConnectionInfo \cup {NoEntry}]
    /\ redirected \subseteq Datagram /\ inbox \in Seq(Datagram)
    /\ pc \in {"connect", "handshake", "sleep", "recv", "reply"}
    /\ conv \in Conversation(Answer) /\ (pc = "handshake" <=> Handshaking(conv))
    /\ connected \in BOOLEAN
    /\ (pc \in {"connect", "handshake", "sleep"} => ~connected)
    /\ (pc = "recv" => connected /\ conv.at = "ready")
    /\ replies \in Seq(Datagram) /\ atProxy \subseteq Datagram
    /\ failed \in BOOLEAN
    /\ read \in Delivery \cup {NoEntry}

(* A reply goes to the client it answers, or to nobody if the client's     *)
(* entry has expired meanwhile.  Where clients share a destination the     *)
(* relay cannot tell whose reply it is, and any of them may get it, but    *)
(* never a client that does not use the destination.                       *)
ReplyToAsker ==
    read # NoEntry =>
        \/ read.to = read.asker
        \/ read.to = NoPort /\ read.expired
        \/ read.to # NoPort /\ read.from \in Reach[read.asker] \cap Reach[read.to]

(* A packet is not handed to an association after a send on it failed:     *)
(* the client's next datagram waits for a new one.                         *)
NoSendAfterError == [][failed => Len(inbox') >= Len(inbox)]_vars

(* The proxy leaves a question unanswered, or the answer incomplete. *)
ProxySilent == pc = "handshake" /\ conv.open /\ conv.stream = <<>>

(* Neither direction starves the other: silent clients do not stop the     *)
(* replies nor missing replies the datagrams, and no error leaves the task *)
(* anywhere but in its loop.  It is the proxy that can stop both: by       *)
(* refusing again and again, or, as the reads of the handshake have no     *)
(* timeout, for ever by falling silent in one.                             *)
BothDirectionsServed ==
    \/ []<>(pc = "recv") /\ []<>(pc = "reply")
    \/ []<>(pc = "sleep")
    \/ <>[]ProxySilent

(* "Try to establish UDP ASSOCIATE if not connected": a client that keeps  *)
(* sending gets a new association when the proxy has dropped the old one.  *)
LostAssociationReplaced == []<>(inbox # <<>>) => [](~alive => <>alive)
=============================================================================
