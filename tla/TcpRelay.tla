------------------------------ MODULE TcpRelay ------------------------------
(***************************************************************************)
(* The TCP relay of linux/src/relay/tcp.rs: an accept loop that looks up   *)
(* the original destination of a redirected connection by its source port, *)
(* and one task per connection that connects to the proxy, goes through    *)
(* the handshake of ProxyClient and then copies in both directions.        *)
(*                                                                         *)
(* Around it: clients, the interceptor (module NfQueue) as the one step    *)
(* that adds a tracker entry, the cleanup task, the proxy with the         *)
(* destinations behind it, and main, which ends the loop and the tasks.    *)
(***************************************************************************)
EXTENDS FiniteSets, ConnectionTracker, ProxyClient

CONSTANTS
    Conn,          \* client connections
    Goal,          \* the destination each one is opened to
    Ports,         \* the source ports each one may get
    Configs,       \* configurations the relay may run with
    MaxFiles,      \* descriptors that the loop, its tasks and others share
    Others,        \* how many the rest of the program may hold
    LocalAddr,     \* the clients' address
    NoPort,        \* no port yet
    MaxSaid,       \* bounds: units of data that the client
    MaxTold,       \*   and the destination of a connection send
    MaxTime        \* bound: the clock

ASSUME TcpRelayAssumption ==
    /\ Goal \in [Conn -> Dest]
    /\ Ports \in [Conn -> SUBSET Port]
    /\ Configs \subseteq [cmd : {"connect", "http"}, auth : BOOLEAN]
    /\ MaxFiles \in Nat /\ 0 \in Others /\ Others \subseteq 0..MaxFiles
    /\ LocalAddr \in Addr
    /\ NoPort \notin Port
    /\ {MaxSaid, MaxTold} \subseteq [Conn -> Nat] /\ MaxTime \in Nat

VARIABLES
    config,   \* proxy_config
    now,      \* the clock
    conns,    \* the ConnectionTracker
    loop,     \* the accept loop: "accepting", "routing", "ended" or "stopped"
    backlog,  \* connections the kernel holds for accept
    link,     \* "none", "backlog", "accepted", "spawned", "task" or "closed"
    others,   \* descriptors the rest of the program holds
    port,     \* a connection's source port
    dest,     \* the destination its task was given
    after,    \* history: who took its port before its destination was looked up
    conv,     \* its conversation with the proxy
    data      \* what its two ends have said and heard

table == <<now, conns>>
relay == <<loop, backlog, link, dest>>
vars == <<config, table, relay, others, port, after, conv, data>>

Piece == Answer \cup ({"data"} \X Nat)

(* said, heard: units the client has sent, and the destination received;   *)
(* fin: the client has finished; told: units the destination has sent;     *)
(* got: pieces the client has received; reset: somebody has reset one of   *)
(* the two connections.                                                    *)
Traffic == [said : Nat, heard : Nat, fin : BOOLEAN, told : Nat, got : Seq(Piece), reset : BOOLEAN]

NoTraffic ==
    [said |-> 0, heard |-> 0, fin |-> FALSE, told |-> 0, got |-> <<>>, reset |-> FALSE]

Init ==
    /\ config \in Configs
    /\ now = 0 /\ conns = Absent(Port)
    /\ loop = "accepting" /\ backlog = <<>>
    /\ link = [c \in Conn |-> "none"]
    /\ port = [c \in Conn |-> NoPort]
    /\ dest = [c \in Conn |-> NoEntry]
    /\ others = 0 /\ after = [c \in Conn |-> {}]
    /\ conv = [c \in Conn |-> Fresh]
    /\ data = [c \in Conn |-> NoTraffic]

Open == {"backlog", "accepted", "spawned", "task"}

(* A connection holds one descriptor from accept on, two once its task has *)
(* begun to connect.  accept and connect fail when none is left.           *)
Held ==
    Cardinality({c \in Conn : link[c] \in {"accepted", "spawned"}})
    + 2 * Cardinality({c \in Conn : link[c] = "task"})

Spare == Held + others < MaxFiles

Set(c, v) == conv' = [conv EXCEPT ![c] = v]

(* The connections in C are dropped, with what their ends still have. *)
Drop(C) ==
    /\ link' = [c \in Conn |-> IF c \in C THEN "closed" ELSE link[c]]
    /\ port' = [c \in Conn |-> IF c \in C THEN NoPort ELSE port[c]]
    /\ conv' = [c \in Conn |-> IF c \in C THEN Failed ELSE conv[c]]
    /\ data' = [c \in Conn |-> IF c \in C THEN NoTraffic ELSE data[c]]

-----------------------------------------------------------------------------
\* Clients, interceptor, cleanup task and clock

(* The interceptor tracks the port and the nat chain redirects the         *)
(* connection; a SYN from a tracked port is not redirected.  A port may be *)
(* taken when the connection before has ended on the client's side, looked *)
(* up already or not.                                                      *)
OpenConn(c, p) ==
    /\ loop \in {"accepting", "routing"} /\ link[c] = "none"
    /\ \A b \in Conn : port[b] = p => data[b].fin
    /\ ~IsTracked(conns, p)
    /\ conns' = Add(conns, p, LocalAddr, Goal[c], now)
    /\ link' = [link EXCEPT ![c] = "backlog"]
    /\ backlog' = Append(backlog, c)
    /\ port' = [port EXCEPT ![c] = p]
    /\ after' = [b \in Conn |-> IF port[b] = p /\ link[b] \in {"backlog", "accepted"}
                                THEN after[b] \cup {c} ELSE after[b]]
    /\ UNCHANGED <<config, now, loop, dest, others, conv, data>>

ClientSends(c) ==
    /\ link[c] \in Open
    /\ ~data[c].fin /\ data[c].said < MaxSaid[c]
    /\ data' = [data EXCEPT ![c].said = @ + 1]
    /\ UNCHANGED <<config, table, relay, others, port, after, conv>>

ClientFinishes(c) ==
    /\ link[c] \in Open /\ ~data[c].fin
    /\ data' = [data EXCEPT ![c].fin = TRUE]
    /\ UNCHANGED <<config, table, relay, others, port, after, conv>>

Cleanup ==
    /\ CleanupStale(conns, now) # conns
    /\ conns' = CleanupStale(conns, now)
    /\ UNCHANGED <<config, now, relay, others, port, after, conv, data>>

Tick ==
    /\ now < MaxTime
    /\ now' = now + 1
    /\ UNCHANGED <<config, conns, relay, others, port, after, conv, data>>

-----------------------------------------------------------------------------
\* The proxy and the destination behind it

ProxyAnswers(c) ==
    /\ \E v \in Answered(conv[c], config) : Set(c, v)
    /\ UNCHANGED <<config, table, relay, others, port, after, data>>

DestSends(c) ==
    /\ conv[c].through /\ conv[c].open /\ data[c].told < MaxTold[c]
    /\ data' = [data EXCEPT ![c].told = @ + 1]
    /\ Set(c, [conv[c] EXCEPT !.stream = Append(@, Data(data[c].told + 1))])
    /\ UNCHANGED <<config, table, relay, others, port, after>>

ProxyCloses(c) ==
    /\ conv[c].open
    /\ Set(c, Hangup(conv[c]))
    /\ UNCHANGED <<config, table, relay, others, port, after, data>>

Copying(c) == link[c] = "task" /\ conv[c].at = "ready"

(* A reset of either connection, which copy_bidirectional sees as an error. *)
Reset(c) ==
    /\ Copying(c) /\ ~data[c].reset
    /\ data' = [data EXCEPT ![c].reset = TRUE]
    /\ UNCHANGED <<config, table, relay, others, port, after, conv>>

-----------------------------------------------------------------------------
\* The accept loop

(* Accept takes a descriptor first: without one the connection stays in    *)
(* the backlog and the loop tries again.                                   *)
MutAccept ==    \* serves a connection before it accepts the next
    /\ loop = "accepting" /\ backlog # <<>> /\ Spare
    /\ \A c \in Conn : link[c] \in {"spawned", "task"} => Copying(c)
    /\ loop' = "routing" /\ backlog' = Tail(backlog)
    /\ link' = [link EXCEPT ![Head(backlog)] = "accepted"]
    /\ UNCHANGED <<config, table, dest, others, port, after, conv, data>>

Accept ==
    /\ loop = "accepting" /\ backlog # <<>> /\ Spare
    /\ loop' = "routing" /\ backlog' = Tail(backlog)
    /\ link' = [link EXCEPT ![Head(backlog)] = "accepted"]
    /\ UNCHANGED <<config, table, dest, others, port, after, conv, data>>

(* An error of the connection itself: it is lost, and the loop goes on. *)
AcceptFails ==
    /\ loop = "accepting" /\ backlog # <<>> /\ Spare
    /\ backlog' = Tail(backlog)
    /\ Drop({Head(backlog)})
    /\ UNCHANGED <<config, table, loop, dest, others, after>>

(* Look up the destination, spawn the task or drop the client. *)
MutRoute(c) ==    \* takes the destination without a look at None
    /\ loop = "routing" /\ link[c] = "accepted"
    /\ loop' = "accepting"
    /\ link' = [link EXCEPT ![c] = "spawned"]
    /\ dest' = [dest EXCEPT ![c] = Get(conns, port[c])]
    /\ UNCHANGED <<config, table, backlog, others, port, after, conv, data>>

Route(c) ==
    /\ loop = "routing" /\ link[c] = "accepted"
    /\ loop' = "accepting"
    /\ \/ /\ Get(conns, port[c]) # NoEntry
          /\ link' = [link EXCEPT ![c] = "spawned"]
          /\ dest' = [dest EXCEPT ![c] = Get(conns, port[c])]
          /\ UNCHANGED <<port, conv, data>>
       \/ /\ Get(conns, port[c]) = NoEntry
          /\ Drop({c})
          /\ UNCHANGED dest
    /\ UNCHANGED <<config, table, backlog, others, after>>

(* running is FALSE at the top of the loop, or main aborts it where it     *)
(* awaits: the listener is closed, and the kernel resets what waited.      *)
LoopEnds ==
    /\ loop = "accepting"
    /\ loop' = "ended" /\ backlog' = <<>>
    /\ Drop({c \in Conn : link[c] = "backlog"})
    /\ UNCHANGED <<config, table, dest, others, after>>

(* main returns: the runtime is dropped with every task. *)
RuntimeEnds ==
    /\ loop = "ended"
    /\ loop' = "stopped"
    /\ Drop({c \in Conn : link[c] \in {"spawned", "task"}})
    /\ UNCHANGED <<config, table, backlog, dest, others, after>>

(* UDP associations, lookups in /proc. *)
OthersOpen(n) ==
    /\ n # others /\ Held + n <= MaxFiles
    /\ others' = n
    /\ UNCHANGED <<config, table, relay, port, after, conv, data>>

-----------------------------------------------------------------------------
\* handle_tcp_connection

(* An error drops both connections of the task. *)
Continue(c, v) ==
    IF v.at = "failed" THEN Drop({c}) ELSE Set(c, v) /\ UNCHANGED <<link, port, data>>

(* TcpStream::connect opens its socket, or there is no descriptor left. *)
Dial(c) ==
    /\ link[c] = "spawned"
    /\ \/ Spare /\ link' = [link EXCEPT ![c] = "task"] /\ UNCHANGED <<port, conv, data>>
       \/ ~Spare /\ Drop({c})
    /\ UNCHANGED <<config, table, loop, backlog, dest, others, after>>

(* It succeeds and the handshake begins, or it fails. *)
Connect(c) ==
    /\ link[c] = "task" /\ conv[c].at = "connect"
    /\ \E v \in {Begin(config), Failed} : Continue(c, v)
    /\ UNCHANGED <<config, table, loop, backlog, dest, others, after>>

(* The next read of the handshake. *)
Handshake(c) ==
    /\ link[c] = "task" /\ Handshaking(conv[c])
    /\ \E v \in Reads(conv[c], config) : Continue(c, v)
    /\ UNCHANGED <<config, table, loop, backlog, dest, others, after>>

CopyUp(c) ==
    /\ Copying(c) /\ data[c].heard < data[c].said
    /\ data' = [data EXCEPT ![c].heard = @ + 1]
    /\ UNCHANGED <<config, table, relay, others, port, after, conv>>

CopyDown(c) ==
    /\ Copying(c) /\ conv[c].stream # <<>>
    /\ data' = [data EXCEPT ![c].got = Append(@, Head(conv[c].stream))]
    /\ Set(c, [conv[c] EXCEPT !.stream = Tail(@)])
    /\ UNCHANGED <<config, table, relay, others, port, after>>

UpEnded(c) == data[c].fin /\ data[c].heard = data[c].said
DownEnded(c) == ~conv[c].open /\ conv[c].stream = <<>>

(* Both directions have ended, or one of them with an error. *)
MutCopyEnds(c) ==    \* ends with the first direction that ends
    /\ Copying(c)
    /\ data[c].reset \/ UpEnded(c) \/ DownEnded(c)
    /\ Drop({c})
    /\ UNCHANGED <<config, table, loop, backlog, dest, others, after>>

CopyEnds(c) ==
    /\ Copying(c)
    /\ data[c].reset \/ (UpEnded(c) /\ DownEnded(c))
    /\ Drop({c})
    /\ UNCHANGED <<config, table, loop, backlog, dest, others, after>>

-----------------------------------------------------------------------------

Task(c) == Dial(c) \/ Connect(c) \/ Handshake(c) \/ CopyUp(c) \/ CopyDown(c) \/ CopyEnds(c)

Next ==
    \/ \E c \in Conn : Task(c)
    \/ Accept \/ AcceptFails \/ LoopEnds \/ RuntimeEnds
    \/ \E c \in Conn : Route(c)
    \/ \E n \in Others : OthersOpen(n)
    \/ \E c \in Conn, p \in Port : p \in Ports[c] /\ OpenConn(c, p)
    \/ \E c \in Conn : ClientSends(c) \/ ClientFinishes(c)
    \/ \E c \in Conn : ProxyAnswers(c) \/ DestSends(c) \/ ProxyCloses(c) \/ Reset(c)
    \/ Cleanup \/ Tick

Spec == Init /\ [][Next]_vars

(* The runtime polls the loop and every task; connect ends by the kernel's *)
(* own timeout.  Nothing is assumed of the proxy, nor that there is ever a *)
(* descriptor to spare.                                                    *)
FairSpec ==
    /\ Spec /\ WF_vars(Accept)
    /\ \A c \in Conn : WF_vars(Route(c)) /\ WF_vars(Task(c))

-----------------------------------------------------------------------------
\* The abstract specification

(* The two ends as Tunnel sees them: joined when the proxy has granted the *)
(* request, to the destination the request named.                          *)
Joined(c) == link[c] = "task" /\ conv[c].through

End(c) ==
    CASE link[c] = "none" -> "idle"
      [] link[c] = "closed" -> "closed"
      [] OTHER -> IF Joined(c) THEN "joined" ELSE "waiting"

Ends == INSTANCE Tunnel WITH
            NoDest <- NoEntry,
            link <- [c \in Conn |-> End(c)],
            to <- [c \in Conn |-> IF Joined(c) THEN dest[c] ELSE NoEntry],
            said <- [c \in Conn |-> data[c].said],
            heard <- [c \in Conn |-> data[c].heard],
            told <- [c \in Conn |-> data[c].told],
            got <- [c \in Conn |-> data[c].got],
            from <- port,
            after <- after,
            broken <- [c \in Conn |-> data[c].reset]

(* Every connection is closed or joined to its own destination, or to that *)
(* of a later connection which took its port before the lookup (tcp.rs:45  *)
(* knows the port alone), and what the two ends hear is what the other one *)
(* says (tcp.rs 69-116).                                                   *)
ImplementsTunnel == Ends!Spec

-----------------------------------------------------------------------------
\* Properties

TypeOK ==
    /\ config \in Configs
    /\ now \in Nat /\ conns \in [Port -> ConnectionInfo \cup {NoEntry}]
    /\ loop \in {"accepting", "routing", "ended", "stopped"} /\ backlog \in Seq(Conn)
    /\ link \in [Conn -> {"none", "closed"} \cup Open]
    /\ port \in [Conn -> Port \cup {NoPort}]
    /\ dest \in [Conn -> Dest \cup {NoEntry}]
    /\ others \in Others /\ after \in [Conn -> SUBSET Conn]
    /\ conv \in [Conn -> Conversation(Piece)]
    /\ data \in [Conn -> Traffic]
    /\ \A c \in Conn :
           /\ link[c] \in {"spawned", "task"} => dest[c] # NoEntry /\ conv[c].at # "failed"
           /\ link[c] \in {"none", "backlog", "accepted", "spawned"} => conv[c] = Fresh

(* "After success, the stream is ready for bidirectional data transfer"    *)
(* (socks5.rs:7, http.rs:8): what the client has received and what is      *)
(* still to come is all that the destination has sent, and nothing of the  *)
(* handshake.                                                              *)
ReadyAfterSuccess ==
    \A c \in Conn : Copying(c) => data[c].got \o conv[c].stream = [k \in 1..data[c].told |-> Data(k)]

(* No connection waits for another one: if its own proxy connection        *)
(* answers, it is closed or comes to copying, whatever the others' do,     *)
(* unless they and the rest of the program hold every descriptor again and *)
(* again while it waits for accept (tcp.rs 31-34).                         *)
NoOneWaitsForOthers ==
    \A c \in Conn :
        /\ WF_vars(ProxyAnswers(c))
        /\ <>[](link[c] = "backlog" => Spare)
        => (link[c] \in Open ~> link[c] = "closed" \/ Copying(c))
=============================================================================
