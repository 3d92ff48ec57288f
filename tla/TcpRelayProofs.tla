--------------------------- MODULE TcpRelayProofs ---------------------------
(***************************************************************************)
(* Theorems about TcpRelay, for every value of its constants: type         *)
(* correctness; that nothing of the handshake and all of the destination's *)
(* data reaches the client, and that the relay implements Tunnel, both if  *)
(* the proxy's answers are read whole.  One inductive invariant,           *)
(* TunnelInv, carries them.                                                *)
(***************************************************************************)
EXTENDS TcpRelay, ProxyClientProofs

USE DEF Open

(* The proxy's answers are read whole and alone. *)
ReadWhole == BoundIPv4 /\ HeaderAlone

(* The pieces in the stream, those the client has got, and the data the    *)
(* destination has sent.                                                   *)
Left(v) == Len(v.stream)
Had(d) == Len(d.got)
Told(d) == d.told

(* The proxy has not granted the request: only its answer to the question  *)
(* asked last may be in the stream.                                        *)
Negotiating(v, d, cmd) ==
    /\ v.at \in {"connect", "method", "auth", "reply", "header"}
    /\ (v.at = "connect" => v.asked = "nothing")
    /\ Told(d) = 0
    /\ (v.asked # "nothing" => v.stream = <<>>)
    /\ (v.asked = "hello" => v.at = "method")
    /\ (v.asked = "credentials" => v.at = "auth")
    /\ (v.asked = "request" => v.at = IF cmd = "http" THEN "header" ELSE "reply")
    /\ (v.at \in {"method", "auth", "reply"} => Left(v) <= 1 /\ cmd # "http")
    /\ (v.at = "reply" /\ v.stream # <<>> => v.stream[1] = Reply("refused"))
    /\ (v.at = "header" /\ v.stream # <<>> => \A i \in 1..3 : v.stream[i] # Header("200"))

(* What is left of the proxy's grant in the stream. *)
Skip(v) == IF v.at = "reply" THEN 1 ELSE IF v.at = "header" THEN 3 ELSE 0

(* It has: what is left of its grant, then all the data the destination    *)
(* has sent and the client has not got.                                    *)
Flowing(v, d) ==
    /\ v.at \in {"reply", "header", "ready"} /\ v.asked = "nothing"
    /\ (v.at = "reply" => v.stream[1] = Reply("ipv4"))
    /\ (v.at = "header" => v.stream[2] = Header("200"))
    /\ Left(v) >= Skip(v)
    /\ Had(d) + Left(v) = Told(d) + Skip(v)
    /\ \A k \in 1..(Left(v) - Skip(v)) : v.stream[k + Skip(v)] = Data(k + Had(d))

(* What an end has heard, the other one has said. *)
Delivered(v, d) ==
    /\ \A i \in 1..Had(d) : d.got[i] = Data(i)
    /\ d.heard <= d.said
    /\ (v.at # "ready" => d.got = <<>> /\ d.heard = 0)

InStep(v, d, cmd) ==
    /\ IF v.through THEN Flowing(v, d) ELSE Negotiating(v, d, cmd)
    /\ Delivered(v, d)

(* By the state of the connection. *)
Settled(c) ==
    /\ (link[c] \in Open => InStep(conv[c], data[c], config.cmd))
    /\ (link[c] \in {"none", "closed"} => data[c] = NoTraffic)
    /\ (link[c] \in Open \ {"task"} => ~data[c].reset)
    /\ (link[c] = "closed" => conv[c] = Failed)

TrafficInv == \A c \in Conn : Settled(c)

(* The backlog holds the waiting connections, each at most once, while the *)
(* loop runs; it has at most one in its hands.                             *)
WaitingInv ==
    /\ \A c \in Conn : link[c] \in {"backlog", "accepted"} => port[c] \in Port
    /\ \A i \in 1..Len(backlog) : link[backlog[i]] = "backlog"
    /\ \A i, j \in 1..Len(backlog) : backlog[i] = backlog[j] => i = j
    /\ \A c \in Conn : link[c] = "backlog" => loop \in {"accepting", "routing"}
    /\ \A c \in Conn : link[c] = "accepted" => loop = "routing"
    /\ \A b, c \in Conn : link[b] = "accepted" /\ link[c] = "accepted" => b = c

(* Where a connection may be led: to its own destination, or to that of    *)
(* one which took its port too early.                                      *)
Goals(c) == {Goal[b] : b \in {c} \cup after[c]}

(* The tracker leads a waiting connection to one of these, if it still     *)
(* knows the port; a routed one has it.                                    *)
Routed(c) ==
    /\ (link[c] \in {"backlog", "accepted"} => Get(conns, port[c]) \in Goals(c) \cup {NoEntry})
    /\ (link[c] \in {"spawned", "task"} => dest[c] \in Goals(c))

RouteInv == \A c \in Conn : Routed(c)

TunnelInv == TypeOK /\ WaitingInv /\ TrafficInv /\ RouteInv

-----------------------------------------------------------------------------
\* Conversations keep to their type

LEMMA AnswerInPiece == Answer \subseteq Piece
  BY DEF Piece

LEMMA PieceTyped ==
    /\ \A a \in Answer : a \in Piece
    /\ \A k \in Nat : Data(k) \in Piece
  BY DEF Piece, Data

LEMMA StartTyped ==
    ASSUME NEW cfg
    PROVE  /\ Fresh \in Conversation(Piece)
           /\ Failed \in Conversation(Piece)
           /\ Begin(cfg) \in Conversation(Piece)
  BY AnswerInPiece, StartFits

LEMMA AnsweredTyped ==
    ASSUME NEW cfg \in Config, NEW v \in Conversation(Piece), NEW w \in Answered(v, cfg)
    PROVE  w \in Conversation(Piece)
  BY AnswerInPiece, AnsweredFits

LEMMA ReadsTyped ==
    ASSUME NEW cfg \in Config, NEW v \in Conversation(Piece), Handshaking(v), NEW w \in Reads(v, cfg)
    PROVE  w \in Conversation(Piece)
  BY AnswerInPiece, ReadsFit

-----------------------------------------------------------------------------
\* Type correctness

LEMMA ConfigTyped == TypeOK => config \in Config
  BY TcpRelayAssumption DEF TypeOK, Config

LEMMA TypeInit == Init => TypeOK
<1> SUFFICES ASSUME Init PROVE TypeOK
  OBVIOUS
<1> USE TcpRelayAssumption DEF Init
<1>1. conv \in [Conn -> Conversation(Piece)]
  BY StartTyped
<1>2. data \in [Conn -> Traffic]
  BY DEF Traffic, NoTraffic
<1>3. conns \in [Port -> ConnectionInfo \cup {NoEntry}]
  BY DEF Absent
<1> QED
  BY <1>1, <1>2, <1>3 DEF TypeOK

LEMMA DropTyped ==
    ASSUME TypeOK, NEW C \in SUBSET Conn, Drop(C)
    PROVE  /\ link' \in [Conn -> {"none", "closed"} \cup Open]
           /\ port' \in [Conn -> Port \cup {NoPort}]
           /\ conv' \in [Conn -> Conversation(Piece)]
           /\ data' \in [Conn -> Traffic]
           /\ \A c \in C : /\ link'[c] = "closed" /\ port'[c] = NoPort
                           /\ conv'[c] = Failed /\ data'[c] = NoTraffic
           /\ \A c \in Conn \ C : /\ link'[c] = link[c] /\ port'[c] = port[c]
                                  /\ conv'[c] = conv[c] /\ data'[c] = data[c]
<1> USE DEF Drop, TypeOK
<1>1. NoTraffic \in Traffic
  BY DEF Traffic, NoTraffic
<1>2. conv' \in [Conn -> Conversation(Piece)]
  BY StartTyped
<1>3. data' \in [Conn -> Traffic]
  BY <1>1
<1>4. link' \in [Conn -> {"none", "closed"} \cup Open] /\ port' \in [Conn -> Port \cup {NoPort}]
  OBVIOUS
<1>5. \A c \in C : link'[c] = "closed" /\ port'[c] = NoPort /\ conv'[c] = Failed /\ data'[c] = NoTraffic
  OBVIOUS
<1>6. \A c \in Conn \ C : link'[c] = link[c] /\ port'[c] = port[c] /\ conv'[c] = conv[c] /\ data'[c] = data[c]
  OBVIOUS
<1> QED
  BY <1>2, <1>3, <1>4, <1>5, <1>6

(* The last conjunct of TypeOK. *)
Coupled ==
    \A c \in Conn :
        /\ link[c] \in {"spawned", "task"} => dest[c] # NoEntry /\ conv[c].at # "failed"
        /\ link[c] \in {"none", "backlog", "accepted", "spawned"} => conv[c] = Fresh

LEMMA DropKeepsType ==
    ASSUME TypeOK, NEW C \in SUBSET Conn, Drop(C),
           UNCHANGED <<config, table, dest, others, after>>,
           loop' \in {"accepting", "routing", "ended", "stopped"}, backlog' \in Seq(Conn)
    PROVE  TypeOK'
<1>1. Coupled'
  BY DropTyped DEF Coupled, TypeOK
<1> QED
  BY <1>1, DropTyped DEF TypeOK, Coupled, table

LEMMA SetTyped ==
    ASSUME TypeOK, NEW c \in Conn, NEW v \in Conversation(Piece), Set(c, v)
    PROVE  /\ conv' \in [Conn -> Conversation(Piece)]
           /\ conv'[c] = v
           /\ \A b \in Conn \ {c} : conv'[b] = conv[b]
  BY DEF Set, TypeOK

LEMMA ContinueKeepsType ==
    ASSUME TypeOK, NEW c \in Conn, link[c] = "task", NEW v \in Conversation(Piece), Continue(c, v),
           UNCHANGED <<config, table, loop, backlog, dest, others, after>>
    PROVE  TypeOK'
<1>1. CASE v.at = "failed"
  <2>1. Drop({c})
    BY <1>1 DEF Continue
  <2> QED
    BY <2>1, DropKeepsType DEF TypeOK
<1>2. CASE v.at # "failed"
  <2>1. Set(c, v) /\ UNCHANGED <<link, port, data>>
    BY <1>2 DEF Continue
  <2>2. Coupled'
    BY <1>2, <2>1, SetTyped DEF Coupled, TypeOK
  <2> QED
    BY <2>1, <2>2, SetTyped DEF TypeOK, Coupled, table
<1> QED
  BY <1>1, <1>2

(* The proxy's and the destination's steps do not touch a connection that  *)
(* has not connected to the proxy.                                         *)
LEMMA SetKeepsType ==
    ASSUME TypeOK, NEW c \in Conn, NEW v \in Conversation(Piece), Set(c, v),
           conv[c] # Fresh, v.at = conv[c].at,
           data' \in [Conn -> Traffic], UNCHANGED <<config, table, relay, others, port, after>>
    PROVE  TypeOK'
<1>1. Coupled'
  BY SetTyped DEF Coupled, TypeOK, relay
<1> QED
  BY <1>1, SetTyped DEF TypeOK, Coupled, table, relay

LEMMA DataKeepsType ==
    ASSUME TypeOK, data' \in [Conn -> Traffic], UNCHANGED <<config, table, relay, others, port, after, conv>>
    PROVE  TypeOK'
  BY DEF TypeOK, table, relay

LEMMA GetTyped ==
    ASSUME TypeOK, NEW p
    PROVE  p \in Port => Get(conns, p) \in Dest \cup {NoEntry}
  BY DEF TypeOK, Get, IsTracked, ConnectionInfo

LEMMA ToldTyped == \A d \in Traffic : [d EXCEPT !.told = @ + 1] \in Traffic
<1> SUFFICES ASSUME NEW d \in Traffic PROVE [d EXCEPT !.told = @ + 1] \in Traffic
  OBVIOUS
<1>1. d.told + 1 \in Nat
  BY DEF Traffic
<1> QED
  BY <1>1 DEF Traffic

LEMMA TypeStep == TypeOK /\ WaitingInv /\ [Next]_vars => TypeOK'
<1> SUFFICES ASSUME TypeOK, WaitingInv, [Next]_vars PROVE TypeOK'
  OBVIOUS
<1>1. CASE UNCHANGED vars
  BY <1>1 DEF vars, TypeOK, table, relay
<1>2. ASSUME NEW c \in Conn, Connect(c) PROVE TypeOK'
  BY <1>2, ContinueKeepsType, StartTyped DEF Connect
<1>3. ASSUME NEW c \in Conn, Handshake(c) PROVE TypeOK'
  <2>1. PICK v \in Reads(conv[c], config) : Continue(c, v)
    BY <1>3 DEF Handshake
  <2>2. v \in Conversation(Piece)
    <3>1. conv[c] \in Conversation(Piece) /\ Handshaking(conv[c])
      BY <1>3 DEF Handshake, TypeOK
    <3> QED
      BY <2>1, <3>1, ConfigTyped, ReadsTyped
  <2> QED
    BY <1>3, <2>1, <2>2, ContinueKeepsType DEF Handshake
<1>4. ASSUME NEW c \in Conn, CopyUp(c) PROVE TypeOK'
  <2>1. data[c].heard + 1 \in Nat
    BY DEF TypeOK, Traffic
  <2>2. data' \in [Conn -> Traffic]
    BY <1>4, <2>1 DEF CopyUp, TypeOK, Traffic
  <2> QED
    BY <1>4, <2>2, DataKeepsType DEF CopyUp
<1>5. ASSUME NEW c \in Conn, CopyDown(c) PROVE TypeOK'
  <2>1. conv[c].stream \in Seq(Piece) /\ conv[c].stream # <<>> /\ data[c].got \in Seq(Piece)
    BY <1>5 DEF CopyDown, TypeOK, Conversation, Traffic
  <2>2. Append(data[c].got, Head(conv[c].stream)) \in Seq(Piece) /\ Tail(conv[c].stream) \in Seq(Piece)
    BY <2>1
  <2>3. data' \in [Conn -> Traffic]
    BY <1>5, <2>2 DEF CopyDown, TypeOK, Traffic
  <2>4. [conv[c] EXCEPT !.stream = Tail(@)] \in Conversation(Piece)
    BY <2>2 DEF TypeOK, Conversation
  <2>5. conv[c] # Fresh
    BY <1>5 DEF CopyDown, Copying, Fresh
  <2>6. [conv[c] EXCEPT !.stream = Tail(@)].at = conv[c].at
    BY DEF TypeOK, Conversation
  <2> QED
    BY <1>5, <2>3, <2>4, <2>5, <2>6, SetKeepsType DEF CopyDown
<1>6. ASSUME NEW c \in Conn, CopyEnds(c) PROVE TypeOK'
  BY <1>6, DropKeepsType DEF CopyEnds, TypeOK
<1>7. CASE Accept
  <2>1. backlog' \in Seq(Conn) /\ Head(backlog) \in Conn
    BY <1>7 DEF Accept, TypeOK
  <2>2. link[Head(backlog)] = "backlog"
    BY <1>7, <2>1 DEF Accept, TypeOK, WaitingInv
  <2>3. Coupled'
    BY <1>7, <2>1, <2>2 DEF Accept, Coupled, TypeOK
  <2> QED
    BY <1>7, <2>1, <2>3 DEF Accept, Coupled, TypeOK, table
<1>19. CASE AcceptFails
  <2>1. backlog' \in Seq(Conn) /\ Head(backlog) \in Conn
    BY <1>19 DEF AcceptFails, TypeOK
  <2> QED
    BY <1>19, <2>1, DropKeepsType DEF AcceptFails, TypeOK
<1>20. ASSUME NEW c \in Conn, Route(c) PROVE TypeOK'
  <2>1. link[c] = "accepted" /\ port[c] \in Port
    BY <1>20 DEF Route, WaitingInv
  <2>2. CASE Get(conns, port[c]) = NoEntry
    BY <1>20, <2>2, DropKeepsType DEF Route, TypeOK
  <2>3. CASE Get(conns, port[c]) # NoEntry
    <3> DEFINE d == Get(conns, port[c])
    <3>1. /\ link' = [link EXCEPT ![c] = "spawned"] /\ dest' = [dest EXCEPT ![c] = d]
          /\ UNCHANGED <<config, table, backlog, others, port, after, conv, data>>
          /\ loop' = "accepting"
      BY <1>20, <2>3 DEF Route
    <3>2. d \in Dest \cup {NoEntry}
      BY <2>1, GetTyped
    <3>3. Coupled'
      <4>1. dest'[c] = d /\ conv'[c] = Fresh /\ link'[c] = "spawned"
        BY <2>1, <3>1 DEF TypeOK
      <4>2. \A b \in Conn \ {c} : link'[b] = link[b] /\ dest'[b] = dest[b] /\ conv'[b] = conv[b]
        BY <3>1 DEF TypeOK
      <4>3. Fresh.at # "failed"
        BY DEF Fresh
      <4> QED
        BY <2>3, <4>1, <4>2, <4>3 DEF Coupled, TypeOK
    <3> QED
      BY <3>1, <3>2, <3>3 DEF TypeOK, Coupled, table
  <2> QED
    BY <2>2, <2>3
<1>21. ASSUME NEW c \in Conn, Dial(c) PROVE TypeOK'
  <2>1. CASE Drop({c})
    BY <1>21, <2>1, DropKeepsType DEF Dial, TypeOK
  <2>2. CASE link' = [link EXCEPT ![c] = "task"] /\ UNCHANGED <<port, conv, data>>
    <3>1. Coupled'
      BY <1>21, <2>2 DEF Dial, Coupled, TypeOK
    <3> QED
      BY <1>21, <2>2, <3>1 DEF Dial, Coupled, TypeOK, table
  <2> QED
    BY <1>21, <2>1, <2>2 DEF Dial
<1>22. ASSUME NEW n \in Others, OthersOpen(n) PROVE TypeOK'
  BY <1>22 DEF OthersOpen, TypeOK, table, relay
<1>8. CASE LoopEnds
  BY <1>8, DropKeepsType DEF LoopEnds, TypeOK
<1>9. CASE RuntimeEnds
  BY <1>9, DropKeepsType DEF RuntimeEnds, TypeOK
<1>10. ASSUME NEW c \in Conn, NEW p \in Port, OpenConn(c, p) PROVE TypeOK'
  <2>1. conns' \in [Port -> ConnectionInfo \cup {NoEntry}]
    BY <1>10, TcpRelayAssumption DEF OpenConn, Add, TypeOK, ConnectionInfo
  <2>2. backlog' \in Seq(Conn)
    BY <1>10 DEF OpenConn, TypeOK
  <2>3. Coupled'
    BY <1>10 DEF OpenConn, Coupled, TypeOK
  <2>4. after' \in [Conn -> SUBSET Conn]
    BY <1>10 DEF OpenConn, TypeOK
  <2> QED
    BY <1>10, <2>1, <2>2, <2>3, <2>4 DEF OpenConn, TypeOK, Coupled
<1>11. ASSUME NEW c \in Conn, ClientSends(c) PROVE TypeOK'
  <2>1. data[c].said + 1 \in Nat
    BY DEF TypeOK, Traffic
  <2>2. data' \in [Conn -> Traffic]
    BY <1>11, <2>1 DEF ClientSends, TypeOK, Traffic
  <2> QED
    BY <1>11, <2>2, DataKeepsType DEF ClientSends
<1>12. ASSUME NEW c \in Conn, ClientFinishes(c) PROVE TypeOK'
  <2>1. data' \in [Conn -> Traffic]
    BY <1>12 DEF ClientFinishes, TypeOK, Traffic
  <2> QED
    BY <1>12, <2>1, DataKeepsType DEF ClientFinishes
<1>13. ASSUME NEW c \in Conn, ProxyAnswers(c) PROVE TypeOK'
  <2>1. PICK v \in Answered(conv[c], config) : Set(c, v)
    BY <1>13 DEF ProxyAnswers
  <2>2. v \in Conversation(Piece)
    BY <2>1, ConfigTyped, AnsweredTyped DEF TypeOK
  <2>3. v.at = conv[c].at /\ conv[c] # Fresh
    <3>1. PICK a \in Answers(config, conv[c].asked) :
              v = [conv[c] EXCEPT !.stream = @ \o a, !.asked = "nothing", !.through = Grants(a)]
      BY <2>1 DEF Answered
    <3>2. conv[c].asked # "nothing"
      BY <3>1 DEF Answers
    <3> QED
      BY <3>1, <3>2 DEF Fresh, TypeOK, Conversation
  <2> QED
    BY <1>13, <2>1, <2>2, <2>3, SetKeepsType DEF ProxyAnswers, TypeOK
<1>14. ASSUME NEW c \in Conn, DestSends(c) PROVE TypeOK'
  <2> DEFINE v == [conv[c] EXCEPT !.stream = Append(@, Data(data[c].told + 1))]
  <2>1. conv[c] \in Conversation(Piece) /\ data[c].told \in Nat /\ conv[c].through
    BY <1>14 DEF DestSends, TypeOK, Traffic
  <2>2. v \in Conversation(Piece) /\ v.at = conv[c].at
    <3>1. Data(data[c].told + 1) \in Piece
      BY <2>1, PieceTyped
    <3>2. Append(conv[c].stream, Data(data[c].told + 1)) \in Seq(Piece)
      BY <2>1, <3>1 DEF Conversation
    <3> QED
      BY <2>1, <3>2 DEF Conversation
  <2>3. data' \in [Conn -> Traffic]
    <3>1. data[c] \in Traffic /\ data \in [Conn -> Traffic]
      BY DEF TypeOK
    <3>2. [data[c] EXCEPT !.told = @ + 1] \in Traffic
      BY <3>1, ToldTyped
    <3>3. data' = [data EXCEPT ![c] = [data[c] EXCEPT !.told = @ + 1]]
      BY <1>14, <3>1 DEF DestSends
    <3> QED
      BY <3>1, <3>2, <3>3
  <2>4. conv[c] # Fresh
    BY <2>1 DEF Fresh
  <2> QED
    BY <1>14, <2>2, <2>3, <2>4, SetKeepsType DEF DestSends
<1>15. ASSUME NEW c \in Conn, ProxyCloses(c) PROVE TypeOK'
  <2>1. Hangup(conv[c]) \in Conversation(Piece) /\ Hangup(conv[c]).at = conv[c].at
    BY DEF Hangup, TypeOK, Conversation, Question
  <2>2. conv[c] # Fresh
    BY <1>15 DEF ProxyCloses, Fresh
  <2> QED
    BY <1>15, <2>1, <2>2, SetKeepsType DEF ProxyCloses, TypeOK
<1>16. ASSUME NEW c \in Conn, Reset(c) PROVE TypeOK'
  <2>1. data' \in [Conn -> Traffic]
    BY <1>16 DEF Reset, TypeOK, Traffic
  <2> QED
    BY <1>16, <2>1, DataKeepsType DEF Reset
<1>17. CASE Cleanup
  <2>1. conns' \in [Port -> ConnectionInfo \cup {NoEntry}]
    BY <1>17 DEF Cleanup, CleanupStale, IsTracked, TypeOK
  <2> QED
    BY <1>17, <2>1 DEF Cleanup, TypeOK, relay
<1>18. CASE Tick
  BY <1>18 DEF Tick, TypeOK, relay
<1> QED
  BY <1>1, <1>2, <1>3, <1>4, <1>5, <1>6, <1>7, <1>8, <1>9, <1>10, <1>11, <1>12,
     <1>13, <1>14, <1>15, <1>16, <1>17, <1>18, <1>19, <1>20, <1>21, <1>22 DEF Next, Task

LEMMA WaitingInit == Init => WaitingInv
  BY DEF Init, WaitingInv

(* The head leaves the backlog, into the loop's hands or dropped. *)
LEMMA HeadLeaves ==
    ASSUME TypeOK, WaitingInv, backlog # <<>>, backlog' = Tail(backlog), loop = "accepting",
           NEW h, h = Head(backlog),
           \A c \in Conn \ {h} : link'[c] = link[c] /\ port'[c] = port[c],
           \/ link'[h] = "closed" /\ loop' = loop
           \/ link'[h] = "accepted" /\ loop' = "routing" /\ port'[h] = port[h]
    PROVE  WaitingInv'
<1>1. /\ h = backlog[1] /\ h \in Conn /\ link[h] = "backlog" /\ port[h] \in Port
      /\ Len(backlog') = Len(backlog) - 1
      /\ \A i \in 1..Len(backlog') : backlog'[i] = backlog[i + 1]
  BY DEF TypeOK, WaitingInv
<1>2. \A i \in 1..Len(backlog') : i + 1 \in 1..Len(backlog) /\ backlog[i + 1] \in Conn \ {h}
  BY <1>1 DEF WaitingInv, TypeOK
<1>3. \A i \in 1..Len(backlog') : link'[backlog'[i]] = "backlog"
  BY <1>1, <1>2 DEF WaitingInv
<1>4. \A i, j \in 1..Len(backlog') : backlog'[i] = backlog'[j] => i = j
  BY <1>1, <1>2 DEF WaitingInv, TypeOK
<1>5. \A c \in Conn : link[c] # "accepted"
  BY DEF WaitingInv
<1>6. /\ \A c \in Conn : link'[c] = "backlog" => c # h
      /\ \A c \in Conn : link'[c] = "accepted" => c = h /\ loop' = "routing" /\ port'[h] \in Port
      /\ loop' \in {"accepting", "routing"}
  BY <1>1, <1>5
<1> QED
  BY <1>3, <1>4, <1>6 DEF WaitingInv

(* A step of a connection that is not in the backlog. *)
LEMMA OthersWait ==
    ASSUME TypeOK, WaitingInv, NEW c \in Conn, link[c] # "backlog", UNCHANGED backlog,
           \A b \in Conn \ {c} : link'[b] = link[b] /\ port'[b] = port[b],
           link'[c] \in {"spawned", "task", "closed"},
           loop' = loop \/ (link[c] = "accepted" /\ loop' = "accepting")
    PROVE  WaitingInv'
<1>1. \A i \in 1..Len(backlog) : backlog[i] \in Conn \ {c}
  BY DEF WaitingInv, TypeOK
<1>2. \A b \in Conn : link'[b] = "accepted" => b # c /\ loop' = loop
  BY DEF WaitingInv
<1> QED
  BY <1>1, <1>2 DEF WaitingInv

LEMMA WaitingStep == TypeOK /\ WaitingInv /\ [Next]_vars => WaitingInv'
<1> SUFFICES ASSUME TypeOK, WaitingInv, [Next]_vars PROVE WaitingInv'
  OBVIOUS
<1>1. CASE Accept
  <2>1. Head(backlog) \in Conn /\ loop = "accepting" /\ backlog # <<>>
    BY <1>1 DEF Accept, TypeOK
  <2>2. /\ \A c \in Conn \ {Head(backlog)} : link'[c] = link[c]
        /\ link'[Head(backlog)] = "accepted" /\ loop' = "routing"
        /\ backlog' = Tail(backlog) /\ UNCHANGED port
    BY <1>1, <2>1 DEF Accept, TypeOK
  <2> QED
    BY <2>1, <2>2, HeadLeaves
<1>2. ASSUME NEW c \in Conn, NEW p \in Port, OpenConn(c, p) PROVE WaitingInv'
  <2>1. /\ Len(backlog') = Len(backlog) + 1 /\ backlog'[Len(backlog) + 1] = c
        /\ \A i \in 1..Len(backlog) : backlog'[i] = backlog[i] /\ backlog[i] \in Conn \ {c}
    BY <1>2 DEF OpenConn, TypeOK, WaitingInv
  <2>2. \A b \in Conn \ {c} : link'[b] = link[b] /\ port'[b] = port[b]
    BY <1>2 DEF OpenConn, TypeOK
  <2>3. /\ link'[c] = "backlog" /\ port'[c] = p
        /\ loop' = loop /\ loop \in {"accepting", "routing"}
    BY <1>2 DEF OpenConn, TypeOK
  <2>4. \A i \in 1..Len(backlog') : link'[backlog'[i]] = "backlog"
    BY <2>1, <2>2, <2>3 DEF WaitingInv, TypeOK
  <2>5. \A i, j \in 1..Len(backlog') : backlog'[i] = backlog'[j] => i = j
    BY <2>1 DEF WaitingInv, TypeOK
  <2>6. /\ \A b \in Conn : link'[b] = "accepted" => b # c /\ link[b] = "accepted"
        /\ \A b \in Conn : link'[b] \in {"backlog", "accepted"} => port'[b] \in Port
    BY <2>2, <2>3 DEF WaitingInv
  <2> QED
    BY <2>3, <2>4, <2>5, <2>6 DEF WaitingInv
<1>3. CASE LoopEnds
  <2>1. backlog' = <<>> /\ \A c \in Conn : link'[c] \notin {"backlog", "accepted"}
    BY <1>3 DEF LoopEnds, Drop, TypeOK, WaitingInv
  <2> QED
    BY <2>1 DEF WaitingInv
<1>4. CASE RuntimeEnds
  <2>1. \A c \in Conn : link[c] \notin {"backlog", "accepted"}
    BY <1>4 DEF RuntimeEnds, WaitingInv
  <2>2. \A c \in Conn : link'[c] \notin {"backlog", "accepted"}
    BY <1>4, <2>1 DEF RuntimeEnds, Drop, TypeOK
  <2>3. backlog = <<>>
    <3>1. backlog # <<>> => backlog[1] \in Conn /\ link[backlog[1]] = "backlog"
      BY DEF WaitingInv, TypeOK
    <3> QED
      BY <2>1, <3>1
  <2> QED
    BY <2>2, <2>3, <1>4 DEF WaitingInv, RuntimeEnds
<1>5. ASSUME NEW c \in Conn, Task(c) PROVE WaitingInv'
  <2>1. link[c] \in {"spawned", "task"} /\ UNCHANGED <<loop, backlog>>
    BY <1>5 DEF Task, Dial, Connect, Handshake, CopyUp, CopyDown, CopyEnds, Copying, relay
  <2>2. \/ Drop({c}) \/ UNCHANGED <<link, port>>
        \/ link' = [link EXCEPT ![c] = "task"] /\ UNCHANGED port
    BY <1>5 DEF Task, Dial, Connect, Handshake, CopyUp, CopyDown, CopyEnds, Continue, Set, relay
  <2>3. \A b \in Conn \ {c} : link'[b] = link[b] /\ port'[b] = port[b]
    BY <2>2 DEF Drop, TypeOK
  <2>4. link'[c] \in {"spawned", "task", "closed"}
    BY <2>1, <2>2 DEF Drop, TypeOK
  <2> QED
    BY <2>1, <2>3, <2>4, OthersWait
<1>6. CASE UNCHANGED <<loop, backlog, link, port>>
  BY <1>6 DEF WaitingInv
<1>7. CASE AcceptFails
  <2>1. Head(backlog) \in Conn /\ loop = "accepting" /\ backlog # <<>>
    BY <1>7 DEF AcceptFails, TypeOK
  <2>2. /\ \A c \in Conn \ {Head(backlog)} : link'[c] = link[c] /\ port'[c] = port[c]
        /\ link'[Head(backlog)] = "closed" /\ loop' = loop /\ backlog' = Tail(backlog)
    BY <1>7, <2>1 DEF AcceptFails, Drop, TypeOK
  <2> QED
    BY <2>1, <2>2, HeadLeaves
<1>8. ASSUME NEW c \in Conn, Route(c) PROVE WaitingInv'
  <2>1. link[c] = "accepted" /\ UNCHANGED backlog /\ loop' = "accepting"
    BY <1>8 DEF Route
  <2>2. Drop({c}) \/ (link' = [link EXCEPT ![c] = "spawned"] /\ UNCHANGED port)
    BY <1>8 DEF Route
  <2>3. /\ \A b \in Conn \ {c} : link'[b] = link[b] /\ port'[b] = port[b]
        /\ link'[c] \in {"spawned", "task", "closed"}
    BY <2>2 DEF Drop, TypeOK
  <2> QED
    BY <2>1, <2>3, OthersWait
<1> QED
  BY <1>1, <1>2, <1>3, <1>4, <1>5, <1>6, <1>7, <1>8 DEF Next, vars, ClientSends, ClientFinishes,
     ProxyAnswers, DestSends, ProxyCloses, Reset, Cleanup, Tick, OthersOpen, relay

(* Every variable keeps to its type; a task has a destination and a        *)
(* conversation that has not failed, and a waiting connection has not      *)
(* talked to the proxy.                                                    *)
THEOREM TypeCorrect == Spec => []TypeOK
<1> QED
  BY TypeInit, TypeStep, WaitingInit, WaitingStep, PTL DEF Spec

-----------------------------------------------------------------------------
\* The conversation and the traffic stay in step

(* Pieces of different kinds differ. *)
LEMMA Kinds ==
    /\ \A m, r : Method(m) # Reply(r) /\ Method(m) # Header(r)
    /\ \A a, r : Auth(a) # Reply(r) /\ Auth(a) # Header(r)
    /\ \A r, h : Reply(r) # Header(h)
    /\ \A r, h : Reply(r) = Reply(h) <=> r = h
    /\ \A r, h : Header(r) = Header(h) <=> r = h
  BY DEF Method, Auth, Reply, Header

LEMMA Counts ==
    /\ \A v \in Conversation(Piece) :
           /\ v.stream \in Seq(Piece) /\ Left(v) \in Nat /\ Skip(v) \in {0, 1, 3}
           /\ v.stream # <<>> => Left(v) > 0 /\ v.stream[1] = Head(v.stream)
    /\ \A d \in Traffic :
           /\ d.got \in Seq(Piece) /\ Had(d) \in Nat /\ {Told(d), d.heard, d.said} \subseteq Nat
           /\ d.got = <<>> => Had(d) = 0
<1>1. \A v \in Conversation(Piece) : v.stream \in Seq(Piece) /\ Skip(v) \in {0, 1, 3}
  BY DEF Conversation, Skip
<1>2. \A d \in Traffic : d.got \in Seq(Piece) /\ {Told(d), d.heard, d.said} \subseteq Nat
  BY DEF Traffic, Told
<1>3. \A s \in Seq(Piece) : Len(s) \in Nat /\ (s # <<>> => Len(s) > 0 /\ s[1] = Head(s))
  OBVIOUS
<1> QED
  BY <1>1, <1>2, <1>3 DEF Left, Had

(* Flowing, with nothing left of the grant. *)
LEMMA FlowingBy ==
    ASSUME NEW v, NEW d, Skip(v) = 0, v.at = "ready"
    PROVE  Flowing(v, d) <=>
             /\ v.asked = "nothing"
             /\ Left(v) >= 0
             /\ Had(d) + Left(v) = Told(d) + 0
             /\ \A k \in 1..(Left(v) - 0) : v.stream[k + 0] = Data(k + Had(d))
  BY DEF Flowing

(* Each step of the client, the proxy and the two ends keeps them in step: *)
(* the first message, a piece of traffic of the client, an answer, a read, *)
(* a hang-up, data that comes and data that is copied.                     *)
LEMMA FreshInStep ==
    ASSUME NEW cfg \in Config, NEW d \in Traffic, Told(d) = 0, d.got = <<>>, d.heard = 0
    PROVE  InStep(Fresh, d, cfg.cmd) /\ InStep(Begin(cfg), d, cfg.cmd)
<1>1. Delivered(Fresh, d) /\ Delivered(Begin(cfg), d)
  BY Counts DEF Delivered, Fresh, Begin
<1>2. Left(Fresh) = 0 /\ Left(Begin(cfg)) = 0
  BY DEF Left, Fresh, Begin
<1>3. Negotiating(Fresh, d, cfg.cmd)
  BY <1>2 DEF Negotiating, Fresh
<1>4. Negotiating(Begin(cfg), d, cfg.cmd)
  <2>1. CASE cfg.cmd = "http"
    BY <1>2, <2>1 DEF Negotiating, Fresh, Begin
  <2>2. CASE cfg.cmd # "http"
    BY <1>2, <2>2 DEF Negotiating, Fresh, Begin
  <2> QED
    BY <2>1, <2>2
<1> QED
  BY <1>1, <1>3, <1>4 DEF InStep, Fresh, Begin

(* InStep reads what the two ends have said and heard, and no more. *)
LEMMA SameTraffic ==
    ASSUME NEW v, NEW cmd, NEW d \in Traffic, NEW e \in Traffic, InStep(v, d, cmd),
           Told(e) = Told(d), e.got = d.got, e.heard = d.heard, e.said >= d.said
    PROVE  InStep(v, e, cmd)
<1>1. Had(e) = Had(d)
  BY DEF Had
<1>2. Delivered(v, e)
  BY <1>1, Counts DEF InStep, Delivered
<1>3. Negotiating(v, d, cmd) => Negotiating(v, e, cmd)
  BY DEF Negotiating
<1>4. Flowing(v, d) => Flowing(v, e)
  BY <1>1 DEF Flowing
<1> QED
  BY <1>2, <1>3, <1>4 DEF InStep

LEMMA AnsweredInStep ==
    ASSUME ReadWhole, NEW cfg \in Config, NEW v \in Conversation(Piece), NEW d \in Traffic,
           InStep(v, d, cfg.cmd), NEW w \in Answered(v, cfg)
    PROVE  InStep(w, d, cfg.cmd) /\ ~v.through /\ w.at = v.at /\ v.at # "connect"
<1>1. PICK a \in Answers(cfg, v.asked) :
          w = [v EXCEPT !.stream = @ \o a, !.asked = "nothing", !.through = Grants(a)]
  BY DEF Answered
<1>2. v.asked \in Question /\ v.asked # "nothing"
  BY <1>1 DEF Conversation, Answers
<1>3. ~v.through /\ Negotiating(v, d, cfg.cmd) /\ Delivered(v, d)
  BY <1>2 DEF InStep, Flowing
<1>4. v.stream = <<>> /\ Told(d) = 0 /\ v.at # "connect"
  BY <1>2, <1>3 DEF Negotiating, Fresh
<1>5. /\ w.at = v.at /\ w.asked = "nothing" /\ w.through = Grants(a)
      /\ w.stream = <<>> \o a
  BY <1>1, <1>4 DEF Conversation
<1>6. Delivered(w, d)
  BY <1>3, <1>5 DEF Delivered
<1>7. d.got = <<>> /\ Had(d) = 0
  BY <1>2, <1>3, Counts DEF Negotiating, Delivered
<1>8. CASE v.asked = "hello" \/ v.asked = "credentials"
  <2>1. PICK x : a = <<x>> /\ ~Grants(a)
    BY <1>1, <1>2, <1>8, AnswerCases, Kinds DEF Grants
  <2>2. w.stream = <<x>> /\ Left(w) = 1
    BY <1>5, <2>1 DEF Left
  <2>3. v.at = "method" \/ v.at = "auth"
    BY <1>3, <1>8 DEF Negotiating
  <2>4. Negotiating(w, d, cfg.cmd)
    BY <1>3, <1>4, <1>5, <2>2, <2>3 DEF Negotiating
  <2> QED
    BY <1>3, <1>4, <1>5, <1>6, <2>1, <2>4 DEF InStep
<1>9. CASE v.asked = "request" /\ cfg.cmd = "http"
  <2>1. PICK h \in {"200", "other"} : a = <<Header("stub"), Header(h), Header("tail")>>
    BY <1>1, <1>2, <1>9, AnswerCases
  <2>2. w.stream = <<Header("stub"), Header(h), Header("tail")>> /\ w.at = "header"
    BY <1>3, <1>5, <1>9, <2>1 DEF Negotiating
  <2>3. w.through <=> h = "200"
    BY <1>5, <2>1, Kinds DEF Grants
  <2>4. CASE h = "200"
    <3>1. w.through /\ w.asked = "nothing" /\ w.stream[2] = Header("200") /\ Skip(w) = 3
      BY <1>5, <2>2, <2>3, <2>4 DEF Skip
    <3>2. Left(w) = 3
      BY <2>2 DEF Left
    <3>3. Flowing(w, d)
      BY <1>4, <1>7, <2>2, <3>1, <3>2 DEF Flowing
    <3> QED
      BY <1>3, <1>4, <1>5, <1>6, <3>1, <3>3 DEF InStep
  <2>5. CASE h # "200"
    <3>1. \A i \in 1..3 : w.stream[i] # Header("200")
      BY <2>2, <2>5, Kinds
    <3> QED
      BY <1>3, <1>4, <1>5, <1>6, <2>2, <2>3, <2>5, <3>1 DEF InStep, Negotiating
  <2> QED
    BY <2>4, <2>5
<1>10. CASE v.asked = "request" /\ cfg.cmd # "http"
  <2>1. a = <<Reply("ipv4")>> \/ a = <<Reply("refused")>>
    BY <1>1, <1>2, <1>10, AnswerCases DEF ReadWhole
  <2>2. w.at = "reply" /\ w.stream = a
    BY <1>3, <1>5, <1>10, <2>1 DEF Negotiating
  <2>3. CASE a = <<Reply("ipv4")>>
    <3>1. Grants(a) /\ Len(a) = 1 /\ a[1] = Reply("ipv4")
      BY <2>3 DEF Grants
    <3>2. w.through /\ Skip(w) = 1 /\ w.stream[1] = Reply("ipv4") /\ Left(w) = 1
      BY <1>5, <2>2, <3>1 DEF Skip, Left
    <3>3. Flowing(w, d)
      BY <1>4, <1>5, <1>7, <2>2, <3>2 DEF Flowing
    <3> QED
      BY <1>3, <1>4, <1>5, <1>6, <3>2, <3>3 DEF InStep
  <2>4. CASE a = <<Reply("refused")>>
    <3>1. ~Grants(a) /\ Len(a) = 1 /\ a[1] = Reply("refused")
      BY <2>4, Kinds DEF Grants
    <3>2. ~w.through /\ Left(w) = 1 /\ w.stream[1] = Reply("refused")
      BY <1>5, <2>2, <3>1 DEF Left
    <3> QED
      BY <1>3, <1>4, <1>5, <1>6, <1>10, <2>2, <3>2 DEF InStep, Negotiating
  <2> QED
    BY <2>1, <2>3, <2>4
<1> QED
  BY <1>2, <1>8, <1>9, <1>10 DEF Question

(* The pieces from the fourth on. *)
LEMMA Skipped ==
    ASSUME NEW t \in Seq(Piece), NEW n \in Nat, n = Len(t), n >= 3
    PROVE  /\ Len(SubSeq(t, 4, n)) = n - 3
           /\ \A i \in 1..(n - 3) : SubSeq(t, 4, n)[i] = t[i + 3]
<1>1. \A i \in 4..n : t[i] \in Piece
  OBVIOUS
<1>2. Len(SubSeq(t, 4, n)) = IF 4 <= n THEN n - 4 + 1 ELSE 0
  BY <1>1, SubSeqProperties
<1>3. \A i \in 1..(n - 4 + 1) : SubSeq(t, 4, n)[i] = t[4 + i - 1]
  BY <1>1, SubSeqProperties
<1>4. n - 4 + 1 = n - 3 /\ (~(4 <= n) => n - 3 = 0)
  OBVIOUS
<1>5. \A i \in 1..(n - 3) : 4 + i - 1 = i + 3
  OBVIOUS
<1> QED
  BY <1>2, <1>3, <1>4, <1>5

(* One piece less. *)
LEMMA TailTaken ==
    ASSUME NEW v \in Conversation(Piece), v.stream # <<>>, NEW w, w.stream = Tail(v.stream)
    PROVE  Left(w) = Left(v) - 1 /\ \A i \in 1..Left(w) : w.stream[i] = v.stream[i + 1]
<1>1. \A t \in Seq(Piece) : t # <<>> =>
          Len(Tail(t)) = Len(t) - 1 /\ \A i \in 1..Len(Tail(t)) : Tail(t)[i] = t[i + 1]
  OBVIOUS
<1> QED
  BY <1>1, Counts DEF Left

LEMMA ReadsInStep ==
    ASSUME ReadWhole, NEW cfg \in Config, cfg.cmd # "associate", NEW v \in Conversation(Piece),
           NEW d \in Traffic, InStep(v, d, cfg.cmd), Handshaking(v),
           NEW w \in Reads(v, cfg), w.at # "failed"
    PROVE  InStep(w, d, cfg.cmd) /\ w.through = v.through
<1>1. v.stream # <<>> /\ w # Failed
  BY DEF Reads, Failed, Fresh
<1>2. v.stream \in Seq(Piece) /\ Left(v) \in Nat \ {0} /\ v.stream[1] = Head(v.stream)
  BY <1>1, Counts
<1>3. CASE v.through
  <2>1. Flowing(v, d) /\ Delivered(v, d)
    BY <1>3 DEF InStep
  <2>2. d.got = <<>> /\ Had(d) = 0 /\ d.heard = 0
    BY <2>1, Counts DEF Delivered, Handshaking
  <2>3. CASE v.at = "reply"
    <3>1. w = [v EXCEPT !.stream = Tail(@), !.at = "ready"]
      <4>1. Head(v.stream) = Reply("ipv4")
        BY <1>2, <2>1, <2>3 DEF Flowing
      <4>2. Head(v.stream) # Reply("refused") /\ Head(v.stream) # Reply("long")
        BY <4>1, Kinds
      <4>3. w = AfterReply(v, cfg)
        BY <1>1, <2>3 DEF Reads
      <4> QED
        BY <4>2, <4>3 DEF AfterReply
    <3>2. /\ w.at = "ready" /\ w.asked = v.asked /\ w.through
          /\ Left(w) = Left(v) - 1
          /\ \A i \in 1..Left(w) : w.stream[i] = v.stream[i + 1]
      <4>1. w.at = "ready" /\ w.asked = v.asked /\ w.through = v.through /\ w.stream = Tail(v.stream)
        BY <3>1 DEF Conversation
      <4>2. /\ Left(w) = Left(v) - 1
            /\ \A i \in 1..Left(w) : w.stream[i] = v.stream[i + 1]
        BY <1>1, <4>1, TailTaken
      <4> QED
        BY <1>3, <4>1, <4>2
    <3>3. /\ Skip(v) = 1 /\ Skip(w) = 0 /\ Left(v) = Told(d) + 1 /\ Left(w) = Told(d)
          /\ Told(d) \in Nat
      <4>1. Skip(v) = 1 /\ Skip(w) = 0
        BY <2>3, <3>2 DEF Skip
      <4>2. Had(d) + Left(v) = Told(d) + Skip(v)
        BY <2>1 DEF Flowing
      <4> QED
        BY <1>2, <2>2, <3>2, <4>1, <4>2, Counts
    <3>4. \A k \in 1..Told(d) : w.stream[k] = Data(k)
      <4> SUFFICES ASSUME NEW k \in 1..Told(d) PROVE w.stream[k] = Data(k)
        OBVIOUS
      <4>1. v.stream[k + 1] = Data(k + 0)
        BY <2>1, <2>2, <3>3 DEF Flowing
      <4> QED
        BY <3>2, <3>3, <4>1
    <3>5. Flowing(w, d)
      <4>1. \A k \in 1..(Left(w) - Skip(w)) : w.stream[k + Skip(w)] = Data(k + Had(d))
        BY <2>2, <3>3, <3>4
      <4> QED
        BY <2>1, <2>2, <3>2, <3>3, <4>1 DEF Flowing
    <3> QED
      BY <1>3, <2>1, <3>2, <3>5 DEF InStep, Delivered
  <2>4. CASE v.at = "header"
    <3>1. w = AfterHeader(v, 3)
      BY <1>1, <2>4 DEF Reads, ReadWhole
    <3>2. w = [v EXCEPT !.stream = SubSeq(@, 4, Len(@)), !.at = "ready"]
      BY <1>1, <3>1 DEF AfterHeader
    <3>3. Left(v) >= 3
      BY <2>1, <2>4 DEF Flowing, Skip
    <3>4. /\ w.at = "ready" /\ w.asked = v.asked /\ w.through /\ Left(w) = Left(v) - 3
          /\ \A i \in 1..Left(w) : w.stream[i] = v.stream[i + 3]
      <4>1. w.at = "ready" /\ w.asked = v.asked /\ w.through
        BY <1>3, <3>2 DEF Conversation
      <4>2. w.stream = SubSeq(v.stream, 4, Left(v))
        BY <3>2 DEF Conversation, Left
      <4>3. \A t \in Seq(Piece), n \in Nat : n = Len(t) /\ n >= 3 =>
                /\ Len(SubSeq(t, 4, n)) = n - 3
                /\ \A i \in 1..(n - 3) : SubSeq(t, 4, n)[i] = t[i + 3]
        BY Skipped
      <4> QED
        BY <1>2, <3>3, <4>1, <4>2, <4>3 DEF Left
    <3>5. /\ Skip(v) = 3 /\ Skip(w) = 0 /\ Left(v) = Told(d) + 3 /\ Left(w) = Told(d)
          /\ Told(d) \in Nat
      <4>1. Skip(v) = 3 /\ Skip(w) = 0
        BY <2>4, <3>4 DEF Skip
      <4>2. Had(d) + Left(v) = Told(d) + Skip(v)
        BY <2>1 DEF Flowing
      <4> QED
        BY <1>2, <2>2, <3>4, <4>1, <4>2, Counts
    <3>6. \A k \in 1..Told(d) : w.stream[k] = Data(k)
      <4> SUFFICES ASSUME NEW k \in 1..Told(d) PROVE w.stream[k] = Data(k)
        OBVIOUS
      <4>1. v.stream[k + 3] = Data(k + 0)
        BY <2>1, <2>2, <3>5 DEF Flowing
      <4> QED
        BY <3>4, <3>5, <4>1
    <3>7. Flowing(w, d)
      <4>1. \A k \in 1..(Left(w) - Skip(w)) : w.stream[k + Skip(w)] = Data(k + Had(d))
        BY <2>2, <3>5, <3>6
      <4> QED
        BY <2>1, <2>2, <3>4, <3>5, <4>1 DEF Flowing
    <3> QED
      BY <1>3, <2>1, <3>4, <3>7 DEF InStep, Delivered
  <2> QED
    BY <2>1, <2>3, <2>4 DEF Flowing, Handshaking
<1>4. CASE ~v.through
  <2>1. Negotiating(v, d, cfg.cmd) /\ Delivered(v, d) /\ Told(d) = 0
    BY <1>4 DEF InStep, Negotiating
  <2>2. CASE v.at = "method" \/ v.at = "auth"
    <3>1. Tail(v.stream) = <<>> /\ cfg.cmd # "http"
      <4>1. Left(v) <= 1 /\ cfg.cmd # "http"
        BY <2>1, <2>2 DEF Negotiating
      <4>2. \A t \in Seq(Piece) : t # <<>> /\ Len(t) <= 1 => Tail(t) = <<>>
        OBVIOUS
      <4> QED
        BY <1>1, <1>2, <4>1, <4>2 DEF Left
    <3>2. w = Ask(v, "credentials", "auth") \/ w = Ask(v, "request", "reply")
      BY <1>1, <2>2 DEF Reads, AfterMethod, AfterAuth
    <3>3. /\ w.stream = <<>> /\ w.through = v.through
          /\ \/ w.asked = "credentials" /\ w.at = "auth"
             \/ w.asked = "request" /\ w.at = "reply"
      BY <3>1, <3>2 DEF Ask, Conversation
    <3>4. Delivered(w, d)
      BY <2>1, <2>2, <3>3 DEF Delivered
    <3>5. Negotiating(w, d, cfg.cmd)
      <4>1. Left(w) = 0
        BY <3>3 DEF Left
      <4> QED
        BY <2>1, <3>1, <3>3, <4>1 DEF Negotiating
    <3> QED
      BY <1>4, <3>3, <3>4, <3>5 DEF InStep
  <2>3. CASE v.at = "reply"
    BY <1>1, <1>2, <2>1, <2>3 DEF Negotiating, Reads, AfterReply
  <2>4. CASE v.at = "header"
    BY <1>1, <2>1, <2>4 DEF Negotiating, Reads, AfterHeader, ReadWhole
  <2> QED
    BY <2>2, <2>3, <2>4 DEF Handshaking
<1> QED
  BY <1>3, <1>4 DEF Conversation

LEMMA GrantedReadsOn ==
    ASSUME ReadWhole, NEW cfg \in Config, cfg.cmd # "associate", NEW v \in Conversation(Piece),
           NEW d \in Traffic, InStep(v, d, cfg.cmd), Handshaking(v), v.through,
           NEW w \in Reads(v, cfg)
    PROVE  w.at # "failed"
<1>1. Flowing(v, d) /\ Left(v) \in Nat
  BY Counts DEF InStep
<1>2. CASE v.at = "reply"
  <2>1. Skip(v) = 1 /\ Left(v) >= Skip(v)
    BY <1>1, <1>2 DEF Skip, Flowing
  <2>2. v.stream # <<>>
    BY <1>1, <2>1 DEF Left
  <2>3. v.stream[1] = Reply("ipv4") /\ Head(v.stream) = v.stream[1]
    BY <1>1, <1>2, <2>2, Counts DEF Flowing
  <2>4. w = [v EXCEPT !.stream = Tail(@), !.at = "ready"]
    BY <1>2, <2>2, <2>3, Kinds DEF Reads, AfterReply
  <2> QED
    BY <2>4 DEF Conversation
<1>3. CASE v.at = "header"
  <2>1. Skip(v) = 3 /\ Left(v) >= Skip(v)
    BY <1>1, <1>3 DEF Skip, Flowing
  <2>2. v.stream # <<>>
    BY <1>1, <2>1 DEF Left
  <2>3. w = AfterHeader(v, 3)
    BY <1>3, <2>2 DEF Reads, ReadWhole
  <2>4. \E i \in 1..3 : v.stream[i] = Header("200")
    BY <1>1, <1>3 DEF Flowing
  <2>5. w = [v EXCEPT !.stream = SubSeq(@, 3 + 1, Len(@)), !.at = "ready"]
    BY <2>3, <2>4 DEF AfterHeader
  <2> QED
    BY <2>5 DEF Conversation
<1> QED
  BY <1>1, <1>2, <1>3 DEF Flowing, Handshaking

LEMMA HangupInStep ==
    ASSUME NEW cmd, NEW v \in Conversation(Piece), NEW d \in Traffic, InStep(v, d, cmd)
    PROVE  InStep(Hangup(v), d, cmd) /\ Hangup(v).through = v.through /\ Hangup(v).at = v.at
<1>1. /\ Hangup(v).at = v.at /\ Hangup(v).asked = "nothing" /\ Hangup(v).stream = v.stream
      /\ Hangup(v).through = v.through /\ Left(Hangup(v)) = Left(v)
  BY DEF Hangup, Conversation, Left
<1>2. Delivered(Hangup(v), d)
  BY <1>1 DEF InStep, Delivered
<1>3. Flowing(v, d) => Flowing(Hangup(v), d)
  BY <1>1 DEF Flowing, Skip
<1>4. Negotiating(v, d, cmd) => Negotiating(Hangup(v), d, cmd)
  BY <1>1 DEF Negotiating
<1> QED
  BY <1>1, <1>2, <1>3, <1>4 DEF InStep

(* One piece more. *)
LEMMA Appended ==
    ASSUME NEW t \in Seq(Piece), NEW x
    PROVE  /\ Len(Append(t, x)) = Len(t) + 1
           /\ Append(t, x)[Len(t) + 1] = x
           /\ \A i \in 1..Len(t) : Append(t, x)[i] = t[i]
  OBVIOUS

LEMMA ToldInStep ==
    ASSUME NEW cmd, NEW v \in Conversation(Piece), NEW d \in Traffic, InStep(v, d, cmd), v.through,
           NEW w, w.at = v.at, w.asked = v.asked, w.through,
           w.stream = Append(v.stream, Data(Told(d) + 1)),
           NEW e, Told(e) = Told(d) + 1, e.got = d.got, e.heard = d.heard, e.said = d.said
    PROVE  InStep(w, e, cmd)
<1>1. Flowing(v, d) /\ Delivered(v, d)
  BY DEF InStep
<1>2. Left(v) \in Nat /\ Had(d) \in Nat /\ Told(d) \in Nat /\ Skip(v) \in Nat
  BY Counts
<1>3. Skip(w) = Skip(v) /\ Had(e) = Had(d)
  BY DEF Skip, Had
<1>4. Left(w) = Left(v) + 1
  BY Counts, Appended DEF Left
<1>5. w.stream[Left(v) + 1] = Data(Told(d) + 1)
  BY Counts, Appended DEF Left
<1>6. \A i \in 1..Left(v) : w.stream[i] = v.stream[i]
  BY Counts, Appended DEF Left
<1>7. Had(d) + Left(v) = Told(d) + Skip(v) /\ Left(v) >= Skip(v)
  BY <1>1 DEF Flowing
<1>8. Had(e) + Left(w) = Told(e) + Skip(w) /\ Left(w) >= Skip(w)
  BY <1>2, <1>3, <1>4, <1>7
<1>9. \A k \in 1..(Left(w) - Skip(w)) : w.stream[k + Skip(w)] = Data(k + Had(e))
  <2> SUFFICES ASSUME NEW k \in 1..(Left(w) - Skip(w))
               PROVE  w.stream[k + Skip(w)] = Data(k + Had(e))
    OBVIOUS
  <2>1. k \in Nat /\ k <= Left(v) + 1 - Skip(v) /\ k >= 1
    BY <1>2, <1>3, <1>4
  <2>2. CASE k = Left(v) + 1 - Skip(v)
    <3>1. k + Skip(w) = Left(v) + 1
      BY <1>2, <1>3, <2>2
    <3>2. k + Had(e) = Told(d) + 1
      <4> DEFINE h == Had(d)  l == Left(v)  s == Skip(v)  t == Told(d)
      <4>1. h \in Nat /\ l \in Nat /\ s \in Nat /\ t \in Nat /\ h + l = t + s /\ k = l + 1 - s
        BY <1>2, <1>7, <2>2
      <4> HIDE DEF h, l, s, t
      <4>2. k + h = t + 1
        BY <4>1
      <4> QED
        BY <1>3, <4>2 DEF h, t
    <3> QED
      BY <1>5, <3>1, <3>2
  <2>3. CASE k # Left(v) + 1 - Skip(v)
    <3>1. k \in 1..(Left(v) - Skip(v)) /\ k + Skip(v) \in 1..Left(v)
      BY <1>2, <2>1, <2>3
    <3>2. v.stream[k + Skip(v)] = Data(k + Had(d))
      BY <1>1, <3>1 DEF Flowing
    <3> QED
      BY <1>3, <1>6, <3>1, <3>2
  <2> QED
    BY <2>2, <2>3
<1>10. Flowing(w, e)
  <2>1. v.at = "reply" => 1 \in 1..Left(v)
    BY <1>2, <1>7 DEF Skip
  <2>2. v.at = "header" => 2 \in 1..Left(v)
    BY <1>2, <1>7 DEF Skip
  <2> QED
    BY <1>1, <1>6, <1>8, <1>9, <2>1, <2>2 DEF Flowing
<1> QED
  BY <1>1, <1>3, <1>10 DEF InStep, Delivered

(* In the copying phase the stream holds data only.                        *)
LEMMA ReadyPieces ==
    ASSUME NEW cmd, NEW v \in Conversation(Piece), NEW d \in Traffic, InStep(v, d, cmd), v.at = "ready"
    PROVE  /\ v.through /\ Had(d) + Left(v) = Told(d)
           /\ \A k \in 1..Left(v) : v.stream[k] = Data(k + Had(d))
<1>1. v.through /\ Flowing(v, d) /\ Skip(v) = 0
  BY DEF InStep, Negotiating, Skip
<1>2. Left(v) \in Nat /\ Had(d) \in Nat /\ Told(d) \in Nat
  BY Counts
<1>3. /\ Had(d) + Left(v) = Told(d) + 0
      /\ \A k \in 1..(Left(v) - 0) : v.stream[k + 0] = Data(k + Had(d))
  BY <1>1, FlowingBy
<1>4. \A k \in 1..Left(v) : k \in 1..(Left(v) - 0) /\ k + 0 = k
  BY <1>2
<1> QED
  BY <1>1, <1>2, <1>3, <1>4

LEMMA FirstIsNext ==
    ASSUME NEW cmd, NEW v \in Conversation(Piece), NEW d \in Traffic, InStep(v, d, cmd),
           v.at = "ready", v.stream # <<>>
    PROVE  Head(v.stream) = Data(Had(d) + 1) /\ Had(d) < Told(d)
<1>1. Left(v) \in Nat \ {0} /\ Had(d) \in Nat /\ Told(d) \in Nat /\ v.stream[1] = Head(v.stream)
  BY Counts
<1>2. /\ Had(d) + Left(v) = Told(d)
      /\ \A k \in 1..Left(v) : v.stream[k] = Data(k + Had(d))
  BY ReadyPieces
<1>3. Head(v.stream) = Data(1 + Had(d)) /\ Had(d) < Told(d) /\ 1 + Had(d) = Had(d) + 1
  BY <1>1, <1>2
<1> QED
  BY <1>3

LEMMA DeliveredInStep ==
    ASSUME NEW cmd, NEW v \in Conversation(Piece), NEW d \in Traffic, InStep(v, d, cmd),
           v.at = "ready", v.stream # <<>>,
           NEW w, w.at = v.at, w.asked = v.asked, w.through = v.through, w.stream = Tail(v.stream),
           NEW e, Told(e) = Told(d), e.heard = d.heard, e.said = d.said,
           e.got = Append(d.got, Head(v.stream))
    PROVE  /\ InStep(w, e, cmd) /\ v.through
           /\ Head(v.stream) = Data(Had(d) + 1) /\ Had(d) < Told(d)
<1>1. v.through /\ Flowing(v, d) /\ Delivered(v, d) /\ Skip(v) = 0
  BY DEF InStep, Negotiating, Skip
<1>2. Left(v) \in Nat \ {0} /\ Had(d) \in Nat /\ Told(d) \in Nat
  BY Counts
<1>3. /\ Had(d) + Left(v) = Told(d)
      /\ \A k \in 1..Left(v) : v.stream[k] = Data(k + Had(d))
  BY ReadyPieces
<1>4. Head(v.stream) = Data(Had(d) + 1) /\ Had(d) < Told(d)
  BY FirstIsNext
<1>5. Left(w) = Left(v) - 1
  BY TailTaken
<1>6. \A i \in 1..Left(w) : w.stream[i] = v.stream[i + 1]
  BY TailTaken
<1>7. Had(e) = Had(d) + 1 /\ e.got[Had(d) + 1] = Data(Had(d) + 1)
  BY <1>4, Counts, Appended DEF Had
<1>8. \A i \in 1..Had(d) : e.got[i] = d.got[i]
  BY Counts, Appended DEF Had
<1>9. \A k \in 1..Left(w) : w.stream[k] = Data(k + Had(e))
  <2> SUFFICES ASSUME NEW k \in 1..Left(w) PROVE w.stream[k] = Data(k + Had(e))
    OBVIOUS
  <2>1. k \in Nat /\ k <= Left(v) - 1 /\ k >= 1
    BY <1>2, <1>5
  <2>2. k + 1 \in 1..Left(v)
    BY <1>2, <2>1
  <2>3. Had(e) = Had(d) + 1
    BY <1>7
  <2>4. (k + 1) + Had(d) = k + Had(e)
    BY <1>2, <2>1, <2>3
  <2> QED
    BY <1>3, <1>6, <2>2, <2>4
<1>10. Flowing(w, e)
  <2>1. Skip(w) = 0
    BY DEF Skip
  <2>2. Left(w) >= 0 /\ Had(e) + Left(w) = Told(e) + 0
    BY <1>2, <1>3, <1>5, <1>7
  <2>3. \A k \in 1..(Left(w) - 0) : w.stream[k + 0] = Data(k + Had(e))
    <3>1. Left(w) - 0 = Left(w) /\ \A k \in 1..Left(w) : k + 0 = k
      BY <1>2, <1>5
    <3> QED
      BY <1>9, <3>1
  <2> QED
    BY <1>1, <2>1, <2>2, <2>3, FlowingBy DEF Flowing
<1>11. Delivered(w, e)
  <2> SUFFICES ASSUME NEW i \in 1..Had(e) PROVE e.got[i] = Data(i)
    BY <1>1 DEF Delivered
  <2>1. i = Had(d) + 1 \/ i \in 1..Had(d)
    BY <1>2, <1>7
  <2> QED
    BY <1>1, <1>7, <1>8, <2>1 DEF Delivered
<1> QED
  BY <1>1, <1>4, <1>10, <1>11 DEF InStep

-----------------------------------------------------------------------------
\* The invariant

LEMMA CmdTyped == TypeOK => config \in Config /\ config.cmd # "associate"
  BY TcpRelayAssumption DEF TypeOK, Config

(* Only a task's connection has a conversation under way. *)
LEMMA Talking ==
    ASSUME TypeOK, TrafficInv, NEW c \in Conn,
           conv[c].open \/ conv[c].through \/ conv[c].asked # "nothing"
    PROVE  link[c] = "task"
<1>1. conv[c] # Fresh /\ conv[c] # Failed
  BY DEF Fresh, Failed
<1> QED
  BY <1>1 DEF TypeOK, TrafficInv, Settled

LEMMA SameSettled ==
    ASSUME NEW b \in Conn, Settled(b), UNCHANGED config,
           link'[b] = link[b], conv'[b] = conv[b], data'[b] = data[b]
    PROVE  Settled(b)'
  BY DEF Settled

LEMMA DropSettles ==
    ASSUME TypeOK, TrafficInv, NEW C \in SUBSET Conn, Drop(C), UNCHANGED config
    PROVE  TrafficInv'
<1> SUFFICES ASSUME NEW b \in Conn PROVE Settled(b)'
  BY DEF TrafficInv
<1>1. CASE b \in C
  BY <1>1, DropTyped DEF Settled
<1>2. CASE b \notin C
  BY <1>2, DropTyped, SameSettled DEF TrafficInv
<1> QED
  BY <1>1, <1>2

LEMMA OneSettles ==
    ASSUME TypeOK, TrafficInv, NEW c \in Conn, link[c] \in Open, UNCHANGED config,
           \A b \in Conn \ {c} : link'[b] = link[b] /\ conv'[b] = conv[b] /\ data'[b] = data[b],
           link'[c] = link[c], InStep(conv'[c], data'[c], config.cmd),
           link[c] # "task" => ~data'[c].reset
    PROVE  TrafficInv'
<1> SUFFICES ASSUME NEW b \in Conn PROVE Settled(b)'
  BY DEF TrafficInv
<1>1. CASE b = c
  BY <1>1 DEF Settled
<1>2. CASE b # c
  BY <1>2, SameSettled DEF TrafficInv
<1> QED
  BY <1>1, <1>2

LEMMA ContinueSettles ==
    ASSUME TypeOK, TrafficInv, NEW c \in Conn, link[c] = "task", UNCHANGED config,
           NEW v \in Conversation(Piece), Continue(c, v),
           v.at # "failed" => InStep(v, data[c], config.cmd)
    PROVE  TrafficInv'
<1>1. CASE v.at = "failed"
  BY <1>1, DropSettles DEF Continue
<1>2. CASE v.at # "failed"
  <2>1. Set(c, v) /\ UNCHANGED <<link, port, data>>
    BY <1>2 DEF Continue
  <2>2. conv'[c] = v /\ \A b \in Conn \ {c} : conv'[b] = conv[b]
    BY <2>1, SetTyped
  <2>3. InStep(conv'[c], data'[c], config.cmd)
    BY <1>2, <2>1, <2>2
  <2> QED
    BY <2>1, <2>2, <2>3, OneSettles
<1> QED
  BY <1>1, <1>2

(* A change of data[c] that only the client's side sees. *)
LEMMA DataSettles ==
    ASSUME TypeOK, TrafficInv, NEW c \in Conn, link[c] \in Open,
           NEW e \in Traffic, data' = [data EXCEPT ![c] = e],
           UNCHANGED <<config, link, conv>>,
           e.told = data[c].told, e.got = data[c].got, e.heard = data[c].heard,
           e.said >= data[c].said, link[c] # "task" => ~e.reset
    PROVE  TrafficInv'
<1>1. data[c] \in Traffic /\ data'[c] = e /\ \A b \in Conn \ {c} : data'[b] = data[b]
  BY DEF TypeOK
<1>2. InStep(conv[c], data[c], config.cmd)
  BY DEF TrafficInv, Settled
<1>3. InStep(conv[c], e, config.cmd)
  BY <1>1, <1>2, SameTraffic DEF Told
<1> QED
  BY <1>1, <1>3, OneSettles

(* A connection goes on, from the backlog to the task, without traffic. *)
LEMMA MoveSettles ==
    ASSUME TypeOK, TrafficInv, NEW c \in Conn, link[c] \in Open \ {"task"}, NEW l \in Open,
           link' = [link EXCEPT ![c] = l], UNCHANGED <<config, conv, data>>
    PROVE  TrafficInv'
<1> SUFFICES ASSUME NEW b \in Conn PROVE Settled(b)'
  BY DEF TrafficInv
<1>1. CASE b = c
  BY <1>1 DEF Settled, TypeOK, TrafficInv
<1>2. CASE b # c
  <2>1. link'[b] = link[b]
    BY <1>2 DEF TypeOK
  <2> QED
    BY <2>1, SameSettled DEF TrafficInv
<1> QED
  BY <1>1, <1>2

LEMMA TrafficInit == Init => TrafficInv
  BY DEF Init, TrafficInv, Settled

LEMMA TrafficStep == ReadWhole /\ TypeOK /\ WaitingInv /\ TrafficInv /\ [Next]_vars => TrafficInv'
<1> SUFFICES ASSUME ReadWhole, TypeOK, WaitingInv, TrafficInv, [Next]_vars PROVE TrafficInv'
  OBVIOUS
<1>1. /\ \A c \in Conn : conv[c] \in Conversation(Piece) /\ data[c] \in Traffic
      /\ \A c \in Conn : link[c] \in Open => InStep(conv[c], data[c], config.cmd)
  BY DEF TypeOK, TrafficInv, Settled
<1>2. CASE UNCHANGED <<config, link, conv, data>>
  <2>1. \A b \in Conn : Settled(b)'
    BY <1>2 DEF TrafficInv, Settled
  <2> QED
    BY <2>1 DEF TrafficInv
<1>3. ASSUME NEW c \in Conn, Connect(c) PROVE TrafficInv'
  <2>1. PICK v \in {Begin(config), Failed} : Continue(c, v)
    BY <1>3 DEF Connect
  <2>2. link[c] = "task" /\ conv[c].at = "connect" /\ UNCHANGED config
    BY <1>3 DEF Connect
  <2>3. Negotiating(conv[c], data[c], config.cmd) /\ Delivered(conv[c], data[c])
    BY <1>1, <2>2 DEF InStep, Flowing
  <2>4. data[c].told = 0 /\ data[c].got = <<>> /\ data[c].heard = 0
    BY <2>2, <2>3 DEF Negotiating, Delivered, Told
  <2>5. InStep(Begin(config), data[c], config.cmd)
    BY <1>1, <2>4, CmdTyped, FreshInStep DEF Told
  <2>6. v = Begin(config) \/ v.at = "failed"
    BY <2>1 DEF Failed, Fresh
  <2> QED
    BY <2>1, <2>2, <2>5, <2>6, StartTyped, ContinueSettles
<1>4. ASSUME NEW c \in Conn, Handshake(c) PROVE TrafficInv'
  <2>1. PICK v \in Reads(conv[c], config) : Continue(c, v)
    BY <1>4 DEF Handshake
  <2>2. link[c] = "task" /\ Handshaking(conv[c]) /\ UNCHANGED config
    BY <1>4 DEF Handshake
  <2>3. v \in Conversation(Piece)
    BY <1>1, <2>1, <2>2, CmdTyped, ReadsTyped
  <2>4. v.at # "failed" => InStep(v, data[c], config.cmd)
    BY <1>1, <2>1, <2>2, CmdTyped, ReadsInStep
  <2> QED
    BY <2>1, <2>2, <2>3, <2>4, ContinueSettles
<1>5. ASSUME NEW c \in Conn, CopyUp(c) PROVE TrafficInv'
  <2>1. link[c] = "task" /\ conv[c].at = "ready" /\ UNCHANGED <<config, link, conv>>
    BY <1>5 DEF CopyUp, Copying, relay
  <2>2. \A b \in Conn \ {c} : data'[b] = data[b]
    BY <1>5 DEF CopyUp, TypeOK
  <2>3. /\ data'[c].told = data[c].told /\ data'[c].got = data[c].got
        /\ data'[c].said = data[c].said /\ data'[c].heard <= data[c].said
    <3>1. data[c] \in Traffic /\ data'[c] = [data[c] EXCEPT !.heard = @ + 1]
      BY <1>5 DEF CopyUp, TypeOK
    <3>2. data[c].heard + 1 <= data[c].said
      BY <1>5, <3>1 DEF CopyUp, Traffic
    <3> QED
      BY <3>1, <3>2 DEF Traffic
  <2>4. Flowing(conv[c], data[c]) /\ Delivered(conv[c], data[c]) /\ conv[c].through
    BY <1>1, <2>1 DEF InStep, Negotiating
  <2>5. Told(data'[c]) = Told(data[c]) /\ Had(data'[c]) = Had(data[c])
    BY <2>3 DEF Told, Had
  <2>6. Flowing(conv[c], data'[c])
    BY <2>4, <2>5 DEF Flowing
  <2>7. Delivered(conv[c], data'[c])
    BY <2>1, <2>3, <2>4, <2>5 DEF Delivered
  <2>8. InStep(conv'[c], data'[c], config.cmd)
    BY <2>1, <2>4, <2>6, <2>7 DEF InStep
  <2> QED
    BY <2>1, <2>2, <2>8, OneSettles
<1>6. ASSUME NEW c \in Conn, CopyDown(c) PROVE TrafficInv'
  <2>1. link[c] = "task" /\ conv[c].at = "ready" /\ conv[c].stream # <<>> /\ UNCHANGED <<config, link>>
    BY <1>6 DEF CopyDown, Copying, relay
  <2>2. \A b \in Conn \ {c} : conv'[b] = conv[b] /\ data'[b] = data[b]
    BY <1>6 DEF CopyDown, TypeOK, Set
  <2>3. /\ conv'[c].at = conv[c].at /\ conv'[c].asked = conv[c].asked
        /\ conv'[c].through = conv[c].through /\ conv'[c].stream = Tail(conv[c].stream)
    BY <1>1, <1>6 DEF CopyDown, TypeOK, Set, Conversation
  <2>4. /\ data'[c].told = data[c].told /\ data'[c].heard = data[c].heard /\ data'[c].said = data[c].said
        /\ data'[c].got = Append(data[c].got, Head(conv[c].stream))
    BY <1>1, <1>6 DEF CopyDown, TypeOK, Traffic
  <2>5. InStep(conv'[c], data'[c], config.cmd)
    BY <1>1, <2>1, <2>3, <2>4, DeliveredInStep DEF Told
  <2> QED
    BY <2>1, <2>2, <2>5, OneSettles
<1>7. ASSUME NEW c \in Conn, CopyEnds(c) PROVE TrafficInv'
  BY <1>7, DropSettles DEF CopyEnds
<1>8. CASE Accept
  <2>1. Head(backlog) \in Conn /\ link[Head(backlog)] = "backlog"
    BY <1>8 DEF Accept, WaitingInv, TypeOK
  <2> QED
    BY <1>8, <2>1, MoveSettles DEF Accept
<1>20. CASE AcceptFails
  <2>1. Head(backlog) \in Conn
    BY <1>20 DEF AcceptFails, TypeOK
  <2> QED
    BY <1>20, <2>1, DropSettles DEF AcceptFails
<1>21. ASSUME NEW c \in Conn, Route(c) PROVE TrafficInv'
  BY <1>21, DropSettles, MoveSettles DEF Route
<1>22. ASSUME NEW c \in Conn, Dial(c) PROVE TrafficInv'
  BY <1>22, DropSettles, MoveSettles DEF Dial
<1>9. CASE LoopEnds
  BY <1>9, DropSettles DEF LoopEnds
<1>10. CASE RuntimeEnds
  BY <1>10, DropSettles DEF RuntimeEnds
<1>11. ASSUME NEW c \in Conn, NEW p \in Port, OpenConn(c, p) PROVE TrafficInv'
  <2>1. /\ link[c] = "none" /\ link'[c] = "backlog" /\ UNCHANGED <<config, conv, data>>
        /\ \A b \in Conn \ {c} : link'[b] = link[b]
    BY <1>11 DEF OpenConn, TypeOK
  <2>2. conv[c] = Fresh /\ data[c] = NoTraffic
    BY <2>1 DEF TypeOK, TrafficInv, Settled
  <2>3. InStep(Fresh, data[c], config.cmd)
    BY <1>1, <2>2, CmdTyped, FreshInStep DEF NoTraffic, Told
  <2> SUFFICES ASSUME NEW b \in Conn PROVE Settled(b)'
    BY DEF TrafficInv
  <2>4. CASE b = c
    BY <2>1, <2>2, <2>3, <2>4 DEF Settled, NoTraffic
  <2>5. CASE b # c
    BY <2>1, <2>5, SameSettled DEF TrafficInv
  <2> QED
    BY <2>4, <2>5
<1>12. ASSUME NEW c \in Conn, ClientSends(c) PROVE TrafficInv'
  <2> DEFINE e == [data[c] EXCEPT !.said = @ + 1]
  <2>1. /\ e \in Traffic /\ e.told = data[c].told /\ e.got = data[c].got /\ e.heard = data[c].heard
        /\ e.said >= data[c].said /\ e.reset = data[c].reset
    <3>1. data[c].said + 1 \in Nat /\ data[c].said + 1 >= data[c].said
      BY <1>1 DEF Traffic
    <3> QED
      BY <1>1, <3>1 DEF Traffic
  <2>2. /\ data' = [data EXCEPT ![c] = e] /\ UNCHANGED <<config, link, conv>>
        /\ link[c] \in Open
    BY <1>12 DEF ClientSends, relay
  <2>3. link[c] # "task" => ~e.reset
    BY <2>1, <2>2 DEF TrafficInv, Settled
  <2> HIDE DEF e
  <2> QED
    BY <2>1, <2>2, <2>3, DataSettles
<1>13. ASSUME NEW c \in Conn, ClientFinishes(c) PROVE TrafficInv'
  <2> DEFINE e == [data[c] EXCEPT !.fin = TRUE]
  <2>1. /\ e \in Traffic /\ e.told = data[c].told /\ e.got = data[c].got /\ e.heard = data[c].heard
        /\ e.said >= data[c].said /\ e.reset = data[c].reset
    <3>1. data[c].said >= data[c].said
      BY <1>1 DEF Traffic
    <3> QED
      BY <1>1, <3>1 DEF Traffic
  <2>2. /\ data' = [data EXCEPT ![c] = e] /\ UNCHANGED <<config, link, conv>>
        /\ link[c] \in Open
    BY <1>13 DEF ClientFinishes, relay
  <2>3. link[c] # "task" => ~e.reset
    BY <2>1, <2>2 DEF TrafficInv, Settled
  <2> HIDE DEF e
  <2> QED
    BY <2>1, <2>2, <2>3, DataSettles
<1>14. ASSUME NEW c \in Conn, ProxyAnswers(c) PROVE TrafficInv'
  <2>1. PICK v \in Answered(conv[c], config) : Set(c, v)
    BY <1>14 DEF ProxyAnswers
  <2>2. UNCHANGED <<config, link, data>>
    BY <1>14 DEF ProxyAnswers, relay
  <2>3. conv[c].asked # "nothing"
    BY <2>1 DEF Answered, Answers
  <2>4. link[c] = "task"
    BY <2>3, Talking
  <2>5. v \in Conversation(Piece) /\ InStep(v, data[c], config.cmd)
    BY <1>1, <2>1, <2>4, CmdTyped, AnsweredInStep, AnsweredTyped
  <2>6. conv'[c] = v /\ \A b \in Conn \ {c} : conv'[b] = conv[b]
    BY <2>1, <2>5, SetTyped
  <2> QED
    BY <2>2, <2>4, <2>5, <2>6, OneSettles
<1>15. ASSUME NEW c \in Conn, DestSends(c) PROVE TrafficInv'
  <2>1. conv[c].through /\ link[c] = "task" /\ UNCHANGED <<config, link>>
    BY <1>15, Talking DEF DestSends, relay
  <2>2. \A b \in Conn \ {c} : conv'[b] = conv[b] /\ data'[b] = data[b]
    BY <1>15 DEF DestSends, TypeOK, Set
  <2>3. /\ conv'[c].at = conv[c].at /\ conv'[c].asked = conv[c].asked
        /\ conv'[c].through /\ conv'[c].stream = Append(conv[c].stream, Data(data[c].told + 1))
    BY <1>1, <1>15, <2>1 DEF DestSends, TypeOK, Set, Conversation
  <2>4. /\ data'[c].told = data[c].told + 1 /\ data'[c].heard = data[c].heard
        /\ data'[c].said = data[c].said /\ data'[c].got = data[c].got
    BY <1>1, <1>15 DEF DestSends, TypeOK, Traffic
  <2>5. InStep(conv'[c], data'[c], config.cmd)
    BY <1>1, <2>1, <2>3, <2>4, ToldInStep DEF Told
  <2> QED
    BY <2>1, <2>2, <2>5, OneSettles
<1>16. ASSUME NEW c \in Conn, ProxyCloses(c) PROVE TrafficInv'
  <2>1. link[c] = "task" /\ UNCHANGED <<config, link, data>> /\ Set(c, Hangup(conv[c]))
    BY <1>16, Talking DEF ProxyCloses, relay
  <2>2. conv'[c] = Hangup(conv[c]) /\ \A b \in Conn \ {c} : conv'[b] = conv[b]
    BY <2>1 DEF Set, TypeOK
  <2>3. InStep(Hangup(conv[c]), data[c], config.cmd)
    BY <1>1, <2>1, HangupInStep
  <2> QED
    BY <2>1, <2>2, <2>3, OneSettles
<1>17. ASSUME NEW c \in Conn, Reset(c) PROVE TrafficInv'
  <2> DEFINE e == [data[c] EXCEPT !.reset = TRUE]
  <2>1. /\ e \in Traffic /\ e.told = data[c].told /\ e.got = data[c].got /\ e.heard = data[c].heard
        /\ e.said >= data[c].said
    <3>1. data[c].said >= data[c].said
      BY <1>1 DEF Traffic
    <3> QED
      BY <1>1, <3>1 DEF Traffic
  <2>2. data' = [data EXCEPT ![c] = e] /\ UNCHANGED <<config, link, conv>> /\ link[c] = "task"
    BY <1>17 DEF Reset, Copying, relay
  <2> HIDE DEF e
  <2> QED
    BY <2>1, <2>2, DataSettles
<1>18. CASE Cleanup \/ Tick \/ \E n \in Others : OthersOpen(n)
  BY <1>2, <1>18 DEF Cleanup, Tick, OthersOpen, relay
<1>19. CASE UNCHANGED vars
  BY <1>2, <1>19 DEF vars, relay
<1> QED
  BY <1>3, <1>4, <1>5, <1>6, <1>7, <1>8, <1>9, <1>10, <1>11, <1>12, <1>13,
     <1>14, <1>15, <1>16, <1>17, <1>18, <1>19, <1>20, <1>21, <1>22 DEF Next, Task

(* The destinations: where the reuse of a port matters. *)
LEMMA RouteInit == Init => RouteInv
  BY DEF Init, RouteInv, Routed

(* What a step leaves of one connection's route. *)
LEMMA SameRoute ==
    ASSUME NEW b \in Conn, Routed(b), after[b] \subseteq after'[b],
           \/ link'[b] \in {"none", "closed"}
           \/ link[b] \in {"backlog", "accepted"} /\ link'[b] \in {"backlog", "accepted"}
                 /\ Get(conns', port'[b]) \in {Get(conns, port[b]), NoEntry}
           \/ link[b] \in {"spawned", "task"} /\ link'[b] \in {"spawned", "task"}
                 /\ dest'[b] = dest[b]
    PROVE  Routed(b)'
<1>1. Goals(b) \subseteq Goals(b)'
  BY DEF Goals
<1> QED
  BY <1>1 DEF Routed

LEMMA RouteStep == TypeOK /\ WaitingInv /\ RouteInv /\ [Next]_vars => RouteInv'
<1> SUFFICES ASSUME TypeOK, WaitingInv, RouteInv, [Next]_vars, NEW b \in Conn PROVE Routed(b)'
  BY DEF RouteInv
<1>1. Routed(b) /\ (link[b] \in {"backlog", "accepted"} => port[b] \in Port)
  BY DEF RouteInv, WaitingInv
<1>2. link[b] \in {"none", "closed", "backlog", "accepted", "spawned", "task"}
  BY DEF TypeOK
<1>3. CASE UNCHANGED <<conns, port, dest, after>> /\ link'[b] = link[b]
  BY <1>1, <1>2, <1>3, SameRoute
<1>4. ASSUME NEW C \in SUBSET Conn, Drop(C), UNCHANGED <<conns, dest, after>> PROVE Routed(b)'
  <2>1. CASE b \in C
    BY <1>1, <1>4, <2>1, DropTyped, SameRoute
  <2>2. CASE b \notin C
    BY <1>1, <1>2, <1>4, <2>2, DropTyped, SameRoute
  <2> QED
    BY <2>1, <2>2
<1>5. ASSUME NEW c \in Conn, Task(c) PROVE Routed(b)'
  <2>1. UNCHANGED <<conns, dest, after>> /\ link[c] \in {"spawned", "task"}
    BY <1>5 DEF Task, Dial, Connect, Handshake, CopyUp, CopyDown, CopyEnds, Copying, table, relay
  <2>2. \/ Drop({c}) \/ UNCHANGED <<link, port>>
        \/ link' = [link EXCEPT ![c] = "task"] /\ UNCHANGED port
    BY <1>5 DEF Task, Dial, Connect, Handshake, CopyUp, CopyDown, CopyEnds, Continue, Set, relay
  <2>3. CASE Drop({c})
    BY <1>4, <2>1, <2>3
  <2>4. CASE UNCHANGED <<link, port>>
    BY <1>3, <2>1, <2>4
  <2>5. CASE link' = [link EXCEPT ![c] = "task"] /\ UNCHANGED port
    <3>1. b # c => link'[b] = link[b]
      BY <2>5 DEF TypeOK
    <3>2. b = c => link'[b] = "task"
      BY <2>5 DEF TypeOK
    <3> QED
      BY <1>1, <1>3, <2>1, <2>5, <3>1, <3>2, SameRoute
  <2> QED
    BY <2>2, <2>3, <2>4, <2>5
<1>6. CASE Accept
  <2>1. /\ Head(backlog) \in Conn /\ link[Head(backlog)] = "backlog"
        /\ UNCHANGED <<conns, port, dest, after>>
    BY <1>6 DEF Accept, WaitingInv, TypeOK, table
  <2>2. /\ b # Head(backlog) => link'[b] = link[b]
        /\ b = Head(backlog) => link'[b] = "accepted"
    BY <1>6, <2>1 DEF Accept, TypeOK
  <2> QED
    BY <1>1, <1>3, <2>1, <2>2, SameRoute
<1>7. CASE AcceptFails
  <2>1. Head(backlog) \in Conn
    BY <1>7 DEF AcceptFails, TypeOK
  <2> QED
    BY <1>4, <1>7, <2>1 DEF AcceptFails, table
<1>8. ASSUME NEW c \in Conn, Route(c) PROVE Routed(b)'
  <2>1. link[c] = "accepted" /\ UNCHANGED <<conns, after>>
    BY <1>8 DEF Route, table
  <2>2. CASE Get(conns, port[c]) = NoEntry
    BY <1>4, <1>8, <2>1, <2>2 DEF Route
  <2>3. CASE Get(conns, port[c]) # NoEntry
    <3>1. /\ link' = [link EXCEPT ![c] = "spawned"]
          /\ dest' = [dest EXCEPT ![c] = Get(conns, port[c])] /\ UNCHANGED port
      BY <1>8, <2>3 DEF Route
    <3>2. CASE b = c
      <4>1. link'[b] = "spawned" /\ dest'[b] = Get(conns, port[b])
        BY <3>1, <3>2 DEF TypeOK
      <4>2. dest'[b] \in Goals(b) /\ Goals(b)' = Goals(b)
        BY <1>1, <2>1, <2>3, <3>2, <4>1 DEF Routed, Goals
      <4> QED
        BY <4>1, <4>2 DEF Routed
    <3>3. CASE b # c
      <4>1. link'[b] = link[b] /\ dest'[b] = dest[b] /\ port'[b] = port[b]
        BY <3>1, <3>3 DEF TypeOK
      <4> QED
        BY <1>1, <1>2, <2>1, <4>1, SameRoute
    <3> QED
      BY <3>2, <3>3
  <2> QED
    BY <2>2, <2>3
<1>9. CASE LoopEnds
  BY <1>4, <1>9 DEF LoopEnds, table
<1>10. CASE RuntimeEnds
  BY <1>4, <1>10 DEF RuntimeEnds, table
<1>11. ASSUME NEW c \in Conn, NEW p \in Port, OpenConn(c, p) PROVE Routed(b)'
  <2>1. /\ conns' = Add(conns, p, LocalAddr, Goal[c], now) /\ UNCHANGED dest
        /\ link' = [link EXCEPT ![c] = "backlog"] /\ port' = [port EXCEPT ![c] = p]
        /\ after'[b] = IF port[b] = p /\ link[b] \in {"backlog", "accepted"}
                       THEN after[b] \cup {c} ELSE after[b]
    BY <1>11 DEF OpenConn
  <2>2. Get(conns', p) \in {Goal[c], NoEntry}
    BY <2>1 DEF Get, Add, IsTracked, TypeOK
  <2>3. CASE b = c
    <3>1. link'[b] = "backlog" /\ port'[b] = p
      BY <2>1, <2>3 DEF TypeOK
    <3>2. Goal[b] \in Goals(b)'
      BY DEF Goals
    <3> QED
      BY <2>2, <2>3, <3>1, <3>2 DEF Routed
  <2>4. CASE b # c
    <3>1. link'[b] = link[b] /\ port'[b] = port[b] /\ dest'[b] = dest[b]
      BY <2>1, <2>4 DEF TypeOK
    <3>2. CASE link[b] \in {"backlog", "accepted"} /\ port[b] = p
      <4>1. Goal[c] \in Goals(b)'
        BY <2>1, <3>2 DEF Goals
      <4> QED
        BY <2>2, <3>1, <3>2, <4>1 DEF Routed
    <3>3. CASE link[b] \in {"backlog", "accepted"} /\ port[b] # p
      <4>1. Get(conns', port[b]) = Get(conns, port[b])
        BY <1>1, <2>1, <3>3 DEF Get, Add, IsTracked, TypeOK
      <4> QED
        BY <1>1, <2>1, <3>1, <3>3, <4>1, SameRoute
    <3>4. CASE link[b] \notin {"backlog", "accepted"}
      BY <1>1, <1>2, <2>1, <3>1, <3>4, SameRoute
    <3> QED
      BY <3>2, <3>3, <3>4
  <2> QED
    BY <2>3, <2>4
<1>12. CASE Cleanup
  <2>1. \A p \in Port : Get(conns', p) \in {Get(conns, p), NoEntry}
    BY <1>12 DEF Cleanup, CleanupStale, Get, IsTracked
  <2>2. UNCHANGED <<link, port, dest, after>>
    BY <1>12 DEF Cleanup, relay
  <2> QED
    BY <1>1, <1>2, <2>1, <2>2, SameRoute
<1> QED
  BY <1>3, <1>5, <1>6, <1>7, <1>8, <1>9, <1>10, <1>11, <1>12 DEF Next, vars, ClientSends,
     ClientFinishes, ProxyAnswers, DestSends, ProxyCloses, Reset, Tick, OthersOpen, relay, table

LEMMA TrafficInvariance == ReadWhole /\ Spec => [](TypeOK /\ WaitingInv /\ TrafficInv)
<1>1. ReadWhole /\ TypeOK /\ WaitingInv /\ TrafficInv /\ [Next]_vars
          => TypeOK' /\ WaitingInv' /\ TrafficInv'
  BY TypeStep, WaitingStep, TrafficStep
<1>2. CASE ReadWhole
  BY <1>1, <1>2, TypeInit, WaitingInit, TrafficInit, PTL DEF Spec
<1> QED
  BY <1>2

LEMMA Invariance == ReadWhole /\ Spec => []TunnelInv
<1>1. ReadWhole /\ TunnelInv /\ [Next]_vars => TunnelInv'
  BY TypeStep, WaitingStep, TrafficStep, RouteStep DEF TunnelInv
<1>2. Init => TunnelInv
  BY TypeInit, WaitingInit, TrafficInit, RouteInit DEF TunnelInv
<1>3. CASE ReadWhole
  BY <1>1, <1>2, <1>3, PTL DEF Spec
<1> QED
  BY <1>3

-----------------------------------------------------------------------------
\* What the client receives

LEMMA ReadyStream ==
    ASSUME NEW v \in Conversation(Piece), NEW d \in Traffic, NEW cmd,
           InStep(v, d, cmd), v.at = "ready"
    PROVE  /\ v.through
           /\ d.got \o v.stream = [k \in 1..Told(d) |-> Data(k)]
           /\ v.stream = <<>> => Had(d) = Told(d)
<1>1. v.through /\ Flowing(v, d) /\ Delivered(v, d) /\ Skip(v) = 0
  BY DEF InStep, Negotiating, Skip
<1>2. /\ v.stream \in Seq(Piece) /\ d.got \in Seq(Piece)
      /\ Left(v) \in Nat /\ Had(d) \in Nat /\ Told(d) \in Nat
  BY Counts
<1>3. Had(d) + Left(v) = Told(d)
  BY ReadyPieces
<1>4. \A k \in 1..Left(v) : v.stream[k] = Data(k + Had(d))
  BY ReadyPieces
<1>5. \A i \in 1..Had(d) : d.got[i] = Data(i)
  BY <1>1 DEF Delivered
<1> DEFINE s == d.got \o v.stream
           t == [k \in 1..Told(d) |-> Data(k)]
<1>6. /\ s \in Seq(Piece) /\ Len(s) = Had(d) + Left(v)
      /\ \A i \in 1..(Had(d) + Left(v)) :
             s[i] = IF i <= Had(d) THEN d.got[i] ELSE v.stream[i - Had(d)]
  BY <1>2, ConcatProperties DEF Left, Had
<1>7. t \in Seq(Piece) /\ Len(t) = Told(d) /\ \A i \in 1..Told(d) : t[i] = Data(i)
  <2>1. \A i \in 1..Told(d) : Data(i) \in Piece
    BY <1>2, PieceTyped
  <2> QED
    BY <1>2, <2>1
<1>8. \A i \in 1..Told(d) : s[i] = Data(i)
  <2> SUFFICES ASSUME NEW i \in 1..Told(d) PROVE s[i] = Data(i)
    OBVIOUS
  <2> HIDE DEF s
  <2>1. CASE i <= Had(d)
    <3>1. i \in 1..Had(d) /\ i \in 1..(Had(d) + Left(v))
      BY <1>2, <1>3, <2>1
    <3> QED
      BY <1>5, <1>6, <2>1, <3>1
  <2>2. CASE ~(i <= Had(d))
    <3>1. i - Had(d) \in 1..Left(v) /\ i \in 1..(Had(d) + Left(v)) /\ (i - Had(d)) + Had(d) = i
      BY <1>2, <1>3, <2>2
    <3> QED
      BY <1>4, <1>6, <2>2, <3>1
  <2> QED
    BY <2>1, <2>2
<1>9. s = t
  <2> HIDE DEF s, t
  <2> QED
    BY <1>3, <1>6, <1>7, <1>8, SeqEqual
<1>10. v.stream = <<>> => Left(v) = 0
  BY DEF Left
<1>11. v.stream = <<>> => Had(d) = Told(d)
  BY <1>2, <1>3, <1>10
<1> QED
  BY <1>1, <1>9, <1>11

(* If the answers are read whole and alone, then after a success nothing   *)
(* of the handshake is left, and the client is sent all the data of the    *)
(* destination and nothing else.                                           *)
THEOREM ReadyAfterSuccessHolds == ReadWhole /\ Spec => []ReadyAfterSuccess
<1>1. TypeOK /\ TrafficInv => ReadyAfterSuccess
  <2> SUFFICES ASSUME TypeOK, TrafficInv, NEW c \in Conn, Copying(c)
               PROVE  data[c].got \o conv[c].stream = [k \in 1..data[c].told |-> Data(k)]
    BY DEF ReadyAfterSuccess
  <2>1. conv[c] \in Conversation(Piece) /\ data[c] \in Traffic
    BY DEF TypeOK
  <2>2. conv[c].at = "ready" /\ InStep(conv[c], data[c], config.cmd)
    BY DEF Copying, TrafficInv, Settled
  <2>3. data[c].got \o conv[c].stream = [k \in 1..Told(data[c]) |-> Data(k)]
    BY <2>1, <2>2, ReadyStream
  <2> QED
    BY <2>3 DEF Told
<1> QED
  BY <1>1, TrafficInvariance, PTL

-----------------------------------------------------------------------------
\* The refinement

To(c) == IF Joined(c) THEN dest[c] ELSE NoEntry

(* What Tunnel sees of one connection. *)
SameEnd(b) ==
    /\ End(b)' = End(b) /\ To(b)' = To(b) /\ port'[b] = port[b]
    /\ data'[b].said = data[b].said /\ data'[b].heard = data[b].heard
    /\ data'[b].told = data[b].told /\ data'[b].got = data[b].got
    /\ data'[b].reset = data[b].reset

LEMMA Stutter ==
    ASSUME TypeOK, port' \in [Conn -> Port \cup {NoPort}], UNCHANGED after,
           \A b \in Conn : SameEnd(b)
    PROVE  UNCHANGED Ends!tunnelVars
<1>1. UNCHANGED port
  BY DEF SameEnd, TypeOK
<1> QED
  BY <1>1 DEF SameEnd, To, Ends!tunnelVars

LEMMA SameEnds ==
    ASSUME NEW b \in Conn, link'[b] = link[b], dest'[b] = dest[b], data'[b] = data[b],
           conv'[b].through = conv[b].through, port'[b] = port[b]
    PROVE  SameEnd(b)
  BY DEF SameEnd, End, To, Joined

LEMMA DropForgets ==
    ASSUME TypeOK, NEW C \in SUBSET Conn, Drop(C), UNCHANGED <<dest, after>>
    PROVE  Ends!Forget(C)
<1>1. ASSUME NEW b \in C
      PROVE  /\ End(b)' = "closed" /\ To(b)' = NoEntry /\ port'[b] = NoPort
             /\ data'[b].said = 0 /\ data'[b].heard = 0 /\ data'[b].told = 0
             /\ data'[b].got = <<>> /\ data'[b].reset = FALSE
  BY <1>1, DropTyped DEF End, To, Joined, NoTraffic
<1>2. ASSUME NEW b \in Conn \ C PROVE SameEnd(b)
  BY <1>2, DropTyped, SameEnds
<1>3. port' = [c \in Conn |-> IF c \in C THEN NoPort ELSE port[c]]
  BY DEF Drop
<1> QED
  BY <1>1, <1>2, <1>3 DEF SameEnd, To, Ends!Forget

(* Forget is a Close of connections that may close. *)
LEMMA DropCloses ==
    ASSUME TypeOK, NEW C \in SUBSET Conn, Drop(C), UNCHANGED <<dest, after>>, \A c \in C : Ends!MayClose(c)
    PROVE  Ends!Next
<1>1. Ends!Close(C)
  BY DropForgets DEF Ends!Close
<1> QED
  BY <1>1 DEF Ends!Next

LEMMA WaitingMayClose ==
    ASSUME NEW c \in Conn, End(c) = "waiting"
    PROVE  Ends!MayClose(c)
  BY DEF Ends!MayClose

(* The initial states, and every step or a stutter.                        *)
LEMMA RefinementInit == Init => Ends!Init
  BY DEF Init, Ends!Init, End, Joined, NoTraffic, Fresh

LEMMA RefinementStep ==
    ReadWhole /\ TunnelInv /\ [Next]_vars => [Ends!Next]_Ends!tunnelVars
<1> SUFFICES ASSUME ReadWhole, TunnelInv, [Next]_vars
             PROVE  [Ends!Next]_Ends!tunnelVars
  OBVIOUS
<1>1. TypeOK /\ WaitingInv /\ TrafficInv /\ RouteInv
  BY DEF TunnelInv
<1>2. /\ \A c \in Conn : conv[c] \in Conversation(Piece) /\ data[c] \in Traffic
      /\ \A c \in Conn : link[c] \in Open => InStep(conv[c], data[c], config.cmd)
      /\ \A c \in Conn : link[c] = "task" => dest[c] \in Goals(c)
      /\ port' \in [Conn -> Port \cup {NoPort}]
  BY <1>1, TypeStep DEF TypeOK, TrafficInv, Settled, RouteInv, Routed
<1>3. \A c \in Conn : Copying(c) => End(c) = "joined" /\ conv[c].through
  <2> SUFFICES ASSUME NEW c \in Conn, Copying(c) PROVE End(c) = "joined" /\ conv[c].through
    OBVIOUS
  <2>1. link[c] = "task" /\ conv[c].through
    BY <1>2, ReadyStream DEF Copying
  <2> QED
    BY <2>1 DEF End, Joined
<1>4. \A c \in Conn : link[c] \in Open \ {"task"} \/ (link[c] = "task" /\ ~conv[c].through)
                          => End(c) = "waiting"
  BY DEF End, Joined
<1>5. CASE UNCHANGED vars
  BY <1>1, <1>2, <1>5, SameEnds, Stutter DEF vars, relay
<1>6. ASSUME NEW c \in Conn, Connect(c) PROVE [Ends!Next]_Ends!tunnelVars
  <2>1. PICK v \in {Begin(config), Failed} : Continue(c, v)
    BY <1>6 DEF Connect
  <2>2. link[c] = "task" /\ conv[c].at = "connect" /\ UNCHANGED <<dest, after>>
    BY <1>6 DEF Connect
  <2>3. ~conv[c].through
    BY <1>2, <2>2 DEF InStep, Flowing
  <2>4. CASE v.at = "failed"
    BY <1>1, <1>4, <2>1, <2>2, <2>3, <2>4, DropCloses, WaitingMayClose DEF Continue
  <2>5. CASE v.at # "failed"
    <3>1. Set(c, v) /\ UNCHANGED <<link, port, data>> /\ ~v.through
      BY <2>1, <2>5 DEF Continue, Begin, Fresh, Failed
    <3>2. v.through = conv[c].through
      BY <1>2, <2>1, <2>3, <3>1, StartTyped DEF Conversation
    <3>3. \A b \in Conn : conv'[b].through = conv[b].through
      BY <3>1, <3>2, <1>1 DEF Set, TypeOK
    <3> QED
      BY <1>1, <1>2, <2>2, <3>1, <3>3, SameEnds, Stutter
  <2> QED
    BY <2>4, <2>5
<1>7. ASSUME NEW c \in Conn, Handshake(c) PROVE [Ends!Next]_Ends!tunnelVars
  <2>1. PICK v \in Reads(conv[c], config) : Continue(c, v)
    BY <1>7 DEF Handshake
  <2>2. link[c] = "task" /\ Handshaking(conv[c]) /\ UNCHANGED <<dest, after>>
    BY <1>7 DEF Handshake
  <2>3. CASE v.at = "failed"
    <3>1. ~conv[c].through
      BY <1>1, <1>2, <2>1, <2>2, <2>3, CmdTyped, GrantedReadsOn
    <3> QED
      BY <1>1, <1>4, <2>1, <2>2, <2>3, <3>1, DropCloses, WaitingMayClose DEF Continue
  <2>4. CASE v.at # "failed"
    <3>1. Set(c, v) /\ UNCHANGED <<link, port, data>>
      BY <2>1, <2>4 DEF Continue
    <3>2. v.through = conv[c].through
      BY <1>1, <1>2, <2>1, <2>2, <2>4, CmdTyped, ReadsInStep
    <3>3. \A b \in Conn : conv'[b].through = conv[b].through
      BY <3>1, <3>2, <1>1 DEF Set, TypeOK
    <3> QED
      BY <1>1, <1>2, <2>2, <3>1, <3>3, SameEnds, Stutter
  <2> QED
    BY <2>3, <2>4
<1>8. ASSUME NEW c \in Conn, CopyUp(c) PROVE [Ends!Next]_Ends!tunnelVars
  <2>1. End(c) = "joined" /\ data[c].heard < data[c].said
    BY <1>8, <1>3 DEF CopyUp
  <2>2. data' = [data EXCEPT ![c].heard = @ + 1] /\ UNCHANGED <<link, dest, conv, port, after>>
    BY <1>8 DEF CopyUp, relay
  <2>3. /\ \A b \in Conn : End(b)' = End(b) /\ To(b)' = To(b)
        /\ \A b \in Conn \ {c} : data'[b] = data[b]
        /\ data'[c] = [data[c] EXCEPT !.heard = @ + 1]
    BY <1>1, <2>2 DEF TypeOK, End, To, Joined
  <2>4. /\ data'[c].heard = data[c].heard + 1 /\ data'[c].said = data[c].said
        /\ data'[c].told = data[c].told /\ data'[c].got = data[c].got /\ data'[c].reset = data[c].reset
    BY <1>2, <2>3 DEF Traffic
  <2>10. UNCHANGED <<port, after>>
    BY <2>2
  <2>5. Ends!Hear(c)
    BY <2>1, <2>3, <2>4, <2>10 DEF Ends!Hear, To
  <2> QED
    BY <2>5 DEF Ends!Next
<1>9. ASSUME NEW c \in Conn, CopyDown(c) PROVE [Ends!Next]_Ends!tunnelVars
  <2>1. /\ link[c] = "task" /\ conv[c].at = "ready" /\ conv[c].stream # <<>>
        /\ data' = [data EXCEPT ![c].got = Append(@, Head(conv[c].stream))]
        /\ Set(c, [conv[c] EXCEPT !.stream = Tail(@)]) /\ UNCHANGED <<link, dest, port, after>>
    BY <1>9 DEF CopyDown, Copying, relay
  <2>2. \A b \in Conn : conv'[b].through = conv[b].through
    BY <1>1, <1>2, <2>1 DEF Set, TypeOK, Conversation
  <2>3. /\ \A b \in Conn : End(b)' = End(b) /\ To(b)' = To(b)
        /\ \A b \in Conn \ {c} : data'[b] = data[b]
        /\ data'[c] = [data[c] EXCEPT !.got = Append(@, Head(conv[c].stream))]
    BY <1>1, <2>1, <2>2 DEF TypeOK, End, To, Joined
  <2>4. /\ data'[c].heard = data[c].heard /\ data'[c].said = data[c].said
        /\ data'[c].told = data[c].told /\ data'[c].reset = data[c].reset
        /\ data'[c].got = Append(data[c].got, Head(conv[c].stream))
    BY <1>2, <2>3 DEF Traffic
  <2>5. Head(conv[c].stream) = Data(Len(data[c].got) + 1) /\ Len(data[c].got) < data[c].told
    <3>1. Head(conv[c].stream) = Data(Had(data[c]) + 1) /\ Had(data[c]) < Told(data[c])
      BY <1>2, <2>1, FirstIsNext
    <3> QED
      BY <3>1 DEF Had, Told
  <2>6. End(c) = "joined"
    BY <1>3, <2>1 DEF Copying
  <2>10. UNCHANGED <<port, after>>
    BY <2>1
  <2>7. Ends!Deliver(c)
    BY <2>3, <2>4, <2>5, <2>6, <2>10 DEF Ends!Deliver, To, Ends!Data, Data
  <2> QED
    BY <2>7 DEF Ends!Next
<1>10. ASSUME NEW c \in Conn, CopyEnds(c) PROVE [Ends!Next]_Ends!tunnelVars
  <2>1. /\ Copying(c) /\ Drop({c}) /\ UNCHANGED <<dest, after>>
        /\ data[c].reset \/ (UpEnded(c) /\ DownEnded(c))
    BY <1>10 DEF CopyEnds
  <2>2. End(c) = "joined"
    BY <1>3, <2>1
  <2>3. DownEnded(c) => Len(data[c].got) = data[c].told
    <3>1. conv[c].stream = <<>> => Had(data[c]) = Told(data[c])
      BY <1>2, <2>1, ReadyStream DEF Copying
    <3> QED
      BY <3>1 DEF DownEnded, Had, Told
  <2>4. Ends!MayClose(c)
    BY <2>1, <2>2, <2>3 DEF Ends!MayClose, UpEnded
  <2> QED
    BY <1>1, <2>1, <2>4, DropCloses
<1>22. ASSUME NEW c \in Conn, link[c] \in Open \ {"task"}, NEW l \in Open,
              link' = [link EXCEPT ![c] = l], UNCHANGED <<conv, data, port, after>>,
              \A b \in Conn \ {c} : dest'[b] = dest[b]
       PROVE  [Ends!Next]_Ends!tunnelVars
  <2>1. ASSUME NEW b \in Conn PROVE SameEnd(b)
    <3>1. CASE b = c
      <4>1. ~conv[b].through /\ link'[b] = l
        BY <1>1, <1>22, <3>1 DEF TypeOK, Fresh
      <4> QED
        BY <1>22, <3>1, <4>1 DEF SameEnd, End, To, Joined
    <3>2. CASE b # c
      BY <1>1, <1>22, <3>2, SameEnds DEF TypeOK
    <3> QED
      BY <3>1, <3>2
  <2> QED
    BY <1>1, <1>2, <1>22, <2>1, Stutter
<1>23. ASSUME NEW c \in Conn, link[c] \in Open \ {"task"}, Drop({c}), UNCHANGED <<dest, after>>
       PROVE  [Ends!Next]_Ends!tunnelVars
  BY <1>1, <1>4, <1>23, DropCloses, WaitingMayClose
<1>11. CASE Accept
  <2>1. Head(backlog) \in Conn /\ link[Head(backlog)] = "backlog"
    BY <1>1, <1>11 DEF Accept, WaitingInv, TypeOK
  <2> QED
    BY <1>11, <1>22, <2>1 DEF Accept
<1>24. CASE AcceptFails
  <2>1. Head(backlog) \in Conn /\ link[Head(backlog)] = "backlog"
    BY <1>1, <1>24 DEF AcceptFails, WaitingInv, TypeOK
  <2> QED
    BY <1>23, <1>24, <2>1 DEF AcceptFails
<1>25. ASSUME NEW c \in Conn, Route(c) PROVE [Ends!Next]_Ends!tunnelVars
  <2>1. CASE Get(conns, port[c]) = NoEntry
    BY <1>23, <1>25, <2>1 DEF Route
  <2>2. CASE Get(conns, port[c]) # NoEntry
    <3>1. /\ link' = [link EXCEPT ![c] = "spawned"] /\ UNCHANGED <<conv, data, port, after>>
          /\ dest' = [dest EXCEPT ![c] = Get(conns, port[c])] /\ link[c] = "accepted"
      BY <1>25, <2>2 DEF Route
    <3>2. \A b \in Conn \ {c} : dest'[b] = dest[b]
      BY <1>1, <3>1 DEF TypeOK
    <3> QED
      BY <1>22, <3>1, <3>2
  <2> QED
    BY <2>1, <2>2
<1>26. ASSUME NEW c \in Conn, Dial(c) PROVE [Ends!Next]_Ends!tunnelVars
  BY <1>22, <1>23, <1>26 DEF Dial
<1>12. CASE LoopEnds
  BY <1>1, <1>12, <1>4, DropCloses, WaitingMayClose DEF LoopEnds
<1>13. CASE RuntimeEnds
  <2>1. PICK T \in SUBSET Conn : T = {c \in Conn : link[c] \in {"spawned", "task"}}
    OBVIOUS
  <2>2. Drop(T) /\ UNCHANGED <<dest, after>>
    BY <1>13, <2>1 DEF RuntimeEnds
  <2>3. \A c \in Conn : link[c] \in {"none", "closed", "spawned", "task"}
    BY <1>1, <1>13 DEF RuntimeEnds, WaitingInv, TypeOK
  <2>4. \A c \in Conn : c \in T <=> End(c) \in {"waiting", "joined"}
    BY <2>1, <2>3 DEF End
  <2>5. T = {c \in Conn : End(c) \in {"waiting", "joined"}}
    BY <2>4
  <2>6. Ends!Forget(T)
    BY <1>1, <2>2, DropForgets
  <2>7. Ends!Stop
    BY <2>5, <2>6 DEF Ends!Stop, Ends!Forget
  <2> QED
    BY <2>7 DEF Ends!Next
<1>14. ASSUME NEW c \in Conn, NEW p \in Port, OpenConn(c, p) PROVE [Ends!Next]_Ends!tunnelVars
  <2>1. /\ link[c] = "none" /\ link' = [link EXCEPT ![c] = "backlog"]
        /\ port' = [port EXCEPT ![c] = p] /\ UNCHANGED <<dest, conv, data>>
    BY <1>14 DEF OpenConn
  <2>2. End(c) = "idle" /\ End(c)' = "waiting" /\ To(c)' = To(c)
    BY <1>1, <2>1 DEF End, To, Joined, TypeOK
  <2>3. \A b \in Conn \ {c} : End(b)' = End(b) /\ To(b)' = To(b)
    BY <1>1, <2>1 DEF End, To, Joined, TypeOK
  <2>4. \E W \in SUBSET {b \in Conn : End(b) = "waiting" /\ port[b] = p} :
            after' = [b \in Conn |-> IF b \in W THEN after[b] \cup {c} ELSE after[b]]
    <3> DEFINE W == {b \in Conn : port[b] = p /\ link[b] \in {"backlog", "accepted"}}
    <3>1. W \in SUBSET {b \in Conn : End(b) = "waiting" /\ port[b] = p}
      BY <1>4
    <3>2. after' = [b \in Conn |-> IF b \in W THEN after[b] \cup {c} ELSE after[b]]
      BY <1>14 DEF OpenConn
    <3> QED
      BY <3>1, <3>2
  <2>5. Ends!Open(c, p)
    BY <2>1, <2>2, <2>3, <2>4 DEF Ends!Open, To
  <2> QED
    BY <2>5 DEF Ends!Next
<1>15. ASSUME NEW c \in Conn, ClientSends(c) PROVE [Ends!Next]_Ends!tunnelVars
  <2>1. /\ link[c] \in Open /\ data' = [data EXCEPT ![c].said = @ + 1]
        /\ UNCHANGED <<link, dest, conv, port, after>>
    BY <1>15 DEF ClientSends, relay
  <2>2. /\ \A b \in Conn : End(b)' = End(b) /\ To(b)' = To(b)
        /\ \A b \in Conn \ {c} : data'[b] = data[b]
        /\ data'[c] = [data[c] EXCEPT !.said = @ + 1]
        /\ End(c) \in {"waiting", "joined"}
    BY <1>1, <2>1 DEF TypeOK, End, To, Joined
  <2>3. /\ data'[c].said = data[c].said + 1 /\ data'[c].heard = data[c].heard
        /\ data'[c].told = data[c].told /\ data'[c].got = data[c].got /\ data'[c].reset = data[c].reset
    BY <1>2, <2>2 DEF Traffic
  <2>10. UNCHANGED <<port, after>>
    BY <2>1
  <2>4. Ends!Say(c)
    BY <2>2, <2>3, <2>10 DEF Ends!Say, To
  <2> QED
    BY <2>4 DEF Ends!Next
<1>16. ASSUME NEW c \in Conn, ClientFinishes(c) PROVE [Ends!Next]_Ends!tunnelVars
  <2>1. data' = [data EXCEPT ![c].fin = TRUE] /\ UNCHANGED <<link, dest, conv, port, after>>
    BY <1>16 DEF ClientFinishes, relay
  <2>2. \A b \in Conn : SameEnd(b)
    BY <1>1, <1>2, <2>1 DEF TypeOK, Traffic, SameEnd, End, To, Joined
  <2> QED
    BY <1>1, <1>2, <2>1, <2>2, Stutter
<1>17. ASSUME NEW c \in Conn, ProxyAnswers(c) PROVE [Ends!Next]_Ends!tunnelVars
  <2>1. PICK v \in Answered(conv[c], config) : Set(c, v)
    BY <1>17 DEF ProxyAnswers
  <2>2. UNCHANGED <<link, dest, data, port, after>>
    BY <1>17 DEF ProxyAnswers, relay
  <2>3. conv[c].asked # "nothing"
    BY <2>1 DEF Answered, Answers
  <2>4. link[c] = "task"
    BY <1>1, <2>3, Talking
  <2>5. ~conv[c].through /\ conv'[c] = v /\ \A b \in Conn \ {c} : conv'[b] = conv[b]
    <3>1. ~conv[c].through
      BY <1>1, <1>2, <2>1, <2>4, CmdTyped, AnsweredInStep
    <3> QED
      BY <1>1, <2>1, <3>1 DEF Set, TypeOK
  <2>6. CASE v.through
    <3>1. End(c) = "waiting" /\ End(c)' = "joined" /\ To(c)' = dest[c]
      BY <2>2, <2>4, <2>5, <2>6 DEF End, To, Joined
    <3>4. PICK g \in {c} \cup after[c] : dest[c] = Goal[g]
      BY <1>2, <2>4 DEF Goals
    <3>2. \A b \in Conn \ {c} : End(b)' = End(b) /\ To(b)' = To(b)
      BY <2>2, <2>5 DEF End, To, Joined
    <3>3. Ends!Join(c)
      BY <2>2, <3>1, <3>2, <3>4 DEF Ends!Join, To
    <3> QED
      BY <3>3 DEF Ends!Next
  <2>7. CASE ~v.through
    <3>1. v.through = conv[c].through
      BY <1>2, <2>1, <2>5, <2>7 DEF Answered, Conversation, Grants
    <3> QED
      BY <1>1, <1>2, <2>2, <2>5, <3>1, SameEnds, Stutter
  <2> QED
    BY <2>6, <2>7
<1>18. ASSUME NEW c \in Conn, DestSends(c) PROVE [Ends!Next]_Ends!tunnelVars
  <2>1. /\ conv[c].through /\ link[c] = "task" /\ UNCHANGED <<link, dest, port, after>>
        /\ data' = [data EXCEPT ![c].told = @ + 1]
        /\ Set(c, [conv[c] EXCEPT !.stream = Append(@, Data(data[c].told + 1))])
    BY <1>1, <1>18, Talking DEF DestSends, relay
  <2>2. \A b \in Conn : conv'[b].through = conv[b].through
    BY <1>1, <1>2, <2>1 DEF Set, TypeOK, Conversation
  <2>3. /\ \A b \in Conn : End(b)' = End(b) /\ To(b)' = To(b)
        /\ \A b \in Conn \ {c} : data'[b] = data[b]
        /\ data'[c] = [data[c] EXCEPT !.told = @ + 1]
        /\ End(c) = "joined"
    BY <1>1, <2>1, <2>2 DEF TypeOK, End, To, Joined
  <2>4. /\ data'[c].told = data[c].told + 1 /\ data'[c].heard = data[c].heard
        /\ data'[c].said = data[c].said /\ data'[c].got = data[c].got /\ data'[c].reset = data[c].reset
    BY <1>2, <2>3 DEF Traffic
  <2>10. UNCHANGED <<port, after>>
    BY <2>1
  <2>5. Ends!Tell(c)
    BY <2>3, <2>4, <2>10 DEF Ends!Tell, To
  <2> QED
    BY <2>5 DEF Ends!Next
<1>19. ASSUME NEW c \in Conn, ProxyCloses(c) PROVE [Ends!Next]_Ends!tunnelVars
  <2>1. UNCHANGED <<link, dest, data, port, after>> /\ Set(c, Hangup(conv[c]))
    BY <1>19 DEF ProxyCloses, relay
  <2>2. \A b \in Conn : conv'[b].through = conv[b].through
    BY <1>1, <1>2, <2>1 DEF Set, TypeOK, Conversation, Hangup
  <2> QED
    BY <1>1, <1>2, <2>1, <2>2, SameEnds, Stutter
<1>20. ASSUME NEW c \in Conn, Reset(c) PROVE [Ends!Next]_Ends!tunnelVars
  <2>1. End(c) = "joined"
    BY <1>20, <1>3 DEF Reset
  <2>2. data' = [data EXCEPT ![c].reset = TRUE] /\ UNCHANGED <<link, dest, conv, port, after>>
    BY <1>20 DEF Reset, relay
  <2>3. /\ \A b \in Conn : End(b)' = End(b) /\ To(b)' = To(b)
        /\ \A b \in Conn \ {c} : data'[b] = data[b]
        /\ data'[c] = [data[c] EXCEPT !.reset = TRUE]
    BY <1>1, <2>2 DEF TypeOK, End, To, Joined
  <2>4. /\ data'[c].reset = TRUE /\ data'[c].heard = data[c].heard /\ data'[c].said = data[c].said
        /\ data'[c].told = data[c].told /\ data'[c].got = data[c].got
    BY <1>2, <2>3 DEF Traffic
  <2>10. UNCHANGED <<port, after>>
    BY <2>2
  <2>5. Ends!Break(c)
    BY <2>1, <2>3, <2>4, <2>10 DEF Ends!Break, To
  <2> QED
    BY <2>5 DEF Ends!Next
<1>21. CASE Cleanup \/ Tick \/ \E n \in Others : OthersOpen(n)
  BY <1>1, <1>2, <1>21, SameEnds, Stutter DEF Cleanup, Tick, OthersOpen, relay
<1> QED
  BY <1>5, <1>6, <1>7, <1>8, <1>9, <1>10, <1>11, <1>12, <1>13, <1>14, <1>15, <1>16,
     <1>17, <1>18, <1>19, <1>20, <1>21, <1>24, <1>25, <1>26 DEF Next, Task

(* If the answers are read whole, the relay implements Tunnel, for any     *)
(* reuse of ports: a connection whose port is taken again before its       *)
(* destination is looked up may be joined to that of the later one.        *)
THEOREM TunnelImplemented == ReadWhole /\ Spec => ImplementsTunnel
<1>1. CASE ReadWhole
  BY <1>1, Invariance, RefinementInit, RefinementStep, PTL DEF Spec, ImplementsTunnel, Ends!Spec
<1> QED
  BY <1>1
=============================================================================
