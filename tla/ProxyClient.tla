----------------------------- MODULE ProxyClient -----------------------------
(***************************************************************************)
(* The handshakes of proxy-bridge-core/src/proxy: socks5_connect,          *)
(* socks5_udp_associate and http_connect, as readers of the byte stream    *)
(* that the proxy sends on one TCP connection, and the proxy as these      *)
(* protocols allow it to answer.                                           *)
(*                                                                         *)
(* The stream is a sequence of pieces, cut where the code can tell:        *)
(* read_exact takes a whole SOCKS5 answer however it arrives, while the    *)
(* single read of http_connect takes what has arrived.  The ten bytes of a *)
(* reply are its whole only if the proxy's bound address is IPv4.          *)
(***************************************************************************)
EXTENDS Naturals, Sequences

CONSTANTS
    BoundIPv4,    \* assume: SOCKS5 replies carry an IPv4 address
    HeaderAlone   \* assume: the read returns an HTTP header, whole and alone

ASSUME ProxyClientAssumption == {BoundIPv4, HeaderAlone} \subseteq BOOLEAN

(* What is configured and asked for; auth: username and password are set.  *)
Config == [cmd : {"connect", "associate", "http"}, auth : BOOLEAN]

Method(m) == <<"method", m>>
Auth(a) == <<"auth", a>>
Reply(r) == <<"reply", r>>
Header(h) == <<"header", h>>
Data(k) == <<"data", k>>

Answer ==
    {Method(m) : m \in {"none", "password", "other"}}
    \cup {Auth(a) : a \in {"granted", "denied"}}
    \cup {Reply(r) : r \in {"ipv4", "long", "rest", "refused"}}
    \cup {Header(h) : h \in {"stub", "200", "other", "tail"}}

Position == {"connect", "method", "auth", "reply", "header", "ready", "failed"}
Question == {"nothing", "hello", "credentials", "request"}

(* at: the next read; asked: what the proxy has not answered; stream: what *)
(* it has sent and nobody has read; open: it may send more; through: it    *)
(* has granted the request.                                                *)
Conversation(Piece) ==
    [at : Position, asked : Question, stream : Seq(Piece), open : BOOLEAN, through : BOOLEAN]

Fresh == [at |-> "connect", asked |-> "nothing", stream |-> <<>>, open |-> FALSE, through |-> FALSE]

(* An error return drops the connection. *)
Failed == [Fresh EXCEPT !.at = "failed"]

Handshaking(v) == v.at \in {"method", "auth", "reply", "header"}

-----------------------------------------------------------------------------
\* The client: each operator is one read and what is written after it

(* TcpStream::connect has succeeded, the first message is written. *)
Begin(config) ==
    [Fresh EXCEPT !.at = IF config.cmd = "http" THEN "header" ELSE "method",
                  !.asked = IF config.cmd = "http" THEN "request" ELSE "hello",
                  !.open = TRUE]

Ask(v, question, at) ==
    [v EXCEPT !.stream = Tail(@), !.asked = question, !.at = at]

AfterMethod(v, config) ==
    IF Head(v.stream) = Method("password") /\ config.auth THEN Ask(v, "credentials", "auth")
    ELSE IF Head(v.stream) = Method("none") THEN Ask(v, "request", "reply")
    ELSE Failed

AfterAuth(v) ==
    IF Head(v.stream) = Auth("granted") THEN Ask(v, "request", "reply") ELSE Failed

(* Ten bytes; only UDP ASSOCIATE looks at the address type. *)
AfterReply(v, config) ==
    IF \/ Head(v.stream) = Reply("refused")
       \/ Head(v.stream) = Reply("long") /\ config.cmd = "associate"
    THEN Failed
    ELSE [v EXCEPT !.stream = Tail(@), !.at = "ready"]

(* One read, of k pieces: too short without the status line. *)
MutAfterHeader(v, k) ==    \* is content with the status line
    IF \E i \in 1..k : v.stream[i] = Header("200")
    THEN [v EXCEPT !.stream = SubSeq(@, k, Len(@)), !.at = "ready"]
    ELSE Failed

AfterHeader(v, k) ==
    IF \E i \in 1..k : v.stream[i] = Header("200")
    THEN [v EXCEPT !.stream = SubSeq(@, k + 1, Len(@)), !.at = "ready"]
    ELSE Failed

(* The conversations after the next read; an end of the stream is an error. *)
Reads(v, config) ==
    IF v.stream = <<>> THEN IF v.open THEN {} ELSE {Failed}
    ELSE CASE v.at = "method" -> {AfterMethod(v, config)}
           [] v.at = "auth"   -> {AfterAuth(v)}
           [] v.at = "reply"  -> {AfterReply(v, config)}
           [] v.at = "header" -> {AfterHeader(v, k) :
                                    k \in IF HeaderAlone THEN {3} ELSE 1..Len(v.stream)}

-----------------------------------------------------------------------------
\* The proxy

(* What it may answer.  An HTTP header is fewer than twelve bytes, the     *)
(* rest of the status code, and the rest of the header.                    *)
Answers(config, question) ==
    CASE question = "nothing" -> {}
      [] question = "hello" -> {<<Method(m)>> : m \in {"none", "password", "other"}}
      [] question = "credentials" -> {<<Auth(a)>> : a \in {"granted", "denied"}}
      [] question = "request" /\ config.cmd = "http" ->
            {<<Header("stub"), Header(s), Header("tail")>> : s \in {"200", "other"}}
      [] question = "request" /\ config.cmd # "http" ->
            {<<Reply("ipv4")>>, <<Reply("refused")>>}
            \cup IF BoundIPv4 THEN {} ELSE {<<Reply("long"), Reply("rest")>>}

Grants(answer) == answer[1] \in {Reply("ipv4"), Reply("long")}
                  \/ (answer[1] = Header("stub") /\ answer[2] = Header("200"))

(* The conversations after the proxy's answer. *)
Answered(v, config) ==
    {[v EXCEPT !.stream = @ \o a, !.asked = "nothing", !.through = Grants(a)] :
        a \in Answers(config, v.asked)}

(* The proxy, or its host, closes the connection. *)
Hangup(v) == [v EXCEPT !.open = FALSE, !.asked = "nothing"]
=============================================================================
