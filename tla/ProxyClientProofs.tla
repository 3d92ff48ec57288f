-------------------------- MODULE ProxyClientProofs --------------------------
(***************************************************************************)
(* Lemmas about ProxyClient for the relays' proofs: a conversation whose   *)
(* stream has its pieces from a set that contains the proxy's answers      *)
(* keeps to it, whatever is answered and read.                             *)
(***************************************************************************)
EXTENDS ProxyClient, SequenceTheorems, TLAPS

LEMMA StartFits ==
    ASSUME NEW S, NEW cfg
    PROVE  /\ Fresh \in Conversation(S)
           /\ Failed \in Conversation(S)
           /\ Begin(cfg) \in Conversation(S)
<1>1. Fresh \in Conversation(S)
  BY DEF Fresh, Conversation, Position, Question
<1> QED
  BY <1>1 DEF Failed, Begin, Conversation, Position, Question

LEMMA AnswerKinds ==
    /\ \A m \in {"none", "password", "other"} : Method(m) \in Answer
    /\ \A a \in {"granted", "denied"} : Auth(a) \in Answer
    /\ \A r \in {"ipv4", "long", "rest", "refused"} : Reply(r) \in Answer
    /\ \A h \in {"stub", "200", "other", "tail"} : Header(h) \in Answer
  BY DEF Answer

(* The answers, question by question. *)
LEMMA AnswerCases ==
    ASSUME NEW cfg \in Config, NEW q \in Question, NEW a \in Answers(cfg, q)
    PROVE  \/ q = "hello" /\ \E m \in {"none", "password", "other"} : a = <<Method(m)>>
           \/ q = "credentials" /\ \E g \in {"granted", "denied"} : a = <<Auth(g)>>
           \/ /\ q = "request" /\ cfg.cmd = "http"
              /\ \E h \in {"200", "other"} : a = <<Header("stub"), Header(h), Header("tail")>>
           \/ q = "request" /\ cfg.cmd # "http" /\ a = <<Reply("ipv4")>>
           \/ q = "request" /\ cfg.cmd # "http" /\ a = <<Reply("refused")>>
           \/ /\ q = "request" /\ cfg.cmd # "http" /\ ~BoundIPv4
              /\ a = <<Reply("long"), Reply("rest")>>
  BY ProxyClientAssumption DEF Answers, Question

LEMMA AnsweredFits ==
    ASSUME NEW S, Answer \subseteq S, NEW cfg \in Config,
           NEW v \in Conversation(S), NEW w \in Answered(v, cfg)
    PROVE  w \in Conversation(S)
<1>1. PICK a \in Answers(cfg, v.asked) :
          w = [v EXCEPT !.stream = @ \o a, !.asked = "nothing", !.through = Grants(a)]
  BY DEF Answered
<1>2. v.asked \in Question
  BY DEF Conversation
<1>3. a \in Seq(S)
  <2>1. \A x, y, z \in S : <<x>> \in Seq(S) /\ <<x, y>> \in Seq(S)
                              /\ <<x, y, z>> \in Seq(S)
    OBVIOUS
  <2>2. CASE \E m \in {"none", "password", "other"} : a = <<Method(m)>>
    BY <2>1, <2>2, AnswerKinds
  <2>3. CASE \E g \in {"granted", "denied"} : a = <<Auth(g)>>
    BY <2>1, <2>3, AnswerKinds
  <2>4. CASE \E h \in {"200", "other"} : a = <<Header("stub"), Header(h), Header("tail")>>
    <3>1. \A h \in {"stub", "200", "other", "tail"} : Header(h) \in S
      BY AnswerKinds
    <3> QED
      BY <2>1, <2>4, <3>1
  <2>5. CASE a \in {<<Reply("ipv4")>>, <<Reply("refused")>>, <<Reply("long"), Reply("rest")>>}
    BY <2>1, <2>5, AnswerKinds
  <2> QED
    BY <1>2, <2>2, <2>3, <2>4, <2>5, AnswerCases
<1>4. v.stream \o a \in Seq(S)
  BY <1>3, ConcatProperties DEF Conversation
<1> QED
  BY <1>1, <1>4 DEF Conversation, Question, Grants

LEMMA ReadsFit ==
    ASSUME NEW S, Answer \subseteq S, NEW cfg \in Config,
           NEW v \in Conversation(S), Handshaking(v), NEW w \in Reads(v, cfg)
    PROVE  w \in Conversation(S)
<1>1. CASE w = Failed
  BY <1>1, StartFits
<1>2. CASE w # Failed
  <2>1. v.stream # <<>>
    BY <1>2 DEF Reads
  <2>2. v.stream \in Seq(S) /\ Tail(v.stream) \in Seq(S)
    BY <2>1 DEF Conversation
  <2>3. CASE v.at = "method"
    BY <1>2, <2>1, <2>2, <2>3 DEF Reads, AfterMethod, Ask, Conversation, Position, Question
  <2>4. CASE v.at = "auth"
    BY <1>2, <2>1, <2>2, <2>4 DEF Reads, AfterAuth, Ask, Conversation, Position, Question
  <2>5. CASE v.at = "reply"
    BY <1>2, <2>1, <2>2, <2>5 DEF Reads, AfterReply, Conversation, Position
  <2>6. CASE v.at = "header"
    <3>1. PICK k \in Nat \ {0} : w = AfterHeader(v, k)
      BY <2>1, <2>2, <2>6 DEF Reads
    <3>2. SubSeq(v.stream, k + 1, Len(v.stream)) \in Seq(S)
      BY <2>2, <3>1, SubSeqProperties
    <3> QED
      BY <1>2, <3>1, <3>2 DEF AfterHeader, Conversation, Position
  <2> QED
    BY <2>3, <2>4, <2>5, <2>6 DEF Handshaking
<1> QED
  BY <1>1, <1>2
=============================================================================
