---------------------------- MODULE MCRuleEngine ----------------------------
(***************************************************************************)
(* A small instance of RuleEngine: two programs, two hosts, one port, and  *)
(* patterns for one program, for one host and for everything without       *)
(* being "*".                                                              *)
(***************************************************************************)
EXTENDS RuleEngine

CONSTANTS curl, wget, h1, h2, pcurl, phost, pall

MCRuleId == 0..Modulus - 1

MCMatched ==
    [p \in Pattern |->
        CASE p = pcurl -> {curl}
          [] p = phost -> {h1}
          [] p = Empty -> {}
          [] OTHER -> Program \cup Host \cup DestPort]

Sub(process, hosts, protocol, action) ==
    [process |-> process, hosts |-> hosts, ports |-> Empty, protocol |-> protocol,
     action |-> action]

(* Rules for one program, for one host, for everything (as a plain         *)
(* wildcard and not), of each protocol and action that tells them apart,   *)
(* and one that add_rule refuses.                                          *)
MCSubmitted ==
    {Sub(pcurl, Empty, "both", "Proxy"), Sub(pcurl, phost, "tcp", "Block"),
     Sub(Wild, phost, "both", "Direct"), Sub(pall, pall, "both", "Proxy"),
     Sub(Wild, Empty, "both", "Block"), Sub(Wild, Wild, "udp", "Proxy"),
     Sub(Empty, Wild, "both", "Proxy")}
=============================================================================
