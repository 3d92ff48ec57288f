-------------------------------- MODULE Rules --------------------------------
(***************************************************************************)
(* The rules of proxy-bridge-core and how a packet is matched against      *)
(* them: Rule, RuleEngine::match_rule and RuleEngine::has_active_rules.    *)
(*                                                                         *)
(* A pattern is a string the user wrote, known here by the values it       *)
(* matches (match_process_list, match_ip_list, match_port_list); only Wild *)
(* and Empty are told apart from the others, since match_rule does not     *)
(* treat "*" like a list that also matches everything ("*;curl",           *)
(* "0-65535").  A process named ANY, in whatever case, is Wild too.        *)
(***************************************************************************)
EXTENDS Naturals, Sequences

CONSTANTS
    Program,     \* full paths of the programs that send packets
    Host,        \* destination addresses
    DestPort,    \* destination ports
    Pattern,     \* strings that rules give for process, hosts and ports
    Wild,        \* the pattern "*"
    Empty,       \* the pattern ""
    Matched,     \* the values that each pattern matches
    RuleId       \* rule ids, a u32

Action == {"Proxy", "Direct", "Block"}
Protocol == {"tcp", "udp", "both"}

ASSUME PatternAssumption ==
    /\ {Wild, Empty} \subseteq Pattern /\ Wild # Empty
    /\ Matched \in [Pattern -> SUBSET (Program \cup Host \cup DestPort)]
    /\ Matched[Wild] = Program \cup Host \cup DestPort

Rule == [id : RuleId, process : Pattern \ {Empty}, hosts : Pattern \ {Empty},
         ports : Pattern \ {Empty}, protocol : Protocol, action : Action, enabled : BOOLEAN]

(* What the NFQUEUE thread asks about. *)
Query == [program : Program, host : Host, port : DestPort, proto : {"tcp", "udp"}]

Covers(pattern, value) == value \in Matched[pattern]

-----------------------------------------------------------------------------

MutHasActiveRules(rules) ==    \* counts proxying rules only
    \E i \in 1..Len(rules) : rules[i].enabled /\ rules[i].action = "Proxy"

HasActiveRules(rules) == \E i \in 1..Len(rules) : rules[i].enabled

(* The rules the loop does not skip for their state or protocol. *)
Considered(r, q) == r.enabled /\ r.protocol \in {q.proto, "both"}

(* The wildcard rules that wait for the end of the list. *)
PlainWildcard(r) == r.process = Wild /\ r.hosts = Wild /\ r.ports = Wild

Matches(r, q) ==
    /\ Covers(r.process, q.program)
    /\ Covers(r.hosts, q.host) /\ Covers(r.ports, q.port)

None == "none"

(* One turn of the loop: hit is the action the loop returned with,         *)
(* wildcard that of the first plain wildcard rule it met.                  *)
MutScan(acc, r, q) ==    \* remembers the last wildcard rule
    IF acc.hit # None \/ ~Considered(r, q) THEN acc
    ELSE IF PlainWildcard(r) THEN [acc EXCEPT !.wildcard = r.action]
    ELSE IF Matches(r, q) THEN [acc EXCEPT !.hit = r.action]
    ELSE acc

Scan(acc, r, q) ==
    IF acc.hit # None \/ ~Considered(r, q) THEN acc
    ELSE IF PlainWildcard(r)
         THEN IF acc.wildcard = None THEN [acc EXCEPT !.wildcard = r.action] ELSE acc
    ELSE IF Matches(r, q) THEN [acc EXCEPT !.hit = r.action]
    ELSE acc

NothingFound == [hit |-> None, wildcard |-> None]

(* What the loop has found after each rule. *)
Found(rules, q) ==
    LET found[i \in 0..Len(rules)] ==
            IF i = 0 THEN NothingFound ELSE Scan(found[i - 1], rules[i], q)
    IN  found

MatchRule(rules, q) ==
    LET end == Found(rules, q)[Len(rules)]
    IN  IF end.hit # None THEN end.hit
        ELSE IF end.wildcard # None THEN end.wildcard
        ELSE "Direct"
=============================================================================
