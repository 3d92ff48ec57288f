----------------------------- MODULE RuleEngine -----------------------------
(***************************************************************************)
(* RuleEngine: the list of rules behind its RwLock, the process-wide       *)
(* counter NEXT_RULE_ID, and callers that use the engine concurrently, as  *)
(* its methods allow.  In this program main.rs adds all rules before it    *)
(* starts a thread; nothing enables, disables or deletes one.              *)
(* add_rule takes its id from the counter before it takes the lock, so it  *)
(* is two steps; every other method is one critical section.               *)
(***************************************************************************)
EXTENDS Rules

CONSTANTS
    Caller,     \* threads that hold a clone of the engine
    NoRule,     \* a caller that is not in add_rule
    Submitted,  \* what callers pass to add_rule
    Modulus,    \* 2^32, the counter wraps to 0 there
    MaxRules    \* bound: rules in the list or about to be

ASSUME RuleEngineAssumption ==
    /\ Modulus \in Nat \ {0, 1} /\ RuleId = 0..Modulus - 1
    /\ MaxRules \in Nat
    /\ NoRule \notin Rule
    /\ Submitted \subseteq [process : Pattern, hosts : Pattern, ports : Pattern,
                            protocol : Protocol, action : Action]

VARIABLES
    rules,    \* the list
    nextId,   \* NEXT_RULE_ID
    adding,   \* the rule each caller is about to push, or NoRule
    \* History:
    seen      \* by rule id, the ids in the list when its add_rule began

vars == <<rules, nextId, adding, seen>>

Ids == {rules[i].id : i \in 1..Len(rules)}

Pending == {c \in Caller : adding[c] # NoRule}

Init ==
    /\ rules = <<>>
    /\ nextId = 1
    /\ adding = [c \in Caller |-> NoRule]
    /\ seen = [i \in RuleId |-> {}]

OrWild(pattern) == IF pattern = Empty THEN Wild ELSE pattern

MutNewRule(id, s) ==    \* keeps an empty list of ports
    [id |-> id, process |-> s.process, hosts |-> OrWild(s.hosts), ports |-> s.ports,
     protocol |-> s.protocol, action |-> s.action, enabled |-> TRUE]

NewRule(id, s) ==
    [id |-> id, process |-> s.process, hosts |-> OrWild(s.hosts), ports |-> OrWild(s.ports),
     protocol |-> s.protocol, action |-> s.action, enabled |-> TRUE]

(* add_rule up to the lock; a rule without a process is refused before it  *)
(* takes an id.                                                            *)
MutBeginAdd(c, s) ==    \* numbers the rule by its place in the list
    /\ adding[c] = NoRule /\ s.process # Empty
    /\ Len(rules) + 1 \in RuleId
    /\ adding' = [adding EXCEPT ![c] = NewRule(Len(rules) + 1, s)]
    /\ seen' = [seen EXCEPT ![Len(rules) + 1] = Ids]
    /\ UNCHANGED <<rules, nextId>>

BeginAdd(c, s) ==
    /\ adding[c] = NoRule /\ s.process # Empty
    /\ adding' = [adding EXCEPT ![c] = NewRule(nextId, s)]
    /\ seen' = [seen EXCEPT ![nextId] = Ids]
    /\ nextId' = (nextId + 1) % Modulus
    /\ UNCHANGED rules

MutPush(c) ==           \* puts the newest rule first
    /\ adding[c] # NoRule
    /\ Len(rules) < MaxRules
    /\ rules' = <<adding[c]>> \o rules
    /\ adding' = [adding EXCEPT ![c] = NoRule]
    /\ UNCHANGED <<nextId, seen>>

Push(c) ==
    /\ adding[c] # NoRule
    /\ Len(rules) < MaxRules
    /\ rules' = Append(rules, adding[c])
    /\ adding' = [adding EXCEPT ![c] = NoRule]
    /\ UNCHANGED <<nextId, seen>>

(* find stops at the first rule with the id. *)
SetEnabled(id, on) ==
    \E i \in 1..Len(rules) :
        /\ rules[i].id = id /\ \A j \in 1..i - 1 : rules[j].id # id
        /\ rules' = [rules EXCEPT ![i].enabled = on]
        /\ UNCHANGED <<nextId, adding, seen>>

EnableRule(id) == SetEnabled(id, TRUE)
DisableRule(id) == SetEnabled(id, FALSE)

(* retain drops every rule with the id. *)
Retained(list, id) ==
    LET kept[i \in 0..Len(list)] ==
            IF i = 0 THEN <<>>
            ELSE IF list[i].id = id THEN kept[i - 1]
            ELSE Append(kept[i - 1], list[i])
    IN  kept[Len(list)]

DeleteRule(id) ==
    /\ id \in Ids
    /\ rules' = Retained(rules, id)
    /\ UNCHANGED <<nextId, adding, seen>>

(* The calls that change a state below the bounds; a call with an unknown  *)
(* id changes nothing.                                                     *)
Next ==
    \/ \E c \in Caller :
           \/ /\ nextId + 1 < Modulus
              /\ \E s \in Submitted : BeginAdd(c, s)
           \/ Push(c)
    \/ \E id \in RuleId : EnableRule(id) \/ DisableRule(id) \/ DeleteRule(id)

Spec == Init /\ [][Next]_vars

-----------------------------------------------------------------------------
\* Properties

TypeOK ==
    /\ rules \in Seq(Rule)
    /\ nextId \in RuleId
    /\ adding \in [Caller -> Rule \cup {NoRule}]
    /\ seen \in [RuleId -> SUBSET RuleId]

(* Until the counter wraps, an id names one rule, listed or about to be:   *)
(* what disable_rule and delete_rule are given means one rule, whatever    *)
(* was deleted since and whoever else is adding.                           *)
UniqueIds ==
    /\ \A i, j \in 1..Len(rules) : rules[i].id = rules[j].id => i = j
    /\ \A c \in Pending : adding[c].id \notin Ids
    /\ \A c, d \in Pending : adding[c].id = adding[d].id => c = d

(* The order of the list, which match_rule depends on, is the order of the *)
(* calls: a rule listed when another one's add_rule began comes before it, *)
(* though ids and pushes of overlapping calls may cross.                   *)
AddOrder ==
    \A i, j \in 1..Len(rules) : rules[i].id \in seen[rules[j].id] => i < j

(* The rules that apply to a query, other than plain wildcards, and those. *)
Hits(q) ==
    {i \in 1..Len(rules) :
        Considered(rules[i], q) /\ ~PlainWildcard(rules[i]) /\ Matches(rules[i], q)}

Wildcards(q) ==
    {i \in 1..Len(rules) : Considered(rules[i], q) /\ PlainWildcard(rules[i])}

First(S) == CHOOSE i \in S : \A j \in S : i <= j

Expected(q) ==
    IF Hits(q) # {} THEN rules[First(Hits(q))].action
    ELSE IF Wildcards(q) # {} THEN rules[First(Wildcards(q))].action
    ELSE "Direct"

(* What the loop of match_rule computes: the first rule that matches and   *)
(* is no plain wildcard; else the first plain wildcard; else Direct.  This *)
(* is what the code does, for the user to write rules by; it is not what   *)
(* its doc comment says, which is FirstMatchWins.                          *)
MatchIsExpected == \A q \in Query : MatchRule(rules, q) = Expected(q)

(* "Returns the action for the first matching rule, or Direct if none      *)
(* match."                                                                 *)
FirstMatchWins ==
    \A q \in Query :
        LET matching == {i \in 1..Len(rules) : Considered(rules[i], q) /\ Matches(rules[i], q)}
        IN  MatchRule(rules, q) =
                IF matching = {} THEN "Direct" ELSE rules[First(matching)].action

(* The NFQUEUE thread accepts a packet without a look at its process when  *)
(* no rule is active: no packet would have been proxied or blocked.        *)
FastPathSound == ~HasActiveRules(rules) => \A q \in Query : MatchRule(rules, q) = "Direct"
=============================================================================
