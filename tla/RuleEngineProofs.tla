-------------------------- MODULE RuleEngineProofs --------------------------
(***************************************************************************)
(* Theorems about RuleEngine, for any number of callers, any patterns and  *)
(* lists of any length: the list of rules keeps ids apart and calls in     *)
(* order, and the loop of match_rule computes what it is meant to.         *)
(***************************************************************************)
EXTENDS RuleEngine, WellFoundedInduction, TLAPS

-----------------------------------------------------------------------------
\* Induction over the length of the list

LEMMA LeastNatural ==
    ASSUME NEW S \in SUBSET Nat, S # {}
    PROVE  \E n \in S : \A m \in S : n <= m
<1> DEFINE R == {p \in Nat \X Nat : p[1] < p[2]}
<1>1. IsWellFoundedOn(R, Nat)
  BY NatLessThanWellFounded DEF OpToRel
<1>2. \A m, n \in Nat : m < n => <<m, n>> \in R
  OBVIOUS
<1> HIDE DEF R
<1>3. PICK n \in S : \A m \in S : ~ (<<m, n>> \in R)
  BY <1>1, WFMin
<1>4. n \in Nat /\ \A m \in S : m \in Nat /\ ~ (m < n)
  BY <1>2, <1>3
<1> QED
  BY <1>4

LEMMA Induction ==
    ASSUME NEW S, 0 \in S, \A n \in Nat : n \in S => n + 1 \in S
    PROVE  Nat \subseteq S
<1> SUFFICES ASSUME Nat \ S # {} PROVE FALSE
  OBVIOUS
<1>1. PICK n \in Nat \ S : \A m \in Nat \ S : n <= m
  BY LeastNatural
<1>2. n # 0 /\ n - 1 \in Nat /\ n - 1 \in S
  BY <1>1
<1> QED
  BY <1>1, <1>2

Steps(n, S) == [(1..n) \X S -> S]

Follows(f, n, base, step) == f[0] = base /\ \A i \in 1..n : f[i] = step[<<i, f[i - 1]>>]

(* A function can be defined by what its first value is and how each value *)
(* follows from the one before.                                            *)
LEMMA Recursion ==
    ASSUME NEW S, NEW base \in S, NEW n \in Nat, NEW step \in Steps(n, S)
    PROVE  \E f \in [0..n -> S] : Follows(f, n, base, step)
<1> USE DEF Steps, Follows
<1> DEFINE Defined(m, f) == f[0] = base /\ \A i \in 1..m : f[i] = step[<<i, f[i - 1]>>]
           T == {m \in Nat : m <= n => \E f \in [0..m -> S] : Defined(m, f)}
<1>1. 0 \in T
  <2>1. Defined(0, [i \in 0..0 |-> base])
    OBVIOUS
  <2> QED
    BY <2>1
<1>2. ASSUME NEW m \in Nat, m \in T PROVE m + 1 \in T
  <2>1. SUFFICES ASSUME m + 1 <= n PROVE \E f \in [0..m + 1 -> S] : Defined(m + 1, f)
    OBVIOUS
  <2>2. PICK f \in [0..m -> S] : Defined(m, f)
    BY <1>2, <2>1
  <2> DEFINE g == [i \in 0..m + 1 |-> IF i = m + 1 THEN step[<<m + 1, f[m]>>] ELSE f[i]]
  <2>3. step[<<m + 1, f[m]>>] \in S
    BY <2>1
  <2>4. g \in [0..m + 1 -> S]
    BY <2>3
  <2>5. g[0] = base
    BY <2>2
  <2>6. ASSUME NEW i \in 1..m + 1 PROVE g[i] = step[<<i, g[i - 1]>>]
    <3>1. i - 1 \in 0..m /\ g[i - 1] = f[i - 1]
      OBVIOUS
    <3>2. CASE i = m + 1
      <4>1. g[i] = step[<<m + 1, f[m]>>] /\ i - 1 = m
        BY <3>2
      <4> HIDE DEF g
      <4> QED
        BY <3>1, <3>2, <4>1
    <3>3. CASE i # m + 1
      <4>1. g[i] = f[i] /\ i \in 1..m
        BY <3>3
      <4> HIDE DEF g
      <4> QED
        BY <2>2, <3>1, <4>1
    <3> QED
      BY <3>2, <3>3
  <2> HIDE DEF g
  <2> QED
    BY <2>4, <2>5, <2>6
<1> HIDE DEF T
<1>3. n \in T
  BY <1>1, <1>2, Induction
<1> QED
  BY <1>3 DEF T

-----------------------------------------------------------------------------
\* The loop of match_rule

Loop == [hit : Action \cup {None}, wildcard : Action \cup {None}]

LEMMA ScanType ==
    ASSUME NEW acc \in Loop, NEW r \in Rule, NEW q
    PROVE  Scan(acc, r, q) \in Loop
  BY DEF Scan, Loop, Rule

LEMMA FoundStep ==
    ASSUME NEW list \in Seq(Rule), NEW q
    PROVE  /\ Found(list, q)[0] = NothingFound
           /\ \A i \in 1..Len(list) :
                  Found(list, q)[i] = Scan(Found(list, q)[i - 1], list[i], q)
<1> DEFINE step == [p \in (1..Len(list)) \X Loop |-> Scan(p[2], list[p[1]], q)]
<1>1. NothingFound \in Loop
  BY DEF NothingFound, Loop
<1>2. step \in Steps(Len(list), Loop)
  <2>1. \A i \in 1..Len(list) : list[i] \in Rule
    OBVIOUS
  <2> QED
    BY <2>1, ScanType DEF Steps
<1>3. \A i \in 1..Len(list), acc \in Loop : step[<<i, acc>>] = Scan(acc, list[i], q)
  OBVIOUS
<1> HIDE DEF step
<1>4. PICK f \in [0..Len(list) -> Loop] : Follows(f, Len(list), NothingFound, step)
  <2>1. Len(list) \in Nat
    OBVIOUS
  <2> QED
    BY <1>1, <1>2, <2>1, Recursion
<1>5. f = [i \in 0..Len(list) |-> IF i = 0 THEN NothingFound ELSE Scan(f[i - 1], list[i], q)]
  <2>1. ASSUME NEW i \in 0..Len(list)
        PROVE  f[i] = IF i = 0 THEN NothingFound ELSE Scan(f[i - 1], list[i], q)
    <3>1. CASE i = 0
      BY <1>4, <3>1 DEF Follows
    <3>2. CASE i # 0
      <4>1. i \in 1..Len(list) /\ i - 1 \in 0..Len(list)
        BY <3>2
      <4> QED
        BY <1>3, <1>4, <3>2, <4>1 DEF Follows
    <3> QED
      BY <3>1, <3>2
  <2> QED
    BY <2>1
<1>6. Found(list, q) = [i \in 0..Len(list) |->
          IF i = 0 THEN NothingFound ELSE Scan(Found(list, q)[i - 1], list[i], q)]
  BY <1>5 DEF Found
<1> HIDE DEF Found
<1> QED
  BY <1>6

Hit(i, q) == Considered(rules[i], q) /\ ~PlainWildcard(rules[i]) /\ Matches(rules[i], q)
WildcardAt(i, q) == Considered(rules[i], q) /\ PlainWildcard(rules[i])

(* What the first n rules are known to be when the loop has found acc. *)
Explains(acc, n, q) ==
    /\ acc.hit # None =>
           \E h \in 1..n : /\ Hit(h, q) /\ acc.hit = rules[h].action
                           /\ \A i \in 1..h - 1 : ~Hit(i, q)
    /\ acc.hit = None => \A i \in 1..n : ~Hit(i, q)
    /\ acc.hit = None /\ acc.wildcard # None =>
           \E w \in 1..n : /\ WildcardAt(w, q) /\ acc.wildcard = rules[w].action
                           /\ \A i \in 1..w - 1 : ~WildcardAt(i, q)
    /\ acc.hit = None /\ acc.wildcard = None => \A i \in 1..n : ~WildcardAt(i, q)

LEMMA ExplainsStep ==
    ASSUME rules \in Seq(Rule), NEW q, NEW acc \in Loop, NEW n \in Nat, n + 1 <= Len(rules),
           Explains(acc, n, q)
    PROVE  Explains(Scan(acc, rules[n + 1], q), n + 1, q)
<1> DEFINE new == Scan(acc, rules[n + 1], q)
<1>1. n + 1 \in 1..Len(rules) /\ rules[n + 1] \in Rule /\ rules[n + 1].action # None
  <2>1. n + 1 \in 1..Len(rules)
    OBVIOUS
  <2>2. rules[n + 1] \in Rule
    BY <2>1
  <2>3. rules[n + 1].action # None
    BY <2>2 DEF Rule, Action, None
  <2> QED
    BY <2>1, <2>2, <2>3
<1>2. \A i \in 1..n + 1 : i \in 1..n \/ i = n + 1
  OBVIOUS
<1>3. \A i \in 1..n : i \in 1..n + 1
  OBVIOUS
<1>4. CASE acc.hit # None
  <2>1. new = acc
    BY <1>4 DEF Scan
  <2> HIDE DEF new
  <2> QED
    BY <1>3, <1>4, <2>1 DEF Explains, new
<1>5. CASE acc.hit = None /\ ~Considered(rules[n + 1], q)
  <2>1. new = acc /\ ~Hit(n + 1, q) /\ ~WildcardAt(n + 1, q)
    <3>1. new = acc
      BY <1>5 DEF Scan
    <3>2. ~Hit(n + 1, q) /\ ~WildcardAt(n + 1, q)
      BY <1>5 DEF Hit, WildcardAt
    <3> QED
      BY <3>1, <3>2
  <2> HIDE DEF new
  <2> QED
    BY <1>2, <1>3, <1>5, <2>1 DEF Explains, new
<1>6. CASE acc.hit = None /\ WildcardAt(n + 1, q)
  <2>1. ~Hit(n + 1, q) /\ new.hit = None
    <3>1. ~Hit(n + 1, q)
      BY <1>6 DEF Hit, WildcardAt
    <3>2. new.hit = None
      BY <1>6 DEF Scan, WildcardAt, Loop
    <3> QED
      BY <3>1, <3>2
  <2>2. CASE acc.wildcard = None
    <3>1. new.wildcard = rules[n + 1].action
      BY <1>6, <2>2 DEF Scan, WildcardAt, Loop
    <3>2. \A i \in 1..(n + 1) - 1 : ~WildcardAt(i, q)
      BY <1>6, <2>2 DEF Explains
    <3> HIDE DEF new
    <3>3. \E w \in 1..n + 1 : /\ WildcardAt(w, q) /\ new.wildcard = rules[w].action
                              /\ \A i \in 1..w - 1 : ~WildcardAt(i, q)
      BY <1>6, <3>1, <3>2
    <3> QED
      BY <1>1, <1>2, <1>6, <2>1, <3>1, <3>3 DEF Explains, new
  <2>3. CASE acc.wildcard # None
    <3>1. new.wildcard = acc.wildcard
      BY <1>6, <2>3 DEF Scan, WildcardAt
    <3> HIDE DEF new
    <3> QED
      BY <1>2, <1>3, <1>6, <2>1, <2>3, <3>1 DEF Explains, new
  <2> QED
    BY <2>2, <2>3
<1>7. CASE acc.hit = None /\ Hit(n + 1, q)
  <2>1. new.hit = rules[n + 1].action
    BY <1>7 DEF Scan, Hit, Loop
  <2>2. \A i \in 1..(n + 1) - 1 : ~Hit(i, q)
    BY <1>7 DEF Explains
  <2> HIDE DEF new
  <2>3. \E h \in 1..n + 1 : /\ Hit(h, q) /\ new.hit = rules[h].action
                            /\ \A i \in 1..h - 1 : ~Hit(i, q)
    BY <1>7, <2>1, <2>2
  <2> QED
    BY <1>1, <2>1, <2>3 DEF Explains, new
<1>8. CASE acc.hit = None /\ Considered(rules[n + 1], q) /\ ~PlainWildcard(rules[n + 1])
           /\ ~Matches(rules[n + 1], q)
  <2>1. new = acc /\ ~Hit(n + 1, q) /\ ~WildcardAt(n + 1, q)
    <3>1. new = acc
      BY <1>8 DEF Scan
    <3>2. ~Hit(n + 1, q) /\ ~WildcardAt(n + 1, q)
      BY <1>8 DEF Hit, WildcardAt
    <3> QED
      BY <3>1, <3>2
  <2> HIDE DEF new
  <2> QED
    BY <1>2, <1>3, <1>8, <2>1 DEF Explains, new
<1> QED
  BY <1>4, <1>5, <1>6, <1>7, <1>8 DEF Hit, WildcardAt

LEMMA LoopExplained ==
    ASSUME rules \in Seq(Rule), NEW q
    PROVE  LET end == Found(rules, q)[Len(rules)] IN
               end \in Loop /\ Explains(end, Len(rules), q)
<1> DEFINE found == Found(rules, q)
           S == {n \in Nat : n <= Len(rules) =>
                     found[n] \in Loop /\ Explains(found[n], n, q)}
<1>1. found[0] = NothingFound /\ \A i \in 1..Len(rules) : found[i] = Scan(found[i - 1], rules[i], q)
  BY FoundStep
<1> HIDE DEF found
<1>2. 0 \in S
  BY <1>1 DEF NothingFound, Loop, Explains
<1>3. ASSUME NEW n \in Nat, n \in S PROVE n + 1 \in S
  <2>1. SUFFICES ASSUME n + 1 <= Len(rules)
                 PROVE  found[n + 1] \in Loop /\ Explains(found[n + 1], n + 1, q)
    OBVIOUS
  <2>2. found[n] \in Loop /\ Explains(found[n], n, q)
    BY <1>3, <2>1
  <2>3. n + 1 \in 1..Len(rules) /\ rules[n + 1] \in Rule
    BY <2>1
  <2>4. found[n + 1] = Scan(found[n], rules[n + 1], q)
    BY <1>1, <2>3
  <2> QED
    BY <2>1, <2>2, <2>3, <2>4, ScanType, ExplainsStep
<1> HIDE DEF S
<1>4. Len(rules) \in S
  BY <1>2, <1>3, Induction
<1> QED
  BY <1>4 DEF S, found

LEMMA FirstIs ==
    ASSUME NEW S \in SUBSET Nat, NEW i \in S, \A j \in S : i <= j
    PROVE  First(S) = i
<1>1. \E k \in S : \A j \in S : k <= j
  OBVIOUS
<1>2. First(S) \in S /\ \A j \in S : First(S) <= j
  BY <1>1, Zenon DEF First
<1>3. First(S) \in Nat /\ First(S) <= i /\ i <= First(S)
  BY <1>2
<1> QED
  BY <1>3

LEMMA MatchRuleMeans ==
    ASSUME rules \in Seq(Rule), NEW q
    PROVE  MatchRule(rules, q) = Expected(q)
<1> DEFINE end == Found(rules, q)[Len(rules)]
<1>1. end \in Loop /\ Explains(end, Len(rules), q)
  BY LoopExplained
<1>2. MatchRule(rules, q) = IF end.hit # None THEN end.hit
                            ELSE IF end.wildcard # None THEN end.wildcard ELSE "Direct"
  BY DEF MatchRule
<1>3. /\ Hits(q) = {i \in 1..Len(rules) : Hit(i, q)} /\ Hits(q) \subseteq Nat
      /\ Wildcards(q) = {i \in 1..Len(rules) : WildcardAt(i, q)} /\ Wildcards(q) \subseteq Nat
  BY DEF Hits, Hit, Wildcards, WildcardAt
<1> HIDE DEF end
<1>4. CASE end.hit # None
  <2>1. PICK h \in 1..Len(rules) : /\ Hit(h, q) /\ end.hit = rules[h].action
                                   /\ \A i \in 1..h - 1 : ~Hit(i, q)
    BY <1>1, <1>4 DEF Explains
  <2>2. h \in Hits(q) /\ \A i \in Hits(q) : h <= i
    BY <1>3, <2>1
  <2>3. First(Hits(q)) = h
    BY <1>3, <2>2, FirstIs
  <2> QED
    BY <1>2, <1>4, <2>1, <2>2, <2>3 DEF Expected
<1>5. CASE end.hit = None /\ end.wildcard # None
  <2>1. Hits(q) = {}
    BY <1>1, <1>3, <1>5 DEF Explains
  <2>2. PICK w \in 1..Len(rules) : /\ WildcardAt(w, q) /\ end.wildcard = rules[w].action
                                   /\ \A i \in 1..w - 1 : ~WildcardAt(i, q)
    BY <1>1, <1>5 DEF Explains
  <2>3. w \in Wildcards(q) /\ \A i \in Wildcards(q) : w <= i
    BY <1>3, <2>2
  <2>4. First(Wildcards(q)) = w
    BY <1>3, <2>3, FirstIs
  <2> QED
    BY <1>2, <1>5, <2>1, <2>2, <2>3, <2>4 DEF Expected
<1>6. CASE end.hit = None /\ end.wildcard = None
  <2>1. Hits(q) = {} /\ Wildcards(q) = {}
    BY <1>1, <1>3, <1>6 DEF Explains
  <2> QED
    BY <1>2, <1>6, <2>1 DEF Expected
<1> QED
  BY <1>4, <1>5, <1>6
-----------------------------------------------------------------------------
\* retain

(* Each rule of small is one of the first n of big, in their order, and    *)
(* none has the id.                                                        *)
Selects(g, small, big, n, id) ==
    /\ g \in [1..Len(small) -> 1..n]
    /\ \A a \in 1..Len(small) : small[a] = big[g[a]] /\ small[a].id # id
    /\ \A a, b \in 1..Len(small) : a < b => g[a] < g[b]

LEMMA SelectsStep ==
    ASSUME NEW big \in Seq(Rule), NEW id, NEW n \in Nat, n + 1 <= Len(big),
           NEW small \in Seq(Rule), \E g : Selects(g, small, big, n, id), big[n + 1].id # id
    PROVE  LET more == Append(small, big[n + 1]) IN
               more \in Seq(Rule) /\ \E g : Selects(g, more, big, n + 1, id)
<1> DEFINE more == Append(small, big[n + 1])
<1>1. PICK g : Selects(g, small, big, n, id)
  OBVIOUS
<1>2. n + 1 \in 1..Len(big) /\ big[n + 1] \in Rule
  <2>1. n + 1 \in 1..Len(big)
    OBVIOUS
  <2> QED
    BY <2>1
<1>3. /\ more \in Seq(Rule) /\ Len(more) = Len(small) + 1
      /\ \A a \in 1..Len(small) : more[a] = small[a]
      /\ more[Len(small) + 1] = big[n + 1]
  BY <1>2
<1> HIDE DEF more
<1> DEFINE l == Len(small)
           h == [a \in 1..l + 1 |-> IF a = l + 1 THEN n + 1 ELSE g[a]]
<1>4. l \in Nat /\ \A a \in 1..l + 1 : a = l + 1 \/ a \in 1..l
  OBVIOUS
<1>5. /\ g \in [1..l -> 1..n]
      /\ \A a \in 1..l : small[a] = big[g[a]] /\ small[a].id # id
      /\ \A a, b \in 1..l : a < b => g[a] < g[b]
  BY <1>1 DEF Selects
<1>6. Len(more) = l + 1 /\ \A a \in 1..l : more[a] = small[a]
  BY <1>3
<1>7. more[l + 1] = big[n + 1]
  BY <1>3
<1> HIDE DEF l
<1>8. h[l + 1] = n + 1 /\ \A a \in 1..l : h[a] = g[a] /\ a # l + 1
  BY <1>4
<1>9. h \in [1..l + 1 -> 1..n + 1]
  BY <1>4, <1>5
<1> HIDE DEF h
<1>10. \A a \in 1..l + 1 : more[a] = big[h[a]] /\ more[a].id # id
  BY <1>4, <1>5, <1>6, <1>7, <1>8
<1>11. ASSUME NEW a \in 1..l + 1, NEW b \in 1..l + 1, a < b PROVE h[a] < h[b]
  <2>1. a \in 1..l
    BY <1>4, <1>11
  <2>2. CASE b = l + 1
    <3>1. h[a] = g[a] /\ g[a] \in 1..n
      BY <1>5, <1>8, <2>1
    <3> QED
      BY <1>8, <2>2, <3>1
  <2>3. CASE b \in 1..l
    BY <1>5, <1>8, <1>11, <2>1, <2>3
  <2> QED
    BY <1>4, <2>2, <2>3
<1>12. Selects(h, more, big, n + 1, id)
  BY <1>6, <1>9, <1>10, <1>11 DEF Selects
<1> QED
  BY <1>3, <1>12 DEF more

KeptStep(list, id) ==
    [p \in (1..Len(list)) \X Seq(Rule) |->
        IF list[p[1]].id = id THEN p[2] ELSE Append(p[2], list[p[1]])]

(* What delete_rule leaves of the list. *)
LEMMA RetainedSelects ==
    ASSUME NEW list \in Seq(Rule), NEW id
    PROVE  /\ Retained(list, id) \in Seq(Rule)
           /\ \E g : Selects(g, Retained(list, id), list, Len(list), id)
<1> DEFINE F(k) == k = [i \in 0..Len(list) |->
                           IF i = 0 THEN <<>>
                           ELSE IF list[i].id = id THEN k[i - 1]
                           ELSE Append(k[i - 1], list[i])]
           kept == CHOOSE k : F(k)
           step == KeptStep(list, id)
<1>1. step \in Steps(Len(list), Seq(Rule))
  BY DEF Steps, KeptStep
<1>2. \A i \in 1..Len(list), acc \in Seq(Rule) :
          step[<<i, acc>>] = IF list[i].id = id THEN acc ELSE Append(acc, list[i])
  BY DEF KeptStep
<1> HIDE DEF step
<1>3. <<>> \in Seq(Rule) /\ Len(list) \in Nat
  OBVIOUS
<1>4. PICK f \in [0..Len(list) -> Seq(Rule)] : Follows(f, Len(list), <<>>, step)
  BY <1>1, <1>3, Recursion
<1>5. F(f)
  <2>1. ASSUME NEW i \in 0..Len(list)
        PROVE  f[i] = IF i = 0 THEN <<>>
                      ELSE IF list[i].id = id THEN f[i - 1] ELSE Append(f[i - 1], list[i])
    <3>1. CASE i = 0
      BY <1>4, <3>1 DEF Follows
    <3>2. CASE i # 0
      <4>1. i \in 1..Len(list) /\ i - 1 \in 0..Len(list) /\ f[i - 1] \in Seq(Rule)
        BY <3>2
      <4> QED
        BY <1>2, <1>4, <3>2, <4>1 DEF Follows
    <3> QED
      BY <3>1, <3>2
  <2> QED
    BY <2>1
<1>6. F(kept)
  <2> HIDE DEF F
  <2> QED
    BY <1>5, Zenon
<1>7. Retained(list, id) = kept[Len(list)]
  BY Zenon DEF Retained
<1> HIDE DEF kept
<1>8. \A i \in 0..Len(list) : kept[i] = IF i = 0 THEN <<>>
                      ELSE IF list[i].id = id THEN kept[i - 1] ELSE Append(kept[i - 1], list[i])
  BY <1>6
<1> DEFINE S == {n \in Nat : n <= Len(list) =>
                     kept[n] \in Seq(Rule) /\ \E g : Selects(g, kept[n], list, n, id)}
<1>9. 0 \in S
  <2>1. kept[0] = <<>>
    BY <1>3, <1>8
  <2>2. Selects([a \in 1..0 |-> a], <<>>, list, 0, id)
    BY DEF Selects
  <2> QED
    BY <1>3, <2>1, <2>2
<1>10. ASSUME NEW n \in Nat, n \in S PROVE n + 1 \in S
  <2>1. SUFFICES ASSUME n + 1 <= Len(list)
                 PROVE  kept[n + 1] \in Seq(Rule) /\ \E g : Selects(g, kept[n + 1], list, n + 1, id)
    OBVIOUS
  <2>2. kept[n] \in Seq(Rule) /\ \E g : Selects(g, kept[n], list, n, id)
    BY <1>3, <1>10, <2>1
  <2>3. kept[n + 1] = IF list[n + 1].id = id THEN kept[n] ELSE Append(kept[n], list[n + 1])
    BY <1>3, <1>8, <2>1
  <2>4. CASE list[n + 1].id = id
    <3>1. PICK g : Selects(g, kept[n], list, n, id)
      BY <2>2
    <3>2. Selects(g, kept[n], list, n + 1, id)
      BY <3>1 DEF Selects
    <3> QED
      BY <2>2, <2>3, <2>4, <3>2
  <2>5. CASE list[n + 1].id # id
    BY <2>1, <2>2, <2>3, <2>5, SelectsStep
  <2> QED
    BY <2>4, <2>5
<1> HIDE DEF S
<1>11. Len(list) \in S
  BY <1>3, <1>9, <1>10, Induction
<1> QED
  BY <1>3, <1>7, <1>11 DEF S
-----------------------------------------------------------------------------
\* The list and its ids

(* Every id known to anybody has been given out already, and a rule not    *)
(* pushed yet was in the list of no other rule's add_rule.                 *)
IdsGivenOut ==
    /\ \A i \in 1..Len(rules) : rules[i].id < nextId
    /\ \A c \in Pending : adding[c].id < nextId
    /\ \A y \in RuleId : \A x \in seen[y] : x < nextId
    /\ \A c \in Pending, y \in RuleId : adding[c].id \notin seen[y]

ListInv == TypeOK /\ IdsGivenOut /\ UniqueIds /\ AddOrder

(* The counter stays below its modulus: Next is bounded before it wraps.   *)
LEMMA RuleIdIs == RuleId \subseteq Nat /\ \A i \in Nat : i < Modulus => i \in RuleId
  BY RuleEngineAssumption

LEMMA IdsIs ==
    ASSUME rules \in Seq(Rule)
    PROVE  /\ \A i \in 1..Len(rules) :
                  rules[i] \in Rule /\ rules[i].id \in Ids /\ rules[i].id \in RuleId
           /\ \A x \in Ids : \E i \in 1..Len(rules) : rules[i].id = x
           /\ Ids \subseteq RuleId
<1>1. \A i \in 1..Len(rules) : rules[i] \in Rule
  OBVIOUS
<1> QED
  BY <1>1 DEF Ids, Rule

LEMMA InitList == ASSUME Init PROVE ListInv
<1>1. 1 \in RuleId /\ rules \in Seq(Rule) /\ Len(rules) = 0 /\ Pending = {} /\ Ids = {}
  BY RuleEngineAssumption DEF Init, Pending, Ids
<1>2. TypeOK
  BY <1>1 DEF Init, TypeOK
<1>3. IdsGivenOut /\ UniqueIds /\ AddOrder
  BY <1>1 DEF Init, IdsGivenOut, UniqueIds, AddOrder
<1> QED
  BY <1>2, <1>3 DEF ListInv

LEMMA BeginAddKeeps ==
    ASSUME ListInv, NEW c \in Caller, nextId + 1 < Modulus, NEW s \in Submitted, BeginAdd(c, s)
    PROVE  ListInv'
<1> DEFINE new == NewRule(nextId, s)
<1>1. nextId \in RuleId /\ nextId \in Nat /\ nextId + 1 \in RuleId
  BY RuleIdIs DEF ListInv, TypeOK
<1>2. nextId' = nextId + 1
  BY <1>1, RuleEngineAssumption DEF BeginAdd
<1>3. new \in Rule /\ new.id = nextId /\ new # NoRule
  <2>1. /\ s \in [process : Pattern, hosts : Pattern, ports : Pattern,
                  protocol : Protocol, action : Action]
        /\ s.process # Empty /\ NoRule \notin Rule
    BY RuleEngineAssumption DEF BeginAdd
  <2>2. OrWild(s.hosts) \in Pattern \ {Empty} /\ OrWild(s.ports) \in Pattern \ {Empty}
    BY <2>1, PatternAssumption DEF OrWild
  <2>3. s.process \in Pattern \ {Empty}
    BY <2>1
  <2>4. new \in Rule
    BY <1>1, <2>1, <2>2, <2>3 DEF NewRule, Rule
  <2> QED
    BY <2>1, <2>4 DEF NewRule
<1>4. /\ rules' = rules /\ Ids' = Ids
      /\ seen' = [seen EXCEPT ![nextId] = Ids]
      /\ adding' = [adding EXCEPT ![c] = new]
  BY DEF BeginAdd, Ids
<1> HIDE DEF new
<1>5. /\ rules \in Seq(Rule) /\ adding \in [Caller -> Rule \cup {NoRule}]
      /\ seen \in [RuleId -> SUBSET RuleId]
  BY DEF ListInv, TypeOK
<1>6. /\ Ids \subseteq RuleId
      /\ \A i \in 1..Len(rules) : rules[i] \in Rule /\ rules[i].id \in Ids
      /\ \A x \in Ids : x \in RuleId /\ x \in Nat /\ x < nextId
  BY <1>5, IdsIs, RuleIdIs DEF ListInv, IdsGivenOut
<1>7. TypeOK'
  BY <1>1, <1>2, <1>3, <1>4, <1>5, <1>6 DEF TypeOK
<1>8. /\ Pending' = Pending \cup {c} /\ adding'[c] = new
      /\ \A d \in Pending : d # c /\ adding'[d] = adding[d] /\ adding[d].id < nextId
                            /\ adding[d].id \in Nat
  <2>1. c \notin Pending /\ Pending \subseteq Caller
    BY DEF BeginAdd, Pending
  <2>2. \A d \in Pending : adding[d] \in Rule
    BY <1>5 DEF Pending
  <2>3. \A d \in Pending : adding[d].id < nextId /\ adding[d].id \in Nat
    BY <2>2, RuleIdIs DEF ListInv, IdsGivenOut, Rule
  <2>4. \A d \in Caller : adding'[d] = IF d = c THEN new ELSE adding[d]
    BY <1>4, <1>5
  <2>5. Pending' = Pending \cup {c}
    BY <1>3, <2>4 DEF Pending
  <2> QED
    BY <2>1, <2>3, <2>4, <2>5
<1>9. /\ seen'[nextId] = Ids
      /\ \A y \in RuleId : y # nextId => seen'[y] = seen[y]
  BY <1>1, <1>4, <1>5
<1>10. \A y \in RuleId : \A x \in seen[y] : x \in Nat /\ x < nextId
  BY <1>5, RuleIdIs DEF ListInv, IdsGivenOut
<1>11. \A y \in RuleId : \A x \in seen'[y] : x \in Nat /\ x < nextId
  BY <1>6, <1>9, <1>10
<1>12. IdsGivenOut'
  <2>1. ASSUME NEW i \in 1..Len(rules) PROVE rules[i].id < nextId + 1
    <3>1. rules[i].id \in Nat /\ rules[i].id < nextId
      BY <1>6
    <3> QED
      BY <1>1, <3>1
  <2>2. \A d \in Pending' : adding'[d].id < nextId'
    BY <1>1, <1>2, <1>3, <1>8
  <2>3. \A y \in RuleId : \A x \in seen'[y] : x < nextId'
    BY <1>1, <1>2, <1>11
  <2>4. ASSUME NEW d \in Pending', NEW y \in RuleId PROVE adding'[d].id \notin seen'[y]
    <3>1. CASE d = c
      BY <1>1, <1>3, <1>8, <1>11, <3>1
    <3>2. CASE d \in Pending
      BY <1>8, <1>9, <3>2 DEF ListInv, IdsGivenOut, UniqueIds
    <3> QED
      BY <1>8, <3>1, <3>2
  <2>5. \A i \in 1..Len(rules') : rules'[i].id < nextId'
    BY <1>2, <1>4, <2>1
  <2> QED
    BY <2>2, <2>3, <2>4, <2>5 DEF IdsGivenOut
<1>13. UniqueIds'
  <2>1. \A i, j \in 1..Len(rules') : rules'[i].id = rules'[j].id => i = j
    BY <1>4 DEF ListInv, UniqueIds
  <2>2. \A d \in Pending' : adding'[d].id \notin Ids'
    BY <1>1, <1>3, <1>4, <1>6, <1>8 DEF ListInv, UniqueIds
  <2>3. \A d, e \in Pending' : adding'[d].id = adding'[e].id => d = e
    BY <1>1, <1>3, <1>8 DEF ListInv, UniqueIds
  <2> QED
    BY <2>1, <2>2, <2>3 DEF UniqueIds
<1>14. AddOrder'
  <2>1. ASSUME NEW j \in 1..Len(rules) PROVE rules[j].id \in RuleId /\ rules[j].id # nextId
    <3>1. /\ rules[j].id \in RuleId /\ rules[j].id \in Nat
          /\ rules[j].id < nextId
      BY <1>6
    <3> QED
      BY <1>1, <3>1
  <2> QED
    BY <1>4, <1>9, <2>1 DEF ListInv, AddOrder
<1> QED
  BY <1>7, <1>12, <1>13, <1>14 DEF ListInv

LEMMA PushKeeps ==
    ASSUME ListInv, NEW c \in Caller, Push(c)
    PROVE  ListInv'
<1> DEFINE new == adding[c]
           l == Len(rules)
<1>1. /\ rules \in Seq(Rule) /\ adding \in [Caller -> Rule \cup {NoRule}] /\ c \in Pending
  BY DEF ListInv, TypeOK, Push, Pending
<1>2. new \in Rule
  BY <1>1 DEF Pending
<1>3. /\ rules' = Append(rules, new) /\ nextId' = nextId /\ seen' = seen
      /\ adding' = [adding EXCEPT ![c] = NoRule]
  BY DEF Push
<1>4. /\ l \in Nat /\ Len(rules') = l + 1 /\ rules' \in Seq(Rule)
      /\ \A i \in 1..l : rules'[i] = rules[i]
      /\ rules'[l + 1] = new
  BY <1>1, <1>2, <1>3
<1>5. \A i \in 1..l + 1 : i = l + 1 \/ i \in 1..l
  BY <1>4
<1>6. TypeOK'
  BY <1>1, <1>3, <1>4 DEF ListInv, TypeOK
<1>7. Pending' = Pending \ {c} /\ \A d \in Pending \ {c} : adding'[d] = adding[d]
  BY <1>1, <1>3 DEF Pending
<1>8. Ids' = Ids \cup {new.id} /\ \A i \in 1..l : rules[i].id \in Ids
  <2>1. Ids' = {rules'[i].id : i \in 1..l + 1} /\ Ids = {rules[i].id : i \in 1..l}
    BY <1>4 DEF Ids
  <2>2. 1..l + 1 = 1..l \cup {l + 1}
    BY <1>4
  <2>3. {rules'[i].id : i \in 1..l} = {rules[i].id : i \in 1..l}
    BY <1>4
  <2> HIDE DEF new, l
  <2> QED
    BY <1>4, <2>1, <2>2, <2>3
<1>9. /\ new.id < nextId /\ new.id \notin Ids
      /\ \A y \in RuleId : new.id \notin seen[y]
      /\ \A d \in Pending \ {c} : adding[d].id # new.id
  BY <1>1 DEF ListInv, IdsGivenOut, UniqueIds
<1>10. /\ \A i \in 1..l : rules[i].id < nextId /\ rules[i].id \in RuleId
       /\ new.id \in RuleId
  BY <1>1, <1>2, IdsIs DEF ListInv, IdsGivenOut, Rule
<1> HIDE DEF new, l
<1>11. IdsGivenOut'
  <2>1. \A i \in 1..Len(rules') : rules'[i].id < nextId'
    BY <1>3, <1>4, <1>5, <1>9, <1>10
  <2>2. \A d \in Pending' : adding'[d].id < nextId'
    BY <1>3, <1>7 DEF ListInv, IdsGivenOut
  <2>3. \A y \in RuleId : \A x \in seen'[y] : x < nextId'
    BY <1>3 DEF ListInv, IdsGivenOut
  <2>4. \A d \in Pending', y \in RuleId : adding'[d].id \notin seen'[y]
    BY <1>3, <1>7 DEF ListInv, IdsGivenOut
  <2> QED
    BY <2>1, <2>2, <2>3, <2>4 DEF IdsGivenOut
<1>12. UniqueIds'
  <2>1. \A i, j \in 1..Len(rules) : rules[i].id = rules[j].id => i = j
    BY DEF ListInv, UniqueIds
  <2>2. \A i, j \in 1..l + 1 : rules'[i].id = rules'[j].id => i = j
    BY <1>4, <1>5, <1>8, <1>9, <2>1 DEF l
  <2>3. \A d \in Pending' : adding'[d].id \notin Ids'
    BY <1>7, <1>8, <1>9 DEF ListInv, UniqueIds
  <2>4. \A d, e \in Pending' : adding'[d].id = adding'[e].id => d = e
    BY <1>7 DEF ListInv, UniqueIds
  <2> QED
    BY <1>4, <2>2, <2>3, <2>4 DEF UniqueIds
<1>13. AddOrder'
  <2>1. ASSUME NEW i \in 1..l + 1, NEW j \in 1..l + 1, rules'[i].id \in seen'[rules'[j].id]
        PROVE  i < j
    <3>1. rules'[j].id \in RuleId
      BY <1>4, <1>5, <1>10
    <3>2. i \in 1..l
      BY <1>3, <1>4, <1>5, <1>9, <2>1, <3>1
    <3>3. CASE j = l + 1
      BY <1>4, <3>2, <3>3
    <3>4. CASE j \in 1..l
      BY <1>3, <1>4, <2>1, <3>2, <3>4 DEF ListInv, AddOrder, l
    <3> QED
      BY <1>5, <3>3, <3>4
  <2> QED
    BY <1>4, <2>1 DEF AddOrder
<1> QED
  BY <1>6, <1>11, <1>12, <1>13 DEF ListInv

(* Rules may be changed or dropped as long as those that stay keep their   *)
(* ids and their order.                                                    *)
LEMMA FewerRulesKeep ==
    ASSUME ListInv, rules' \in Seq(Rule), UNCHANGED <<nextId, adding, seen>>,
           NEW g \in [1..Len(rules') -> 1..Len(rules)],
           \A a \in 1..Len(rules') : rules'[a].id = rules[g[a]].id,
           \A a, b \in 1..Len(rules') : a < b => g[a] < g[b]
    PROVE  ListInv'
<1> DEFINE l == Len(rules)
           m == Len(rules')
<1>1. l \in Nat /\ m \in Nat /\ rules \in Seq(Rule)
  BY DEF ListInv, TypeOK
<1>2. Pending' = Pending
  BY DEF Pending
<1>3. \A i \in 1..l : rules[i].id \in Ids
  BY DEF Ids
<1>4. /\ g \in [1..m -> 1..l] /\ \A a \in 1..m : g[a] \in 1..l
      /\ \A a \in 1..m : rules'[a].id = rules[g[a]].id
  OBVIOUS
<1>5. Ids' = {rules'[a].id : a \in 1..m}
  BY DEF Ids
<1>6. \A a, b \in 1..m : a < b => g[a] < g[b]
  OBVIOUS
<1>7. /\ IdsGivenOut /\ UniqueIds /\ AddOrder
      /\ nextId' = nextId /\ adding' = adding /\ seen' = seen
  BY DEF ListInv
<1>8. TypeOK'
  BY DEF ListInv, TypeOK
<1>9. /\ \A i, j \in 1..l : rules[i].id = rules[j].id => i = j
      /\ \A i, j \in 1..l : rules[i].id \in seen[rules[j].id] => i < j
      /\ \A i \in 1..l : rules[i].id < nextId
  BY <1>7 DEF IdsGivenOut, UniqueIds, AddOrder
<1> HIDE DEF l, m
<1>10. Ids' \subseteq Ids
  <2>1. ASSUME NEW a \in 1..m PROVE rules'[a].id \in Ids
    <3>1. g[a] \in 1..l /\ rules'[a].id = rules[g[a]].id
      BY <1>4
    <3> QED
      BY <1>3, <3>1
  <2> QED
    BY <1>5, <2>1
<1>11. \A a, b \in 1..m : g[a] = g[b] => a = b
  <2>1. ASSUME NEW a \in 1..m, NEW b \in 1..m, g[a] = g[b] PROVE a = b
    <3>1. g[a] \in Nat /\ ~ (g[a] < g[b]) /\ ~ (g[b] < g[a])
      BY <1>1, <1>4, <2>1
    <3>2. ~ (a < b) /\ ~ (b < a)
      BY <1>6, <3>1
    <3> QED
      BY <1>1, <3>2
  <2> QED
    BY <2>1
<1>12. \A a, b \in 1..m : g[a] < g[b] => a < b
  <2>1. ASSUME NEW a \in 1..m, NEW b \in 1..m, g[a] < g[b] PROVE a < b
    <3>1. g[a] \in Nat /\ g[b] \in Nat /\ ~ (g[b] < g[a]) /\ g[a] # g[b]
      BY <1>1, <1>4, <2>1
    <3>2. ~ (b < a) /\ a # b
      BY <1>6, <3>1
    <3> QED
      BY <1>1, <3>2
  <2> QED
    BY <2>1
<1>13. IdsGivenOut'
  <2>1. ASSUME NEW a \in 1..m PROVE rules'[a].id < nextId'
    <3>1. g[a] \in 1..l /\ rules'[a].id = rules[g[a]].id
      BY <1>4
    <3>2. rules[g[a]].id < nextId
      BY <1>9, <3>1
    <3> QED
      BY <1>7, <3>1, <3>2
  <2> QED
    BY <1>2, <1>7, <2>1 DEF IdsGivenOut, m
<1>14. UniqueIds'
  <2>1. ASSUME NEW a \in 1..m, NEW b \in 1..m, rules'[a].id = rules'[b].id PROVE a = b
    <3>1. /\ g[a] \in 1..l /\ rules'[a].id = rules[g[a]].id
          /\ g[b] \in 1..l /\ rules'[b].id = rules[g[b]].id
      BY <1>4
    <3>2. g[a] = g[b]
      BY <1>9, <2>1, <3>1
    <3> QED
      BY <1>11, <3>2
  <2>2. \A d \in Pending' : adding'[d].id \notin Ids'
    <3>1. \A d \in Pending : adding[d].id \notin Ids
      BY <1>7 DEF UniqueIds
    <3> QED
      BY <1>2, <1>7, <1>10, <3>1
  <2>3. \A d, e \in Pending' : adding'[d].id = adding'[e].id => d = e
    <3>1. \A d, e \in Pending : adding[d].id = adding[e].id => d = e
      BY <1>7 DEF UniqueIds
    <3> QED
      BY <1>2, <1>7, <3>1
  <2> QED
    BY <2>1, <2>2, <2>3 DEF UniqueIds, m
<1>15. AddOrder'
  <2>1. ASSUME NEW a \in 1..m, NEW b \in 1..m, rules'[a].id \in seen'[rules'[b].id] PROVE a < b
    <3>1. /\ g[a] \in 1..l /\ rules'[a].id = rules[g[a]].id
          /\ g[b] \in 1..l /\ rules'[b].id = rules[g[b]].id
      BY <1>4
    <3>2. g[a] < g[b]
      BY <1>7, <1>9, <2>1, <3>1
    <3> QED
      BY <1>12, <3>2
  <2> QED
    BY <2>1 DEF AddOrder, m
<1> QED
  BY <1>8, <1>13, <1>14, <1>15 DEF ListInv

LEMMA SetEnabledKeeps ==
    ASSUME ListInv, NEW id, NEW on \in BOOLEAN, SetEnabled(id, on)
    PROVE  ListInv'
<1>1. rules \in Seq(Rule)
  BY DEF ListInv, TypeOK
<1>2. PICK i \in 1..Len(rules) : rules' = [rules EXCEPT ![i].enabled = on]
  BY DEF SetEnabled
<1>3. \A k \in 1..Len(rules) : rules[k] \in Rule
  BY <1>1
<1>4. [rules[i] EXCEPT !.enabled = on] \in Rule /\ [rules[i] EXCEPT !.enabled = on].id = rules[i].id
  BY <1>3 DEF Rule
<1>5. rules' = [rules EXCEPT ![i] = [rules[i] EXCEPT !.enabled = on]]
  BY <1>2
<1>6. rules' \in Seq(Rule) /\ Len(rules') = Len(rules)
  BY <1>1, <1>4, <1>5
<1>7. \A k \in 1..Len(rules) : rules'[k].id = rules[k].id
  BY <1>1, <1>4, <1>5
<1> DEFINE g == [k \in 1..Len(rules) |-> k]
<1>8. /\ g \in [1..Len(rules') -> 1..Len(rules)]
      /\ \A a \in 1..Len(rules') : rules'[a].id = rules[g[a]].id
      /\ \A a, b \in 1..Len(rules') : a < b => g[a] < g[b]
  BY <1>6, <1>7
<1>9. UNCHANGED <<nextId, adding, seen>>
  BY DEF SetEnabled
<1> HIDE DEF g
<1> QED
  BY <1>6, <1>8, <1>9, FewerRulesKeep

LEMMA DeleteRuleKeeps ==
    ASSUME ListInv, NEW id, DeleteRule(id)
    PROVE  ListInv'
<1>1. rules \in Seq(Rule)
  BY DEF ListInv, TypeOK
<1>2. rules' = Retained(rules, id) /\ UNCHANGED <<nextId, adding, seen>>
  BY DEF DeleteRule
<1>3. rules' \in Seq(Rule) /\ \E g : Selects(g, rules', rules, Len(rules), id)
  BY <1>1, <1>2, RetainedSelects
<1>4. PICK g : Selects(g, rules', rules, Len(rules), id)
  BY <1>3
<1>5. /\ g \in [1..Len(rules') -> 1..Len(rules)]
      /\ \A a \in 1..Len(rules') : rules'[a].id = rules[g[a]].id
      /\ \A a, b \in 1..Len(rules') : a < b => g[a] < g[b]
  BY <1>4 DEF Selects
<1> QED
  BY <1>2, <1>3, <1>5, FewerRulesKeep

LEMMA ListHolds == Spec => []ListInv
<1>1. Init => ListInv
  BY InitList
<1>2. ListInv /\ [Next]_vars => ListInv'
  <2> SUFFICES ASSUME ListInv, [Next]_vars PROVE ListInv'
    OBVIOUS
  <2>1. CASE \E c \in Caller : nextId + 1 < Modulus /\ \E s \in Submitted : BeginAdd(c, s)
    BY <2>1, BeginAddKeeps
  <2>2. CASE \E c \in Caller : Push(c)
    BY <2>2, PushKeeps
  <2>3. CASE \E id \in RuleId : EnableRule(id) \/ DisableRule(id)
    BY <2>3, SetEnabledKeeps DEF EnableRule, DisableRule
  <2>4. CASE \E id \in RuleId : DeleteRule(id)
    BY <2>4, DeleteRuleKeeps
  <2>5. CASE UNCHANGED vars
    BY <2>5 DEF vars, ListInv, TypeOK, IdsGivenOut, UniqueIds, AddOrder, Pending, Ids
  <2> QED
    BY <2>1, <2>2, <2>3, <2>4, <2>5 DEF Next
<1> QED
  BY <1>1, <1>2, PTL DEF Spec

-----------------------------------------------------------------------------
\* Theorems

(* The list, the rules on their way to it and what the engine remembers    *)
(* have their types: no call of add_rule, enable_rule, disable_rule or     *)
(* delete_rule leaves a rule without a process, hosts or ports pattern.    *)
THEOREM TypeCorrect == Spec => []TypeOK
<1>1. ListInv => TypeOK
  BY DEF ListInv
<1> QED
  BY <1>1, ListHolds, PTL

(* An id given by add_rule names one rule whoever adds, deletes and pushes *)
(* meanwhile, as long as NEXT_RULE_ID does not wrap.                       *)
THEOREM UniqueIdsHolds == Spec => []UniqueIds
<1>1. ListInv => UniqueIds
  BY DEF ListInv
<1> QED
  BY <1>1, ListHolds, PTL

(* A rule listed when another's add_rule began stays before it, through    *)
(* every push, deletion and change that follows.                           *)
THEOREM AddOrderHolds == Spec => []AddOrder
<1>1. ListInv => AddOrder
  BY DEF ListInv
<1> QED
  BY <1>1, ListHolds, PTL

(* For every list and query the loop of match_rule, which stops at the     *)
(* first match and puts plain wildcard rules off to the end of the list,   *)
(* computes the rule that Expected names without a loop.                   *)
THEOREM MatchIsExpectedHolds == Spec => []MatchIsExpected
<1>1. TypeOK => MatchIsExpected
  BY MatchRuleMeans DEF TypeOK, MatchIsExpected
<1> QED
  BY <1>1, TypeCorrect, PTL

(* The packet thread may skip the lookup when has_active_rules says no:    *)
(* match_rule would have answered Direct to every query.                   *)
THEOREM FastPathSoundHolds == Spec => []FastPathSound
<1>1. TypeOK => FastPathSound
  <2> SUFFICES ASSUME TypeOK, ~HasActiveRules(rules), NEW q \in Query
               PROVE  MatchRule(rules, q) = "Direct"
    BY DEF FastPathSound
  <2>1. Hits(q) = {} /\ Wildcards(q) = {}
    BY DEF HasActiveRules, Hits, Wildcards, Considered
  <2>2. Expected(q) = "Direct"
    BY <2>1 DEF Expected
  <2> QED
    BY <2>2, MatchRuleMeans DEF TypeOK
<1> QED
  BY <1>1, TypeCorrect, PTL
=============================================================================
