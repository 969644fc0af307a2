------------------------- MODULE LiveThrottleProofs -------------------------
(***************************************************************************)
(* The limits of running connections follow the rules whatever the operator *)
(* does to them, and what was saved throttles the same after a restart: for *)
(* every set of hosts, patterns, categories, speeds and connections, and    *)
(* lists of any length.                                                    *)
(***************************************************************************)
EXTENDS LiveThrottle, SequenceFacts

\* No pattern has two rules.
Distinct(rules) == \A i, j \in DOMAIN rules : rules[i].pattern = rules[j].pattern => i = j

Sound(e) == e \in Engine /\ Distinct(e.rules)

----------------------------------------------------------------------------
(* The engine *)

LEMMA EngineShape ==
    ASSUME NEW e \in Engine
    PROVE  /\ e = [rules |-> e.rules, byCategory |-> e.byCategory]
           /\ e.rules \in Seq(Rule)
           /\ e.byCategory \in [Category -> {<<>>} \cup {<<l>> : l \in Limit}]
           /\ Len(e.rules) \in Nat /\ DOMAIN e.rules = 1..Len(e.rules)
           /\ \A i \in 1..Len(e.rules) : /\ e.rules[i] \in Rule
                                         /\ e.rules[i].pattern \in Pattern
                                         /\ e.rules[i].limit \in Limit
                                         /\ e.rules[i] = [pattern |-> e.rules[i].pattern,
                                                          limit |-> e.rules[i].limit]
<1>1. e.rules \in Seq(Rule)
  BY DEF Engine
<1>2. \A i \in 1..Len(e.rules) : e.rules[i] \in Rule
  BY <1>1, ElementOfSeq
<1>3. \A r \in Rule : /\ r.pattern \in Pattern /\ r.limit \in Limit
                      /\ r = [pattern |-> r.pattern, limit |-> r.limit]
  BY DEF Rule
<1> QED BY <1>1, <1>2, <1>3, LenProperties DEF Engine

LEMMA UnlimitedIsLimit == Unlimited \in Limit
BY DEF Unlimited, Limit

\* Arguments give a limit.
LEMMA ParsedIsLimit ==
    ASSUME NEW args \in Args
    PROVE  Parsed(args) \in Limit
<1> DEFINE n == Len(args)
           Places(key) == {i \in 1..n : args[i].key = key}
           LastOf(key) == LET i == SelectLastInSeq(args, LAMBDA part : part.key = key)
                          IN  IF i = 0 THEN NoLimit ELSE args[i].speed
           OwnOrBoth(key) == IF LastOf(key) # NoLimit THEN LastOf(key) ELSE LastOf("both")
<1>1. /\ n \in Nat
      /\ \A i \in 1..n : args[i] \in [key : {"down", "up", "both"}, speed : Speed]
                                    \cup [key : {"delay"}]
  BY ArgsAssumption, LenProperties, ElementOfSeq
<1>2. ASSUME NEW key \in {"down", "up", "both"}
      PROVE  LastOf(key) \in Speed \cup {NoLimit}
  <2>1. SelectLastInSeq(args, LAMBDA part : part.key = key)
          = IF Places(key) # {} THEN Max(Places(key)) ELSE 0
    BY DEF SelectLastInSeq
  <2>2. CASE Places(key) = {}
    BY <2>1, <2>2
  <2>3. CASE Places(key) # {}
    <3>1. Places(key) \in SUBSET (1..n)
      OBVIOUS
    <3> DEFINE i == Max(Places(key))
    <3>2. i \in Places(key)
      <4> HIDE DEF n
      <4> QED BY <1>1, <2>3, <3>1, MaxFacts
    <3>3. i # 0 /\ args[i].key = key
      BY <1>1, <3>2
    <3>4. args[i].speed \in Speed
      BY <1>1, <3>2, <3>3
    <3> QED BY <2>1, <2>3, <3>3, <3>4
  <2> QED BY <2>2, <2>3
<1>3. Parsed(args) = [down |-> OwnOrBoth("down"), up |-> OwnOrBoth("up")]
  BY DEF Parsed
<1> HIDE DEF LastOf
<1> QED BY <1>2, <1>3 DEF Limit

\* The first rule for a host is the first that covers it.
LEMMA FirstMatchFacts ==
    ASSUME NEW e \in Engine, NEW h
    PROVE  \/ /\ FirstMatch(e, h) = 0
              /\ \A i \in 1..Len(e.rules) : h \notin Covers[e.rules[i].pattern]
           \/ /\ FirstMatch(e, h) \in 1..Len(e.rules)
              /\ h \in Covers[e.rules[FirstMatch(e, h)].pattern]
              /\ \A i \in 1..Len(e.rules) :
                   i < FirstMatch(e, h) => h \notin Covers[e.rules[i].pattern]
<1> DEFINE n == Len(e.rules)
           hits == {i \in 1..n : h \in Covers[e.rules[i].pattern]}
<1>1. n \in Nat
  BY EngineShape
<1>2. FirstMatch(e, h) = IF hits # {} THEN Min(hits) ELSE 0
  BY DEF FirstMatch, SelectInSeq
<1>3. CASE hits = {}
  BY <1>2, <1>3
<1>4. CASE hits # {}
  <2>1. hits \in SUBSET Nat
    BY <1>1
  <2>2. Min(hits) \in hits /\ \A y \in hits : Min(hits) <= y
    <3> HIDE DEF hits
    <3> QED BY <1>4, <2>1, MinFacts
  <2>3. \A i \in 1..n : i < Min(hits) => i \notin hits
    <3> SUFFICES ASSUME NEW i \in hits, i < Min(hits) PROVE FALSE
      OBVIOUS
    <3> DEFINE m == Min(hits)
    <3>1. m \in hits /\ m <= i /\ i < m
      BY <2>2
    <3> HIDE DEF hits, m
    <3> QED BY <2>1, <3>1
  <2> QED BY <1>2, <1>4, <2>2, <2>3
<1> QED BY <1>3, <1>4

\* Whichever rule covers a host and none before it is the first.
LEMMA FirstMatchIs ==
    ASSUME NEW e \in Engine, NEW h, NEW i \in 1..Len(e.rules),
           h \in Covers[e.rules[i].pattern],
           \A j \in 1..Len(e.rules) : j < i => h \notin Covers[e.rules[j].pattern]
    PROVE  FirstMatch(e, h) = i
<1>1. Len(e.rules) \in Nat
  BY EngineShape
<1>2. FirstMatch(e, h) \in 1..Len(e.rules)
  BY FirstMatchFacts
<1>3. h \in Covers[e.rules[FirstMatch(e, h)].pattern] /\ ~ (i < FirstMatch(e, h))
  BY <1>2, FirstMatchFacts
<1>4. ~ (FirstMatch(e, h) < i)
  BY <1>2, <1>3
<1> QED BY <1>1, <1>2, <1>3, <1>4

LEMMA NoFirstMatch ==
    ASSUME NEW e \in Engine, NEW h,
           \A j \in 1..Len(e.rules) : h \notin Covers[e.rules[j].pattern]
    PROVE  FirstMatch(e, h) = 0
BY FirstMatchFacts

\* What the rules give is a limit.
LEMMA EffectiveIsLimit ==
    ASSUME NEW e \in Engine, NEW h \in Host
    PROVE  Effective(e, h) \in Limit
<1>1. FirstMatch(e, h) # 0 => e.rules[FirstMatch(e, h)].limit \in Limit
  BY FirstMatchFacts, EngineShape
<1> DEFINE k == e.byCategory[CategoryOf[h]]
<1>2. k \in {<<>>} \cup {<<l>> : l \in Limit}
  BY EngineShape, HostOfAssumption
<1>3. k # <<>> => k[1] \in Limit
  BY <1>2
<1> QED BY <1>1, <1>3, UnlimitedIsLimit DEF Effective

\* The rule of a pattern, if there is one.
LEMMA RuleAtFacts ==
    ASSUME NEW e \in Engine, NEW p
    PROVE  \/ RuleAt(e, p) = 0 /\ \A i \in 1..Len(e.rules) : e.rules[i].pattern # p
           \/ RuleAt(e, p) \in 1..Len(e.rules) /\ e.rules[RuleAt(e, p)].pattern = p
<1> DEFINE n == Len(e.rules)
           places == {i \in 1..n : e.rules[i].pattern = p}
<1>1. n \in Nat
  BY EngineShape
<1>2. RuleAt(e, p) = IF places # {} THEN Min(places) ELSE 0
  BY DEF RuleAt, SelectInSeq
<1>3. CASE places = {}
  BY <1>2, <1>3
<1>4. CASE places # {}
  <2>1. places \in SUBSET Nat
    BY <1>1
  <2>2. Min(places) \in places
    <3> HIDE DEF places
    <3> QED BY <1>4, <2>1, MinFacts
  <2> QED BY <1>2, <1>4, <2>2
<1> QED BY <1>3, <1>4

\* What add_rule makes of the list: the rule at the place of the one with its
\* pattern, or behind the others.
Replaced(old, new, at, rule) ==
    /\ at \in 1..Len(old) /\ Len(new) = Len(old)
    /\ \A i \in 1..Len(old) : /\ new[i].pattern = old[i].pattern
                              /\ i # at => new[i] = old[i]
    /\ new[at].pattern = rule.pattern
Extended(old, new, rule) ==
    /\ new = Append(old, rule) /\ Len(new) = Len(old) + 1
    /\ \A i \in 1..Len(old) : new[i] = old[i] /\ old[i].pattern # rule.pattern
    /\ new[Len(old) + 1] = rule

LEMMA AddRuleFacts ==
    ASSUME NEW e, Sound(e), NEW p \in Pattern, NEW l \in Limit
    PROVE  /\ Sound(AddRule(e, p, l)) /\ AddRule(e, p, l).byCategory = e.byCategory
           /\ \/ Replaced(e.rules, AddRule(e, p, l).rules, RuleAt(e, p),
                           [pattern |-> p, limit |-> l])
              \/ Extended(e.rules, AddRule(e, p, l).rules, [pattern |-> p, limit |-> l])
<1> DEFINE n == Len(e.rules)
           rule == [pattern |-> p, limit |-> l]
           at == RuleAt(e, p)
           new == AddRule(e, p, l)
<1>1. /\ e \in Engine /\ n \in Nat /\ e.rules \in Seq(Rule) /\ DOMAIN e.rules = 1..n
      /\ \A i, j \in 1..n : e.rules[i].pattern = e.rules[j].pattern => i = j
  BY EngineShape DEF Sound, Distinct
<1>2. rule \in Rule /\ rule.pattern = p
  BY DEF Rule
<1>3. CASE at \in 1..n /\ e.rules[at].pattern = p
  <2> DEFINE rules == [e.rules EXCEPT ![at] = rule]
  <2>1. /\ rules \in Seq(Rule) /\ Len(rules) = n
        /\ \A i \in 1..n : rules[i] = IF i = at THEN rule ELSE e.rules[i]
    BY <1>1, <1>2, <1>3, ExceptSeq
  <2>2. new = [e EXCEPT !.rules = rules]
    BY <1>1, <1>3 DEF AddRule
  <2> HIDE DEF rules, new, at, rule, n
  <2>3. new \in Engine /\ new.rules = rules /\ new.byCategory = e.byCategory
    BY <1>1, <2>1, <2>2 DEF Engine
  <2>4. \A i \in 1..n : rules[i].pattern = e.rules[i].pattern
    BY <1>2, <1>3, <2>1
  <2>5. DOMAIN rules = 1..n
    BY <2>1, LenProperties
  <2>6. Distinct(rules)
    BY <1>1, <2>4, <2>5 DEF Distinct
  <2>7. rules[at].pattern = p
    BY <1>3, <2>4
  <2>8. Replaced(e.rules, rules, at, rule)
    BY <1>2, <1>3, <2>1, <2>4, <2>7 DEF Replaced, n
  <2> QED BY <2>3, <2>6, <2>8 DEF Sound, new, at, rule
<1>4. CASE at = 0 /\ \A i \in 1..n : e.rules[i].pattern # p
  <2> DEFINE rules == Append(e.rules, rule)
  <2>1. /\ rules \in Seq(Rule) /\ Len(rules) = n + 1
        /\ \A i \in 1..n : rules[i] = e.rules[i]
        /\ rules[n + 1] = rule
    BY <1>1, <1>2, AppendProperties
  <2>2. new = [e EXCEPT !.rules = rules]
    BY <1>1, <1>4 DEF AddRule
  <2> HIDE DEF rules, new, at, rule, n
  <2>3. new \in Engine /\ new.rules = rules /\ new.byCategory = e.byCategory
    BY <1>1, <2>1, <2>2 DEF Engine
  <2>4. DOMAIN rules = 1..(n + 1)
    BY <2>1, LenProperties
  <2>5. \A i \in 1..(n + 1) : i \in 1..n \/ i = n + 1
    BY <1>1
  <2>6. Distinct(rules)
    <3>1. \A i \in 1..n : rules[i].pattern # rules[n + 1].pattern
      BY <1>2, <1>4, <2>1
    <3>2. \A i, j \in 1..n : rules[i].pattern = rules[j].pattern => i = j
      BY <1>1, <2>1
    <3> QED BY <2>4, <2>5, <3>1, <3>2 DEF Distinct
  <2>7. Extended(e.rules, rules, rule)
    BY <1>2, <1>4, <2>1 DEF Extended, n, rules
  <2> QED BY <2>3, <2>6, <2>7 DEF Sound, new, rule
<1> QED BY <1>1, <1>3, <1>4, RuleAtFacts

\* Setting a rule changes what a host is given only where it is its first.
LEMMA AddRuleGives ==
    ASSUME NEW e, Sound(e), NEW p \in Pattern, NEW l \in Limit, NEW h
    PROVE  LET new == AddRule(e, p, l)
           IN  \/ FirstMatch(new, h) # 0 /\ new.rules[FirstMatch(new, h)].pattern = p
               \/ Effective(new, h) = Effective(e, h)
<1> DEFINE n == Len(e.rules)
           new == AddRule(e, p, l)
           rule == [pattern |-> p, limit |-> l]
           i == FirstMatch(e, h)
<1>1. /\ e \in Engine /\ new \in Engine /\ new.byCategory = e.byCategory /\ n \in Nat
  BY AddRuleFacts, EngineShape DEF Sound
<1>2. ASSUME Replaced(e.rules, new.rules, RuleAt(e, p), rule)
      PROVE  \/ FirstMatch(new, h) # 0 /\ new.rules[FirstMatch(new, h)].pattern = p
             \/ Effective(new, h) = Effective(e, h)
  <2>0. /\ RuleAt(e, p) \in 1..n /\ Len(new.rules) = n
        /\ \A j \in 1..n : /\ new.rules[j].pattern = e.rules[j].pattern
                           /\ j # RuleAt(e, p) => new.rules[j] = e.rules[j]
        /\ new.rules[RuleAt(e, p)].pattern = p
    BY <1>2 DEF Replaced
  <2> HIDE DEF new, n
  <2>1. CASE i = 0
    <3>1. \A j \in 1..n : h \notin Covers[new.rules[j].pattern]
      BY <1>1, <2>0, <2>1, FirstMatchFacts DEF n
    <3>2. FirstMatch(new, h) = 0
      BY <1>1, <2>0, <3>1, NoFirstMatch
    <3> QED BY <1>1, <2>1, <3>2 DEF Effective
  <2>2. CASE i \in 1..n
    <3>1. /\ h \in Covers[new.rules[i].pattern]
          /\ \A j \in 1..n : j < i => h \notin Covers[new.rules[j].pattern]
      BY <1>1, <2>0, <2>2, FirstMatchFacts DEF n
    <3>2. FirstMatch(new, h) = i
      BY <1>1, <2>0, <2>2, <3>1, FirstMatchIs
    <3>3. i # 0
      BY <1>1, <2>2
    <3>4. CASE i = RuleAt(e, p)
      BY <2>0, <3>2, <3>3, <3>4
    <3>5. CASE i # RuleAt(e, p)
      <4>1. new.rules[i] = e.rules[i]
        BY <2>0, <2>2, <3>5
      <4>2. Effective(new, h) = Effective(e, h)
        BY <3>2, <3>3, <4>1 DEF Effective
      <4> QED BY <4>2
    <3> QED BY <3>4, <3>5
  <2> QED BY <1>1, <2>1, <2>2, FirstMatchFacts DEF n
<1>3. ASSUME Extended(e.rules, new.rules, rule)
      PROVE  \/ FirstMatch(new, h) # 0 /\ new.rules[FirstMatch(new, h)].pattern = p
             \/ Effective(new, h) = Effective(e, h)
  <2>3. /\ Len(new.rules) = n + 1 /\ \A j \in 1..n : new.rules[j] = e.rules[j]
        /\ new.rules[n + 1].pattern = p
    BY <1>3 DEF Extended
  <2> HIDE DEF new, n
  <2>0. /\ n + 1 \in 1..(n + 1) /\ n + 1 # 0
        /\ \A j \in 1..(n + 1) : j \in 1..n \/ j = n + 1
        /\ \A j \in 1..n : j \in 1..(n + 1)
    BY <1>1
  <2>1. CASE i = 0
    <3>1. \A j \in 1..n : h \notin Covers[new.rules[j].pattern]
      BY <1>1, <2>3, <2>1, FirstMatchFacts DEF n
    <3>2. CASE FirstMatch(new, h) = 0
      <4>1. Effective(new, h) = Effective(e, h)
        BY <1>1, <2>1, <3>2 DEF Effective
      <4> QED BY <4>1
    <3>3. CASE FirstMatch(new, h) \in 1..(n + 1) /\ FirstMatch(new, h) \notin 1..n
      BY <2>3, <2>0, <3>3
    <3>4. FirstMatch(new, h) \notin 1..n
      BY <1>1, <2>3, <3>1, FirstMatchFacts
    <3> QED BY <1>1, <2>3, <3>2, <3>3, <3>4, FirstMatchFacts
  <2>2. CASE i \in 1..n
    <3>1. h \in Covers[new.rules[i].pattern]
      BY <1>1, <2>3, <2>2, FirstMatchFacts DEF n
    <3>2. \A j \in 1..(n + 1) : j < i => h \notin Covers[new.rules[j].pattern]
      <4>1. \A j \in 1..(n + 1) : j < i => j \in 1..n
        BY <1>1, <2>2
      <4>2. \A j \in 1..n : j < i => h \notin Covers[e.rules[j].pattern]
        BY <1>1, <2>2, FirstMatchFacts DEF n
      <4> QED BY <2>3, <4>1, <4>2
    <3>3. FirstMatch(new, h) = i
      BY <1>1, <2>3, <2>0, <2>2, <3>1, <3>2, FirstMatchIs
    <3>4. i # 0 /\ new.rules[i] = e.rules[i]
      BY <1>1, <2>3, <2>2
    <3>5. Effective(new, h) = Effective(e, h)
      BY <3>3, <3>4 DEF Effective
    <3> QED BY <3>5
  <2> QED BY <1>1, <2>1, <2>2, FirstMatchFacts DEF n
<1> QED BY <1>2, <1>3, AddRuleFacts

\* remove_rule takes the rule out and moves the later ones up.
Shortened(old, new, at) ==
    /\ at \in 1..Len(old) /\ Len(new) = Len(old) - 1
    /\ \A j \in 1..(Len(old) - 1) : new[j] = IF j < at THEN old[j] ELSE old[j + 1]

LEMMA RemoveRuleFacts ==
    ASSUME NEW e, Sound(e), NEW p, RuleAt(e, p) # 0
    PROVE  /\ Sound(RemoveRule(e, p)) /\ RemoveRule(e, p).byCategory = e.byCategory
           /\ Shortened(e.rules, RemoveRule(e, p).rules, RuleAt(e, p))
<1> DEFINE n == Len(e.rules)
           at == RuleAt(e, p)
           left == RemoveAt(e.rules, at)
           new == RemoveRule(e, p)
<1>1. /\ e \in Engine /\ n \in Nat /\ e.rules \in Seq(Rule) /\ DOMAIN e.rules = 1..n
      /\ \A i, j \in 1..n : e.rules[i].pattern = e.rules[j].pattern => i = j
  BY EngineShape DEF Sound, Distinct
<1>2. at \in 1..n /\ e.rules[at].pattern = p
  BY <1>1, RuleAtFacts
<1>3. RemoveFirstMatch(e.rules, LAMBDA r : r.pattern = p) = left
  <2>1. \E i \in 1..n : e.rules[i].pattern = p
    BY <1>2
  <2> QED BY <2>1 DEF RemoveFirstMatch, RuleAt
<1>4. new = [e EXCEPT !.rules = left]
  BY <1>3 DEF RemoveRule
<1> HIDE DEF at, new
<1>5. /\ left \in Seq(Rule) /\ Len(left) = n - 1
      /\ \A j \in 1..(n - 1) : left[j] = IF j < at THEN e.rules[j] ELSE e.rules[j + 1]
  <2>1. e.rules \in Seq(Rule) /\ at \in 1..Len(e.rules)
    BY <1>1, <1>2
  <2> QED BY <2>1, RemoveAtFacts, ZenonT(40)
<1> HIDE DEF left, n
<1>6. new \in Engine /\ new.rules = left /\ new.byCategory = e.byCategory
  BY <1>1, <1>4, <1>5 DEF Engine
<1>7. Distinct(left)
  <2>1. DOMAIN left = 1..(n - 1)
    BY <1>5, LenProperties
  <2> DEFINE from(j) == IF j < at THEN j ELSE j + 1
  <2>2. \A j \in 1..(n - 1) : from(j) \in 1..n /\ left[j] = e.rules[from(j)]
    BY <1>1, <1>2, <1>5
  <2>3. \A j, k \in 1..(n - 1) : from(j) = from(k) => j = k
    BY <1>1, <1>2
  <2> HIDE DEF from
  <2>4. ASSUME NEW j \in 1..(n - 1), NEW k \in 1..(n - 1), left[j].pattern = left[k].pattern
        PROVE  j = k
    <3>1. e.rules[from(j)].pattern = e.rules[from(k)].pattern
      BY <2>2, <2>4
    <3> QED BY <1>1, <2>2, <2>3, <3>1
  <2> QED BY <2>1, <2>4 DEF Distinct
<1>8. Shortened(e.rules, left, at)
  BY <1>2, <1>5 DEF Shortened, n
<1> QED BY <1>6, <1>7, <1>8 DEF Sound, new, at

\* Removing a rule changes nothing for the hosts its pattern does not cover.
LEMMA RemoveRuleGives ==
    ASSUME NEW e, Sound(e), NEW p, RuleAt(e, p) # 0, NEW h, h \notin Covers[p]
    PROVE  Effective(RemoveRule(e, p), h) = Effective(e, h)
<1> DEFINE n == Len(e.rules)
           at == RuleAt(e, p)
           new == RemoveRule(e, p)
           i == FirstMatch(e, h)
<1>1. /\ e \in Engine /\ new \in Engine /\ new.byCategory = e.byCategory /\ n \in Nat
  BY RemoveRuleFacts, EngineShape DEF Sound
<1>2. /\ at \in 1..n /\ Len(new.rules) = n - 1
      /\ \A j \in 1..(n - 1) : new.rules[j] = IF j < at THEN e.rules[j] ELSE e.rules[j + 1]
  BY RemoveRuleFacts DEF Shortened
<1>3. e.rules[at].pattern = p
  BY <1>1, RuleAtFacts
<1>4. \/ /\ i = 0
         /\ \A j \in 1..n : h \notin Covers[e.rules[j].pattern]
      \/ /\ i \in 1..n /\ h \in Covers[e.rules[i].pattern]
         /\ \A j \in 1..n : j < i => h \notin Covers[e.rules[j].pattern]
  BY <1>1, FirstMatchFacts
<1> HIDE DEF new, at, n, i
<1>5. CASE i = 0 /\ \A j \in 1..n : h \notin Covers[e.rules[j].pattern]
  <2>1. \A j \in 1..(n - 1) : j \in 1..n /\ j + 1 \in 1..n
    BY <1>1
  <2>2. \A j \in 1..(n - 1) : h \notin Covers[new.rules[j].pattern]
    BY <1>2, <1>5, <2>1
  <2>3. FirstMatch(new, h) = 0
    BY <1>1, <1>2, <2>2, NoFirstMatch
  <2> QED BY <1>1, <1>5, <2>3 DEF Effective, i, new
<1>6. CASE /\ i \in 1..n /\ h \in Covers[e.rules[i].pattern]
           /\ \A j \in 1..n : j < i => h \notin Covers[e.rules[j].pattern]
  <2>1. i # at
    BY <1>3, <1>6
  <2>2. CASE i < at
    <3>1. i \in 1..(n - 1) /\ new.rules[i] = e.rules[i]
      BY <1>1, <1>2, <1>6, <2>2
    <3>2. \A j \in 1..(n - 1) : j < i => j \in 1..n /\ new.rules[j] = e.rules[j]
      BY <1>1, <1>2, <1>6, <2>2
    <3>3. /\ h \in Covers[new.rules[i].pattern]
          /\ \A j \in 1..(n - 1) : j < i => h \notin Covers[new.rules[j].pattern]
      BY <1>6, <3>1, <3>2
    <3>4. FirstMatch(new, h) = i
      BY <1>1, <1>2, <3>1, <3>3, FirstMatchIs
    <3>5. i # 0
      BY <1>6
    <3> QED BY <3>1, <3>4, <3>5 DEF Effective, i, new
  <2>3. CASE i > at
    <3> DEFINE k == i - 1
    <3>1. k \in 1..(n - 1) /\ ~ (k < at) /\ k + 1 = i /\ k # 0 /\ i # 0
      BY <1>1, <1>2, <1>6, <2>3
    <3>2. new.rules[k] = e.rules[i]
      BY <1>2, <3>1
    <3>3. \A j \in 1..(n - 1) : j < k => h \notin Covers[new.rules[j].pattern]
      <4>1. \A j \in 1..(n - 1) :
              j < k => j \in 1..n /\ j + 1 \in 1..n /\ j < i /\ j + 1 < i
        BY <1>1, <1>6, <3>1
      <4> QED BY <1>2, <1>6, <4>1
    <3>4. FirstMatch(new, h) = k
      BY <1>1, <1>2, <1>6, <3>1, <3>2, <3>3, FirstMatchIs
    <3> HIDE DEF k
    <3> QED BY <3>1, <3>2, <3>4 DEF Effective, i, new
  <2> QED BY <1>2, <1>6, <2>1, <2>2, <2>3
<1> QED BY <1>4, <1>5, <1>6

\* What a category is given concerns its hosts that no rule covers.
LEMMA CategoryRuleFacts ==
    ASSUME NEW e, Sound(e), NEW k \in Category, NEW entry \in {<<>>} \cup {<<l>> : l \in Limit},
           NEW new, new = [e EXCEPT !.byCategory[k] = entry]
    PROVE  /\ Sound(new)
           /\ \A h \in Host :
                /\ FirstMatch(new, h) = FirstMatch(e, h)
                /\ CategoryOf[h] = k /\ FirstMatch(new, h) = 0 =>
                     Effective(new, h) = IF entry = <<>> THEN Unlimited ELSE entry[1]
                /\ ~ (CategoryOf[h] = k /\ FirstMatch(new, h) = 0) =>
                     Effective(new, h) = Effective(e, h)
<1>1. e \in Engine /\ Distinct(e.rules)
  BY DEF Sound
<1>2. /\ new \in Engine /\ new.rules = e.rules
      /\ new.byCategory = [e.byCategory EXCEPT ![k] = entry]
  BY <1>1 DEF Engine
<1>3. e.byCategory \in [Category -> {<<>>} \cup {<<l>> : l \in Limit}]
  BY <1>1, EngineShape
<1>4. ASSUME NEW h \in Host
      PROVE  FirstMatch(new, h) = FirstMatch(e, h)
  BY <1>2 DEF FirstMatch
<1>5. ASSUME NEW h \in Host, CategoryOf[h] = k, FirstMatch(new, h) = 0
      PROVE  Effective(new, h) = IF entry = <<>> THEN Unlimited ELSE entry[1]
  <2>1. new.byCategory[CategoryOf[h]] = entry
    BY <1>2, <1>3, <1>5
  <2> QED BY <1>5, <2>1 DEF Effective
<1>6. ASSUME NEW h \in Host, ~ (CategoryOf[h] = k /\ FirstMatch(new, h) = 0)
      PROVE  Effective(new, h) = Effective(e, h)
  <2>1. CASE FirstMatch(new, h) # 0
    BY <1>2, <1>4, <2>1 DEF Effective
  <2>2. CASE CategoryOf[h] # k
    <3>1. CategoryOf[h] \in Category
      BY HostOfAssumption
    <3>2. new.byCategory[CategoryOf[h]] = e.byCategory[CategoryOf[h]]
      BY <1>2, <1>3, <2>2, <3>1
    <3> QED BY <1>2, <1>4, <3>2 DEF Effective
  <2> QED BY <1>6, <2>1, <2>2
<1>7. Sound(new)
  BY <1>1, <1>2 DEF Sound
<1> QED BY <1>4, <1>5, <1>6, <1>7

\* Without rules nothing is limited.
LEMMA NewEngineFacts ==
    /\ Sound(NewEngine)
    /\ \A h \in Host : Effective(NewEngine, h) = Unlimited
<1>1. NewEngine \in Engine /\ NewEngine.rules = <<>> /\ Len(<<>>) = 0 /\ DOMAIN <<>> = {}
  BY EmptySeq DEF NewEngine, Engine
<1>2. Sound(NewEngine)
  BY <1>1 DEF Sound, Distinct
<1>3. ASSUME NEW h \in Host
      PROVE  Effective(NewEngine, h) = Unlimited
  <2>1. FirstMatch(NewEngine, h) = 0
    BY <1>1, NoFirstMatch
  <2>2. NewEngine.byCategory[CategoryOf[h]] = <<>>
    BY HostOfAssumption DEF NewEngine
  <2> QED BY <2>1, <2>2 DEF Effective
<1> QED BY <1>2, <1>3

----------------------------------------------------------------------------
(* The file *)

LEMMA LineShape ==
    ASSUME NEW line \in Line
    PROVE  \/ line.about = "host" /\ line.pattern \in Pattern /\ line.limit \in Limit
           \/ line.about = "category" /\ line.category \in Category /\ line.limit \in Limit
BY DEF Line

\* A line of the file is one of the operations.
LEMMA LoadLineSound ==
    ASSUME NEW e, Sound(e), NEW line \in Line
    PROVE  Sound(LoadLine(e, line))
<1>1. CASE line.about = "host" /\ line.pattern \in Pattern /\ line.limit \in Limit
  <2>1. LoadLine(e, line) = AddRule(e, line.pattern, line.limit)
    BY <1>1 DEF LoadLine
  <2>2. Sound(AddRule(e, line.pattern, line.limit))
    BY <1>1, AddRuleFacts
  <2> QED BY <2>1, <2>2, Zenon
<1>2. CASE line.about = "category" /\ line.category \in Category /\ line.limit \in Limit
  <2>1. LoadLine(e, line) = AddCategoryRule(e, line.category, line.limit)
    BY <1>2 DEF LoadLine
  <2>2. Sound(AddCategoryRule(e, line.category, line.limit))
    BY <1>2, CategoryRuleFacts DEF AddCategoryRule
  <2> QED BY <2>1, <2>2, Zenon
<1> QED BY <1>1, <1>2, LineShape

SoundEngines == {e \in Engine : Sound(e)}

\* The file is read line by line.
LEMMA LoadIterates ==
    ASSUME NEW lines \in Seq(Line)
    PROVE  \E after \in [0..Len(lines) -> SoundEngines] :
              /\ after[0] = NewEngine
              /\ \A k \in Nat : k < Len(lines) =>
                   after[k + 1] = LoadLine(after[k], lines[k + 1])
              /\ Load(lines) = after[Len(lines)]
<1> DEFINE n == Len(lines)
           next == [x \in (1..n) \X SoundEngines |-> LoadLine(x[2], lines[x[1]])]
           Iterates(g) == g = [s \in SUBSET (1..n) |->
               IF s = {} THEN NewEngine ELSE LoadLine(g[s \ {Max(s)}], lines[Max(s)])]
           iter == CHOOSE g : Iterates(g)
<1>1. n \in Nat /\ DOMAIN lines = 1..n /\ \A i \in 1..n : lines[i] \in Line
  BY LenProperties, ElementOfSeq
<1>2. NewEngine \in SoundEngines
  BY NewEngineFacts DEF SoundEngines, Sound
<1>3. \A e \in SoundEngines, i \in 1..n : LoadLine(e, lines[i]) \in SoundEngines
  BY <1>1, LoadLineSound DEF SoundEngines, Sound
<1>4. next \in [(1..n) \X SoundEngines -> SoundEngines]
  BY <1>3
<1>5. Load(lines) = iter[1..n]
  BY <1>1 DEF Load, FoldLeft, MapThenFoldSet
<1>6. \E g : Iterates(g)
  <2>0. PICK g : FoldsBy(g, n, NewEngine, next, SoundEngines)
    <3> HIDE DEF next, n
    <3> QED BY <1>1, <1>2, <1>4, FoldExists
  <2>1. /\ g \in [SUBSET (1..n) -> SoundEngines]
        /\ \A s \in SUBSET (1..n) :
             g[s] = IF s = {} THEN NewEngine ELSE next[<<Max(s), g[s \ {Max(s)}]>>]
    <3> HIDE DEF next, n
    <3> QED BY <2>0 DEF FoldsBy
  <2>2. ASSUME NEW s \in SUBSET (1..n), s # {}
        PROVE  g[s] = LoadLine(g[s \ {Max(s)}], lines[Max(s)])
    <3>1. Max(s) \in 1..n
      <4> HIDE DEF n
      <4> QED BY <1>1, <2>2, MaxFacts
    <3>2. <<Max(s), g[s \ {Max(s)}]>> \in (1..n) \X SoundEngines
      BY <2>1, <3>1
    <3>3. next[<<Max(s), g[s \ {Max(s)}]>>] = LoadLine(g[s \ {Max(s)}], lines[Max(s)])
      BY <3>2
    <3> QED BY <2>1, <2>2, <3>3
  <2>3. g = [s \in SUBSET (1..n) |-> g[s]]
    BY <2>1
  <2> QED BY <2>1, <2>2, <2>3
<1>7. Iterates(iter)
  BY <1>6
<1> HIDE DEF iter
<1>9. ASSUME NEW i \in 1..n, NEW e \in SoundEngines
      PROVE  next[<<i, e>>] = LoadLine(e, lines[i])
  BY <1>9
<1>10. StepsBy(iter, n, NewEngine, next, SoundEngines)
  <2>1. iter[{}] = NewEngine
    BY <1>7
  <2>2. ASSUME NEW s \in SUBSET (1..n), s # {}, iter[s \ {Max(s)}] \in SoundEngines
        PROVE  iter[s] = next[<<Max(s), iter[s \ {Max(s)}]>>]
    <3>1. Max(s) \in 1..n
      <4> HIDE DEF n
      <4> QED BY <1>1, <2>2, MaxFacts
    <3> QED BY <1>7, <1>9, <2>2, <3>1
  <2> HIDE DEF next, n
  <2> QED BY <2>1, <2>2 DEF StepsBy
<1> HIDE DEF next, n
<1>11. PICK after : Passes(after, iter, n, NewEngine, next, SoundEngines)
  BY <1>1, <1>2, <1>4, <1>10, FoldIsIterated
<1>12. ASSUME NEW k \in Nat, k < n
       PROVE  after[k + 1] = LoadLine(after[k], lines[k + 1])
  <2>1. k \in 0..n /\ k + 1 \in 1..n
    BY <1>1, <1>12
  <2>2. after[k] \in SoundEngines /\ after[k + 1] = next[<<k + 1, after[k]>>]
    BY <1>11, <1>12, <2>1 DEF Passes
  <2> QED BY <1>9, <2>1, <2>2
<1>13. /\ after \in [0..n -> SoundEngines]
       /\ after[0] = NewEngine /\ Load(lines) = after[n]
  BY <1>5, <1>11 DEF Passes
<1> QED BY <1>12, <1>13 DEF n

LEMMA LoadSound ==
    ASSUME NEW lines \in Seq(Line)
    PROVE  Sound(Load(lines))
<1>1. Len(lines) \in Nat
  BY LenProperties
<1>2. Load(lines) \in SoundEngines
  BY <1>1, LoadIterates
<1> QED BY <1>2 DEF SoundEngines

----------------------------------------------------------------------------
(* What is saved is what is loaded again. *)

RuledIn(e) == {k \in Category : e.byCategory[k] # <<>>}
ListedIn(e) == SetToSeq(RuledIn(e))

LEMMA RuledFacts ==
    ASSUME NEW e \in Engine
    PROVE  /\ ListedIn(e) \in Seq(Category) /\ Len(ListedIn(e)) \in Nat
           /\ \A i \in 1..Len(ListedIn(e)) :
                /\ ListedIn(e)[i] \in Category
                /\ e.byCategory[ListedIn(e)[i]][1] \in Limit
                /\ e.byCategory[ListedIn(e)[i]] = <<e.byCategory[ListedIn(e)[i]][1]>>
           /\ \A k \in Category : e.byCategory[k] # <<>> =>
                \E i \in 1..Len(ListedIn(e)) : ListedIn(e)[i] = k
<1>1. IsFiniteSet(RuledIn(e))
  BY FiniteAssumption, FS_Subset DEF RuledIn
<1>2. /\ ListedIn(e) \in Seq(RuledIn(e)) /\ Len(ListedIn(e)) \in Nat
      /\ \A k \in RuledIn(e) : \E i \in 1..Len(ListedIn(e)) : ListedIn(e)[i] = k
  BY <1>1, SetToSeqFacts DEF ListedIn
<1>3. \A i \in 1..Len(ListedIn(e)) : ListedIn(e)[i] \in RuledIn(e)
  BY <1>2, ElementOfSeq
<1>4. ASSUME NEW k \in RuledIn(e)
      PROVE  /\ k \in Category /\ e.byCategory[k][1] \in Limit
             /\ e.byCategory[k] = <<e.byCategory[k][1]>>
  <2>1. k \in Category /\ e.byCategory[k] \in {<<l>> : l \in Limit}
    BY EngineShape DEF RuledIn
  <2> QED BY <2>1
<1>5. ListedIn(e) \in Seq(Category)
  <2>1. RuledIn(e) \subseteq Category
    BY <1>4
  <2> QED BY <1>2, <2>1, SeqMonotonic
<1>6. \A k \in Category : e.byCategory[k] # <<>> => k \in RuledIn(e)
  BY DEF RuledIn
<1> QED BY <1>2, <1>3, <1>4, <1>5, <1>6

\* A saved file: the host rules in their order, then those of categories.
LEMMA LinesFacts ==
    ASSUME NEW e \in Engine
    PROVE  /\ Lines(e) \in Seq(Line)
           /\ Len(Lines(e)) = Len(e.rules) + Len(ListedIn(e))
           /\ \A i \in 1..Len(e.rules) :
                Lines(e)[i] = RuleLine(e.rules[i].pattern, e.rules[i].limit)
           /\ \A i \in 1..Len(ListedIn(e)) : Lines(e)[Len(e.rules) + i] =
                CategoryLine(ListedIn(e)[i], e.byCategory[ListedIn(e)[i]][1])
<1> DEFINE m == Len(e.rules)
           c == Len(ListedIn(e))
           r == [i \in DOMAIN e.rules |-> RuleLine(e.rules[i].pattern, e.rules[i].limit)]
           o == [i \in DOMAIN ListedIn(e) |->
                    CategoryLine(ListedIn(e)[i], e.byCategory[ListedIn(e)[i]][1])]
<1>1. /\ m \in Nat /\ c \in Nat
      /\ DOMAIN e.rules = 1..m /\ DOMAIN ListedIn(e) = 1..c
  BY EngineShape, RuledFacts, LenProperties
<1>2. /\ r \in Seq(Line) /\ Len(r) = m
      /\ \A i \in 1..m : r[i] = RuleLine(e.rules[i].pattern, e.rules[i].limit)
  <2>1. \A i \in 1..m : RuleLine(e.rules[i].pattern, e.rules[i].limit) \in Line
    BY EngineShape DEF RuleLine, Line
  <2> QED BY <1>1, <2>1
<1>3. /\ o \in Seq(Line) /\ Len(o) = c
      /\ \A i \in 1..c :
           o[i] = CategoryLine(ListedIn(e)[i], e.byCategory[ListedIn(e)[i]][1])
  <2>1. \A i \in 1..c :
          CategoryLine(ListedIn(e)[i], e.byCategory[ListedIn(e)[i]][1]) \in Line
    BY RuledFacts DEF CategoryLine, Line
  <2> QED BY <1>1, <2>1
<1>4. Lines(e) = r \o o
  BY DEF Lines, ListedIn, RuledIn
<1> HIDE DEF r, o, m, c
<1> DEFINE all == r \o o
<1>5. /\ all \in Seq(Line) /\ Len(all) = m + c
      /\ \A i \in 1..(m + c) : all[i] = IF i <= m THEN r[i] ELSE o[i - m]
  <2>1. /\ all \in Seq(Line) /\ Len(all) = Len(r) + Len(o)
        /\ \A i \in 1..(Len(r) + Len(o)) :
             all[i] = IF i <= Len(r) THEN r[i] ELSE o[i - Len(r)]
    BY <1>2, <1>3, ConcatProperties
  <2> QED BY <1>2, <1>3, <2>1
<1> HIDE DEF all
<1>6. \A i \in 1..m : all[i] = r[i]
  <2>1. \A i \in 1..m : i \in 1..(m + c) /\ i <= m
    BY <1>1
  <2> QED BY <1>5, <2>1
<1>7. \A i \in 1..c : all[m + i] = o[i]
  <2>1. \A i \in 1..c : m + i \in 1..(m + c) /\ ~ (m + i <= m) /\ (m + i) - m = i
    BY <1>1
  <2> QED BY <1>5, <2>1
<1> QED BY <1>2, <1>3, <1>4, <1>5, <1>6, <1>7 DEF m, c, all

\* The engine after k host rules, and after k categories more.
WithSomeRules(e, k) ==
    [rules |-> SubSeq(e.rules, 1, k), byCategory |-> [x \in Category |-> <<>>]]
WithSomeCategories(e, k) ==
    [rules |-> e.rules,
     byCategory |-> [x \in Category |->
         IF \E i \in 1..k : ListedIn(e)[i] = x THEN e.byCategory[x] ELSE <<>>]]

LEMMA RuleLineLoaded ==
    ASSUME NEW e, Sound(e), NEW k \in Nat, k < Len(e.rules)
    PROVE  LoadLine(WithSomeRules(e, k),
                    RuleLine(e.rules[k + 1].pattern, e.rules[k + 1].limit))
             = WithSomeRules(e, k + 1)
<1> DEFINE m == Len(e.rules)
           rule == e.rules[k + 1]
           some == SubSeq(e.rules, 1, k)
           more == SubSeq(e.rules, 1, k + 1)
           x == WithSomeRules(e, k)
<1>1. /\ e \in Engine /\ e.rules \in Seq(Rule) /\ m \in Nat /\ DOMAIN e.rules = 1..m
      /\ \A i, j \in 1..m : e.rules[i].pattern = e.rules[j].pattern => i = j
  BY EngineShape DEF Sound, Distinct
<1>2. k + 1 \in 1..m
  BY <1>1
<1>3. rule \in Rule /\ rule = [pattern |-> rule.pattern, limit |-> rule.limit]
  BY <1>1, <1>2, EngineShape
<1>4. /\ some \in Seq(Rule) /\ Len(some) = k /\ DOMAIN some = 1..k
      /\ \A i \in 1..k : some[i] = e.rules[i]
      /\ Append(some, rule) = more
  BY <1>1, BeginningGrows
<1> HIDE DEF some, more
<1>5. \A i \in 1..k : some[i].pattern # rule.pattern
  <2>1. \A i \in 1..k : i \in 1..m /\ i # k + 1
    BY <1>1
  <2> QED BY <1>1, <1>2, <1>4, <2>1
<1>6. x \in Engine /\ x.rules = some /\ x = [rules |-> some, byCategory |-> [c \in Category |-> <<>>]]
  BY <1>4 DEF WithSomeRules, Engine, some
<1> HIDE DEF x, rule
<1>7. RuleAt(x, rule.pattern) = 0
  BY <1>4, <1>5, <1>6, RuleAtFacts
<1>8. LoadLine(x, RuleLine(rule.pattern, rule.limit)) = AddRule(x, rule.pattern, rule.limit)
  BY DEF LoadLine, RuleLine
<1>9. AddRule(x, rule.pattern, rule.limit) = [x EXCEPT !.rules = Append(some, rule)]
  BY <1>3, <1>6, <1>7 DEF AddRule
<1>10. [x EXCEPT !.rules = more] = [rules |-> more, byCategory |-> [c \in Category |-> <<>>]]
  BY <1>6
<1> QED BY <1>4, <1>8, <1>9, <1>10 DEF WithSomeRules, more, x, rule

LEMMA CategoryLineLoaded ==
    ASSUME NEW e \in Engine, NEW k \in Nat, k < Len(ListedIn(e))
    PROVE  LoadLine(WithSomeCategories(e, k),
                    CategoryLine(ListedIn(e)[k + 1], e.byCategory[ListedIn(e)[k + 1]][1]))
             = WithSomeCategories(e, k + 1)
<1> DEFINE cat == ListedIn(e)[k + 1]
           x == WithSomeCategories(e, k)
           Some(n) == [c \in Category |->
               IF \E i \in 1..n : ListedIn(e)[i] = c THEN e.byCategory[c] ELSE <<>>]
<1>1. cat \in Category /\ <<e.byCategory[cat][1]>> = e.byCategory[cat]
  <2>1. k + 1 \in 1..Len(ListedIn(e))
    BY RuledFacts
  <2> HIDE DEF cat
  <2>2. ListedIn(e)[k + 1] \in Category
    BY <2>1, RuledFacts
  <2>3. e.byCategory[ListedIn(e)[k + 1]] = <<e.byCategory[ListedIn(e)[k + 1]][1]>>
    BY <2>1, RuledFacts, Zenon
  <2> QED BY <2>2, <2>3 DEF cat
<1>2. LoadLine(x, CategoryLine(cat, e.byCategory[cat][1]))
        = AddCategoryRule(x, cat, e.byCategory[cat][1])
  BY DEF LoadLine, CategoryLine
<1>3. [Some(k) EXCEPT ![cat] = e.byCategory[cat]] = Some(k + 1)
  <2>1. \A i \in 1..(k + 1) : i \in 1..k \/ i = k + 1
    OBVIOUS
  <2>2. k + 1 \in 1..(k + 1) /\ \A i \in 1..k : i \in 1..(k + 1)
    OBVIOUS
  <2>3. \A c \in Category :
          (\E i \in 1..(k + 1) : ListedIn(e)[i] = c)
             <=> (c = cat \/ \E i \in 1..k : ListedIn(e)[i] = c)
    BY <2>1, <2>2
  <2> QED BY <1>1, <2>3
<1>4. x = [rules |-> e.rules, byCategory |-> Some(k)]
  BY DEF WithSomeCategories
<1>5. WithSomeCategories(e, k + 1) = [rules |-> e.rules, byCategory |-> Some(k + 1)]
  BY DEF WithSomeCategories
<1> HIDE DEF Some, x, cat
<1>6. AddCategoryRule(x, cat, e.byCategory[cat][1]) =
        [rules |-> e.rules, byCategory |-> [Some(k) EXCEPT ![cat] = e.byCategory[cat]]]
  BY <1>1, <1>4 DEF AddCategoryRule
<1> QED BY <1>2, <1>3, <1>5, <1>6 DEF x, cat

\* A restart loads exactly the rules that were saved.
LEMMA LoadOfLines ==
    ASSUME NEW e, Sound(e)
    PROVE  Load(Lines(e)) = e
<1> DEFINE m == Len(e.rules)
           c == Len(ListedIn(e))
           n == Len(Lines(e))
<1>1. e \in Engine /\ m \in Nat /\ c \in Nat /\ n = m + c
  BY EngineShape, RuledFacts, LinesFacts DEF Sound
<1>2. PICK after \in [0..n -> SoundEngines] :
        /\ after[0] = NewEngine
        /\ \A k \in Nat : k < n => after[k + 1] = LoadLine(after[k], Lines(e)[k + 1])
        /\ Load(Lines(e)) = after[n]
  BY <1>1, LinesFacts, LoadIterates
<1>3. after[0] = WithSomeRules(e, 0)
  <2>1. SubSeq(e.rules, 1, 0) = <<>>
    BY SubSeqEmpty
  <2> QED BY <1>2, <2>1 DEF NewEngine, WithSomeRules
<1>4. after[m] = WithSomeRules(e, m)
  <2> DEFINE reached == {k \in 0..m : after[k] = WithSomeRules(e, k)}
  <2>1. 0 \in reached
    BY <1>1, <1>3
  <2>2. ASSUME NEW k \in Nat, k < m, k \in reached
        PROVE  k + 1 \in reached
    <3>1. k + 1 \in 0..m /\ k + 1 \in 1..m /\ k < n
      BY <1>1, <2>2
    <3>2. after[k + 1] = LoadLine(after[k], Lines(e)[k + 1])
      BY <1>2, <3>1
    <3>3. Lines(e)[k + 1] = RuleLine(e.rules[k + 1].pattern, e.rules[k + 1].limit)
      BY <1>1, <3>1, LinesFacts
    <3>4. after[k + 1] = WithSomeRules(e, k + 1)
      BY <2>2, <3>2, <3>3, RuleLineLoaded
    <3> QED BY <3>1, <3>4
  <2>3. \A k \in 0..m : k \in reached
    <3> HIDE DEF reached
    <3> QED BY <1>1, <2>1, <2>2, InductionTo
  <2>4. m \in 0..m
    BY <1>1
  <2> QED BY <2>3, <2>4
<1>5. WithSomeRules(e, m) = WithSomeCategories(e, 0)
  <2>1. SubSeq(e.rules, 1, m) = e.rules
    BY <1>1, EngineShape, SubSeqFull
  <2>2. \A x \in Category : ~ \E i \in 1..0 : ListedIn(e)[i] = x
    OBVIOUS
  <2> QED BY <2>1, <2>2 DEF WithSomeRules, WithSomeCategories
<1>6. after[m + c] = WithSomeCategories(e, c)
  <2> DEFINE reached == {k \in 0..c : after[m + k] = WithSomeCategories(e, k)}
  <2>1. 0 \in reached
    <3>1. m + 0 = m /\ 0 \in 0..c
      BY <1>1
    <3> QED BY <1>4, <1>5, <3>1
  <2>2. ASSUME NEW k \in Nat, k < c, k \in reached
        PROVE  k + 1 \in reached
    <3>1. /\ k + 1 \in 0..c /\ k + 1 \in 1..c /\ m + k \in Nat /\ m + k < n
          /\ (m + k) + 1 = m + (k + 1)
      <4>1. k < c
        BY <2>2
      <4> HIDE DEF m, c, n, reached
      <4> QED BY <1>1, <4>1
    <3>2. after[m + (k + 1)] = LoadLine(after[m + k], Lines(e)[m + (k + 1)])
      BY <1>2, <3>1
    <3>3. Lines(e)[m + (k + 1)]
            = CategoryLine(ListedIn(e)[k + 1], e.byCategory[ListedIn(e)[k + 1]][1])
      BY <1>1, <3>1, LinesFacts
    <3>4. after[m + (k + 1)] = WithSomeCategories(e, k + 1)
      BY <1>1, <2>2, <3>2, <3>3, CategoryLineLoaded
    <3> QED BY <3>1, <3>4
  <2>3. \A k \in 0..c : k \in reached
    <3> HIDE DEF reached
    <3> QED BY <1>1, <2>1, <2>2, InductionTo
  <2>4. c \in 0..c
    BY <1>1
  <2> QED BY <2>3, <2>4
<1>7. WithSomeCategories(e, c) = e
  <2>1. e.byCategory = [x \in Category |->
          IF \E i \in 1..c : ListedIn(e)[i] = x THEN e.byCategory[x] ELSE <<>>]
    BY <1>1, RuledFacts, EngineShape
  <2> QED BY <1>1, <2>1, EngineShape DEF WithSomeCategories
<1> QED BY <1>1, <1>2, <1>6, <1>7

----------------------------------------------------------------------------
(* The connections *)

Live(c) == stage[c] \in {"connecting", "relaying"}

\* Admitted connections have what the rules give them, unless the operator set
\* their limit or the rules changed before their relay began.
FollowRules == \A c \in Conn : Live(c) /\ origin[c] = "rules" => limit[c] = Given(c)

ThrottleInv ==
    /\ TypeOK
    /\ Sound(engine)
    /\ FollowRules
    /\ saved => Load(file) = engine

\* What a change of rules may do to the limits of relays.
Obeyed == \A c \in Running : limit'[c] \in {limit[c], Given(c)'}

LEMMA LoadOfNothing == Load(<<>>) = NewEngine
<1>1. <<>> \in Seq(Line) /\ Len(<<>>) = 0
  BY EmptySeq
<1> QED BY <1>1, LoadIterates

LEMMA ThrottleInvInit == Init => ThrottleInv
<1> SUFFICES ASSUME Init PROVE ThrottleInv
  OBVIOUS
<1>1. Sound(engine) /\ engine \in Engine /\ Load(file) = engine
  BY NewEngineFacts, LoadOfNothing DEF Init, Sound
<1>2. file \in Seq(Line) /\ limit \in [Conn -> Limit]
  BY EmptySeq, UnlimitedIsLimit DEF Init
<1>3. TypeOK
  BY <1>1, <1>2 DEF Init, TypeOK
<1>4. FollowRules
  BY DEF Init, FollowRules, Live
<1> QED BY <1>1, <1>3, <1>4 DEF ThrottleInv

\* A command that reaches every connection its change of rules concerns, with
\* what the rules now give it, leaves all of them with what the rules give.
LEMMA PassOnKeeps ==
    ASSUME ThrottleInv, Sound(engine'), stage' = stage,
           NEW reached \in SUBSET Conn, NEW new, PassOn(reached, new),
           \A c \in reached : new[c] = Given(c)',
           \A c \in Conn \ reached : Given(c)' = Given(c)
    PROVE  /\ limit' \in [Conn -> Limit]
           /\ origin' \in [Conn -> {"rules", "operator", "missed"}]
           /\ FollowRules' /\ Obeyed
<1>1. ASSUME NEW c \in Conn
      PROVE  Given(c)' \in Limit
  <2>1. engine' \in Engine /\ HostOf[c] \in Host
    BY HostOfAssumption DEF Sound
  <2> QED BY <2>1, EffectiveIsLimit DEF Given
<1>2. /\ limit \in [Conn -> Limit]
      /\ origin \in [Conn -> {"rules", "operator", "missed"}]
      /\ \A c \in Conn : Live(c) /\ origin[c] = "rules" => limit[c] = Given(c)
  BY DEF ThrottleInv, TypeOK, FollowRules
<1>3. \A c \in Conn : (c \in Running) <=> (stage[c] = "relaying")
  BY DEF Running
<1>4. /\ limit' = [c \in Conn |-> IF c \in reached \cap Running THEN new[c] ELSE limit[c]]
      /\ origin' = [c \in Conn |->
                       CASE c \in reached \cap Running -> "rules"
                         [] c \notin Running /\ Changed(c) -> "missed"
                         [] OTHER -> origin[c]]
  BY DEF PassOn
<1>5. ASSUME NEW c \in Conn
      PROVE  /\ c \in reached \cap Running => limit'[c] = Given(c)' /\ origin'[c] = "rules"
             /\ c \notin reached \cap Running => limit'[c] = limit[c]
             /\ c \notin reached \cap Running /\ c \notin Running /\ Changed(c)
                  => origin'[c] = "missed"
             /\ c \notin reached \cap Running /\ ~ (c \notin Running /\ Changed(c))
                  => origin'[c] = origin[c]
  <2> HIDE DEF Running, Changed, Given
  <2> QED BY <1>4
<1>6. limit' \in [Conn -> Limit]
  <2>1. \A c \in Conn : limit'[c] \in Limit
    BY <1>1, <1>2, <1>5
  <2> QED BY <1>4, <2>1
<1>7. origin' \in [Conn -> {"rules", "operator", "missed"}]
  <2>1. \A c \in Conn : origin'[c] \in {"rules", "operator", "missed"}
    BY <1>2, <1>5
  <2> QED BY <1>4, <2>1
<1>8. ASSUME NEW c \in Conn, Live(c)', origin'[c] = "rules"
      PROVE  limit'[c] = Given(c)'
  <2>1. Live(c)
    BY <1>8 DEF Live
  <2>2. CASE c \in reached \cap Running
    BY <1>5, <2>2
  <2>3. CASE c \notin reached \cap Running
    <3>1. limit'[c] = limit[c] /\ origin[c] = "rules" /\ ~ (c \notin Running /\ Changed(c))
      BY <1>5, <1>8, <2>3
    <3>2. limit[c] = Given(c)
      BY <1>2, <2>1, <3>1
    <3>3. CASE c \in Running
      BY <2>3, <3>1, <3>2, <3>3
    <3>4. CASE ~ Changed(c)
      BY <2>1, <3>1, <3>2, <3>4 DEF Changed, Live
    <3> QED BY <3>1, <3>3, <3>4
  <2> QED BY <2>2, <2>3
<1>9. FollowRules'
  BY <1>8 DEF FollowRules
<1>10. Obeyed
  <2>1. \A c \in Running : c \in Conn
    BY DEF Running
  <2> QED BY <1>5, <2>1 DEF Obeyed
<1> QED BY <1>6, <1>7, <1>9, <1>10

\* A save writes the rules, or says that it did not.
LEMMA SaveKeeps ==
    ASSUME TypeOK, Save, Sound(engine')
    PROVE  /\ file' \in Seq(Line) /\ saved' \in BOOLEAN
           /\ saved' => Load(file') = engine'
<1>1. engine' \in Engine
  BY DEF Sound
<1>2. Lines(engine') \in Seq(Line)
  BY <1>1, LinesFacts
<1>3. CASE file' = Lines(engine') /\ saved' = TRUE
  BY <1>2, <1>3, LoadOfLines
<1>4. CASE file' = file /\ saved' = FALSE
  BY <1>4 DEF TypeOK
<1>5. CASE /\ \E n \in 0 .. Len(Lines(engine')) - 1 : file' = SubSeq(Lines(engine'), 1, n)
           /\ saved' = FALSE
  <2>1. PICK n \in 0 .. Len(Lines(engine')) - 1 : file' = SubSeq(Lines(engine'), 1, n)
    BY <1>5
  <2>2. n \in Nat /\ n < Len(Lines(engine'))
    BY <1>2, LenProperties
  <2>3. file' \in Seq(Line)
    BY <1>2, <2>1, <2>2, BeginningGrows
  <2> QED BY <1>5, <2>3
<1> QED BY <1>3, <1>4, <1>5 DEF Save

\* A command: it changes the rules, passes the change on and saves.
LEMMA CommandKeeps ==
    ASSUME ThrottleInv, Sound(engine'), Save, stage' = stage,
           NEW reached \in SUBSET Conn, NEW new, PassOn(reached, new),
           \A c \in reached : new[c] = Given(c)',
           \A c \in Conn \ reached : Given(c)' = Given(c)
    PROVE  ThrottleInv' /\ Obeyed
<1>1. /\ file' \in Seq(Line) /\ saved' \in BOOLEAN
      /\ saved' => Load(file') = engine'
  BY SaveKeeps DEF ThrottleInv
<1>2. /\ limit' \in [Conn -> Limit]
      /\ origin' \in [Conn -> {"rules", "operator", "missed"}]
      /\ FollowRules' /\ Obeyed
  BY PassOnKeeps
<1>3. stage' \in [Conn -> {"none", "connecting", "relaying", "over"}]
  BY DEF ThrottleInv, TypeOK
<1>4. TypeOK'
  BY <1>1, <1>2, <1>3 DEF TypeOK, Sound
<1> QED BY <1>1, <1>2, <1>4 DEF ThrottleInv

LEMMA CmdThrottleKeeps ==
    ASSUME ThrottleInv, NEW p \in Pattern, NEW args \in Args, CmdThrottle(p, args)
    PROVE  ThrottleInv' /\ Obeyed
<1> DEFINE reached == {c \in Conn : LET i == FirstMatch(engine', HostOf[c])
                                    IN  i # 0 /\ engine'.rules[i].pattern = p}
<1>1. engine' = AddRule(engine, p, Parsed(args)) /\ PassOn(reached, NewGiven)
      /\ Save /\ stage' = stage
  BY DEF CmdThrottle
<1>2. Parsed(args) \in Limit /\ Sound(engine)
  BY ParsedIsLimit DEF ThrottleInv
<1>3. Sound(engine')
  BY <1>1, <1>2, AddRuleFacts
<1>4. \A c \in reached : NewGiven[c] = Given(c)'
  BY DEF NewGiven
<1>5. \A c \in Conn \ reached : Given(c)' = Given(c)
  <2> SUFFICES ASSUME NEW c \in Conn, c \notin reached PROVE Given(c)' = Given(c)
    OBVIOUS
  <2>1. ~ (FirstMatch(engine', HostOf[c]) # 0
           /\ engine'.rules[FirstMatch(engine', HostOf[c])].pattern = p)
    OBVIOUS
  <2> HIDE DEF reached
  <2>2. Effective(engine', HostOf[c]) = Effective(engine, HostOf[c])
    BY <1>1, <1>2, <2>1, AddRuleGives
  <2> QED BY <2>2 DEF Given
<1>6. reached \in SUBSET Conn
  OBVIOUS
<1> HIDE DEF reached
<1> QED BY <1>1, <1>3, <1>4, <1>5, <1>6, CommandKeeps

LEMMA CmdThrottleOffKeeps ==
    ASSUME ThrottleInv, NEW p \in Pattern, CmdThrottleOff(p)
    PROVE  ThrottleInv' /\ Obeyed
<1> DEFINE reached == {c \in Conn : HostOf[c] \in Covers[p]}
<1>1. engine' = RemoveRule(engine, p) /\ PassOn(reached, NewGiven)
      /\ Save /\ stage' = stage /\ RuleAt(engine, p) # 0
  BY DEF CmdThrottleOff
<1>2. Sound(engine)
  BY DEF ThrottleInv
<1>3. Sound(engine')
  BY <1>1, <1>2, RemoveRuleFacts
<1>4. \A c \in reached : NewGiven[c] = Given(c)'
  BY DEF NewGiven
<1>5. \A c \in Conn \ reached : Given(c)' = Given(c)
  BY <1>1, <1>2, RemoveRuleGives DEF Given
<1>6. reached \in SUBSET Conn
  OBVIOUS
<1> HIDE DEF reached
<1> QED BY <1>1, <1>3, <1>4, <1>5, <1>6, CommandKeeps

\* The two commands for a category give the same limit to all they reach.
LEMMA CategoryKeeps ==
    ASSUME ThrottleInv, NEW k \in Category, NEW l \in Limit,
           NEW entry \in {<<>>} \cup {<<x>> : x \in Limit},
           l = IF entry = <<>> THEN Unlimited ELSE entry[1],
           engine' = [engine EXCEPT !.byCategory[k] = entry],
           PassOn(OfCategory(k), [c \in Conn |-> l]), Save, stage' = stage
    PROVE  ThrottleInv' /\ Obeyed
<1>1. Sound(engine) /\ \A c \in Conn : HostOf[c] \in Host
  BY HostOfAssumption DEF ThrottleInv
<1>2. /\ Sound(engine')
      /\ \A h \in Host :
           /\ CategoryOf[h] = k /\ FirstMatch(engine', h) = 0 => Effective(engine', h) = l
           /\ ~ (CategoryOf[h] = k /\ FirstMatch(engine', h) = 0) =>
                Effective(engine', h) = Effective(engine, h)
  BY <1>1, CategoryRuleFacts
<1>3. OfCategory(k) \in SUBSET Conn
  BY DEF OfCategory
<1>4. \A c \in OfCategory(k) : [x \in Conn |-> l][c] = Given(c)'
  BY <1>1, <1>2 DEF OfCategory, Given
<1>5. \A c \in Conn \ OfCategory(k) : Given(c)' = Given(c)
  BY <1>1, <1>2 DEF OfCategory, Given
<1> QED BY <1>2, <1>3, <1>4, <1>5, CommandKeeps

\* Every step keeps the invariant, and a change of rules obeys the rules.
LEMMA ThrottleInvStep ==
    ASSUME ThrottleInv, [Next]_vars
    PROVE  ThrottleInv' /\ (engine' # engine => Obeyed)
<1>0. /\ Sound(engine) /\ engine \in Engine /\ file \in Seq(Line) /\ saved \in BOOLEAN
      /\ stage \in [Conn -> {"none", "connecting", "relaying", "over"}]
      /\ limit \in [Conn -> Limit]
      /\ origin \in [Conn -> {"rules", "operator", "missed"}]
      /\ \A c \in Conn : Live(c) /\ origin[c] = "rules" => limit[c] = Given(c)
      /\ saved => Load(file) = engine
  BY DEF ThrottleInv, TypeOK, FollowRules
<1>1. ASSUME NEW c \in Conn, NEW l \in Limit,
             UNCHANGED <<engine, file, saved>>,
             \/ /\ stage[c] = "none" /\ stage' = [stage EXCEPT ![c] = "connecting"]
                /\ limit' = [limit EXCEPT ![c] = Given(c)] /\ origin' = origin
             \/ /\ stage[c] = "connecting" /\ stage' = [stage EXCEPT ![c] = "relaying"]
                /\ limit' = limit /\ origin' = origin
             \/ /\ stage' = [stage EXCEPT ![c] = "over"]
                /\ limit' = [limit EXCEPT ![c] = Unlimited]
                /\ origin' = [origin EXCEPT ![c] = "rules"]
             \/ /\ stage' = stage /\ limit' = [limit EXCEPT ![c] = l]
                /\ origin' = [origin EXCEPT ![c] = "operator"]
      PROVE  ThrottleInv'
  <2>1. Given(c) \in Limit /\ Unlimited \in Limit
    BY <1>0, HostOfAssumption, EffectiveIsLimit, UnlimitedIsLimit DEF Given
  <2>2. /\ stage' \in [Conn -> {"none", "connecting", "relaying", "over"}]
        /\ limit' \in [Conn -> Limit]
        /\ origin' \in [Conn -> {"rules", "operator", "missed"}]
    BY <1>0, <1>1, <2>1
  <2>3. \A d \in Conn : Given(d)' = Given(d)
    BY <1>1 DEF Given
  <2>4. ASSUME NEW d \in Conn, Live(d)', origin'[d] = "rules"
        PROVE  limit'[d] = Given(d)
    <3>1. CASE d # c
      <4>1. stage'[d] = stage[d] /\ limit'[d] = limit[d] /\ origin'[d] = origin[d]
        BY <1>0, <1>1, <3>1
      <4> QED BY <1>0, <2>4, <4>1 DEF Live
    <3>2. CASE d = c
      <4>1. limit'[c] = Given(c) \/ (limit'[c] = limit[c] /\ Live(c) /\ origin[c] = "rules")
        BY <1>0, <1>1, <2>4, <3>2 DEF Live
      <4> QED BY <1>0, <3>2, <4>1
    <3> QED BY <3>1, <3>2
  <2>5. FollowRules'
    BY <2>3, <2>4 DEF FollowRules
  <2>6. TypeOK'
    BY <1>0, <1>1, <2>2 DEF TypeOK
  <2>7. Sound(engine') /\ (saved' => Load(file') = engine')
    BY <1>0, <1>1
  <2> QED BY <2>5, <2>6, <2>7 DEF ThrottleInv
<1>2. ASSUME NEW c \in Conn, Admit(c) \/ RelayStarts(c) \/ Ends(c)
      PROVE  ThrottleInv' /\ engine' = engine
  BY <1>1, <1>2, UnlimitedIsLimit DEF Admit, RelayStarts, Ends
<1>3. ASSUME NEW c \in Conn, NEW l \in {Parsed(args) : args \in Args} \cup {Unlimited},
             CmdConn(c, l)
      PROVE  ThrottleInv' /\ engine' = engine
  <2>1. l \in Limit
    BY ParsedIsLimit, UnlimitedIsLimit
  <2> QED BY <1>1, <1>3, <2>1 DEF CmdConn
<1>4. ASSUME NEW p \in Pattern, CmdThrottleOff(p)
      PROVE  ThrottleInv' /\ Obeyed
  BY <1>4, CmdThrottleOffKeeps
<1>5. ASSUME NEW p \in Pattern, NEW args \in Args, CmdThrottle(p, args)
      PROVE  ThrottleInv' /\ Obeyed
  BY <1>5, CmdThrottleKeeps
<1>6. ASSUME NEW k \in Category, CmdCategoryOff(k)
      PROVE  ThrottleInv' /\ Obeyed
  <2>1. /\ engine' = [engine EXCEPT !.byCategory[k] = <<>>]
        /\ PassOn(OfCategory(k), [c \in Conn |-> Unlimited]) /\ Save /\ stage' = stage
    BY <1>6 DEF CmdCategoryOff, RemoveCategoryRule
  <2> QED BY <2>1, UnlimitedIsLimit, CategoryKeeps
<1>7. ASSUME NEW k \in Category, NEW args \in Args, CmdCategory(k, args)
      PROVE  ThrottleInv' /\ Obeyed
  <2> DEFINE l == Parsed(args)
  <2>1. l \in Limit
    BY ParsedIsLimit
  <2>2. /\ engine' = [engine EXCEPT !.byCategory[k] = <<l>>]
        /\ PassOn(OfCategory(k), [c \in Conn |-> l]) /\ Save /\ stage' = stage
    BY <1>7 DEF CmdCategory, AddCategoryRule
  <2> HIDE DEF l
  <2>3. <<l>> \in {<<>>} \cup {<<x>> : x \in Limit}
        /\ l = IF <<l>> = <<>> THEN Unlimited ELSE <<l>>[1]
    BY <2>1
  <2> QED BY <2>1, <2>2, <2>3, CategoryKeeps
<1>8. ASSUME CmdThrottlesClear
      PROVE  ThrottleInv' /\ Obeyed
  <2>1. /\ engine' = NewEngine /\ PassOn(Conn, [c \in Conn |-> Unlimited])
        /\ Save /\ stage' = stage
    BY <1>8 DEF CmdThrottlesClear
  <2>2. Sound(engine')
    BY <2>1, NewEngineFacts
  <2>3. \A c \in Conn : [x \in Conn |-> Unlimited][c] = Given(c)'
    BY <2>1, NewEngineFacts, HostOfAssumption DEF Given
  <2>4. \A c \in Conn \ Conn : Given(c)' = Given(c)
    OBVIOUS
  <2> QED BY <2>1, <2>2, <2>3, <2>4, CommandKeeps
<1>9. ASSUME SaveAgain
      PROVE  ThrottleInv' /\ engine' = engine
  <2>1. Save /\ UNCHANGED <<engine, stage, limit, origin>>
    BY <1>9 DEF SaveAgain
  <2>2. Sound(engine')
    BY <1>0, <2>1
  <2>3. /\ file' \in Seq(Line) /\ saved' \in BOOLEAN
        /\ saved' => Load(file') = engine'
    BY <2>1, <2>2, SaveKeeps DEF ThrottleInv
  <2>4. FollowRules' /\ TypeOK'
    BY <1>0, <2>1, <2>3 DEF FollowRules, Live, Given, TypeOK
  <2> QED BY <2>1, <2>2, <2>3, <2>4 DEF ThrottleInv
<1>10. ASSUME Reload
       PROVE  ThrottleInv' /\ Obeyed
  <2>1. /\ engine' = Load(file) /\ saved' = TRUE /\ PassOn(Conn, NewGiven)
        /\ UNCHANGED <<file, stage>>
    BY <1>10 DEF Reload
  <2>2. Sound(engine')
    BY <1>0, <2>1, LoadSound
  <2>3. \A c \in Conn : NewGiven[c] = Given(c)'
    BY DEF NewGiven
  <2>4. \A c \in Conn \ Conn : Given(c)' = Given(c)
    OBVIOUS
  <2>5. /\ limit' \in [Conn -> Limit]
        /\ origin' \in [Conn -> {"rules", "operator", "missed"}]
        /\ FollowRules' /\ Obeyed
    BY <2>1, <2>2, <2>3, <2>4, PassOnKeeps
  <2>6. TypeOK'
    BY <1>0, <2>1, <2>2, <2>5 DEF TypeOK, Sound
  <2> QED BY <2>1, <2>2, <2>5, <2>6 DEF ThrottleInv
<1>11. ASSUME ReloadFails
       PROVE  ThrottleInv' /\ Obeyed
  <2>1. /\ engine' = NewEngine /\ saved' = FALSE /\ UNCHANGED <<file, stage, limit>>
        /\ origin' = [c \in Conn |-> IF Changed(c) THEN "missed" ELSE origin[c]]
    BY <1>11 DEF ReloadFails
  <2>2. Sound(engine')
    BY <2>1, NewEngineFacts
  <2>3. \A c \in Conn : origin'[c] = IF Changed(c) THEN "missed" ELSE origin[c]
    <3> HIDE DEF Changed
    <3> QED BY <2>1
  <2>4. origin' \in [Conn -> {"rules", "operator", "missed"}]
    <3>1. \A c \in Conn : origin'[c] \in {"rules", "operator", "missed"}
      BY <1>0, <2>3
    <3> QED BY <2>1, <3>1
  <2>5. ASSUME NEW c \in Conn, Live(c)', origin'[c] = "rules"
        PROVE  limit'[c] = Given(c)'
    <3>1. ~ Changed(c) /\ origin[c] = "rules" /\ Live(c) /\ limit'[c] = limit[c]
      BY <2>1, <2>3, <2>5 DEF Live
    <3> QED BY <1>0, <3>1 DEF Changed, Live
  <2>6. FollowRules'
    BY <2>5 DEF FollowRules
  <2>7. TypeOK'
    BY <1>0, <2>1, <2>2, <2>4 DEF TypeOK, Sound
  <2>8. Obeyed
    BY <2>1 DEF Obeyed
  <2> QED BY <2>1, <2>2, <2>6, <2>7, <2>8 DEF ThrottleInv
<1>12. ASSUME EditFile
       PROVE  ThrottleInv' /\ engine' = engine
  <2>1. file' \in Seq(Line) /\ saved' = FALSE /\ UNCHANGED <<engine, stage, limit, origin>>
    BY <1>12, InputAssumption DEF EditFile
  <2> QED BY <1>0, <2>1 DEF ThrottleInv, FollowRules, Live, Given, TypeOK
<1>13. ASSUME UNCHANGED vars
       PROVE  ThrottleInv' /\ engine' = engine
  BY <1>0, <1>13 DEF vars, ThrottleInv, FollowRules, Live, Given, TypeOK
<1> QED
  BY <1>2, <1>3, <1>4, <1>5, <1>6, <1>7, <1>8, <1>9, <1>10, <1>11, <1>12, <1>13 DEF Next

\* Types, one rule for each pattern, limits as the rules give them and a file
\* that says what is in force, in every state.
THEOREM ThrottleInvariant == Spec => []ThrottleInv
BY ThrottleInvInit, ThrottleInvStep, PTL DEF Spec

\* Whatever is added, replaced, removed and reloaded, a relay that was reached
\* by the changes of its rules has the limit they now give it.
THEOREM RunningFollowRulesProved == Spec => []RunningFollowRules
<1>1. ThrottleInv => RunningFollowRules
  BY DEF ThrottleInv, FollowRules, Live, Running, RunningFollowRules
<1> QED BY <1>1, ThrottleInvariant, PTL

\* No command gives a relay the limit of a rule that another overrides: each
\* reaches exactly the connections for which its change of rules matters.
THEOREM RulesNeverMisappliedProved == Spec => RulesNeverMisapplied
<1>1. ASSUME ThrottleInv, [Next]_vars
      PROVE  [engine' # engine => \A c \in Running : limit'[c] \in {limit[c], Given(c)'}]_vars
  BY <1>1, ThrottleInvStep DEF Obeyed
<1> QED BY <1>1, ThrottleInvariant, PTL DEF Spec, RulesNeverMisapplied

\* What was saved throttles every host after a restart as before it.
THEOREM RestartThrottlesTheSameProved == Spec => []RestartThrottlesTheSame
<1>1. ThrottleInv => RestartThrottlesTheSame
  BY DEF ThrottleInv, RestartThrottlesTheSame
<1> QED BY <1>1, ThrottleInvariant, PTL
=============================================================================
