------------------------- MODULE RulesConsoleProofs -------------------------
(***************************************************************************)
(* Whatever the operator does, the list of rules stays free of duplicates, *)
(* the caches beside it follow it, and what was saved is what decides after *)
(* a restart: for every set of hosts, patterns, categories and connections, *)
(* every text that is typed, every file, and lists of any length.          *)
(***************************************************************************)
EXTENDS RulesConsole, SequenceFacts

NoneTwice(rules) == \A i, j \in DOMAIN rules : rules[i] = rules[j] => i = j
PatternsOf(rules) == {rules[i].text.pattern : i \in DOMAIN rules}

\* What every operation keeps of an engine.
Sound(e) == e \in Engine /\ NoneTwice(e.rules) /\ e.compiled = PatternsOf(e.rules)

----------------------------------------------------------------------------
(* Operations of the engine *)

LEMMA EngineShape ==
    ASSUME NEW e \in Engine
    PROVE  /\ e = [rules |-> e.rules, mode |-> e.mode,
                   overrides |-> e.overrides, compiled |-> e.compiled]
           /\ e.rules \in Seq(Rule) /\ e.mode \in Mode
           /\ e.overrides \in [Category -> Override] /\ e.compiled \in SUBSET Pattern
           /\ Len(e.rules) \in Nat /\ DOMAIN e.rules = 1..Len(e.rules)
           /\ \A i \in 1..Len(e.rules) : e.rules[i] \in Rule
<1>1. e.rules \in Seq(Rule)
  BY DEF Engine
<1>2. \A i \in 1..Len(e.rules) : e.rules[i] \in Rule
  BY <1>1, ElementOfSeq
<1> QED BY <1>1, <1>2, LenProperties DEF Engine

\* A rule of a list is made of a text and a kind.
LEMMA RuleShape ==
    ASSUME NEW r \in Rule
    PROVE  /\ r.text \in Text /\ r.kind \in Kind /\ r.text.pattern \in Pattern
           /\ r = [text |-> r.text, kind |-> r.kind]
BY DEF Rule, Text

LEMMA WithRulesFacts ==
    ASSUME NEW e \in Engine, NEW rules \in Seq(Rule), NEW compiled \in SUBSET Pattern
    PROVE  /\ WithRules(e, rules, compiled) \in Engine
           /\ WithRules(e, rules, compiled).rules = rules
           /\ WithRules(e, rules, compiled).compiled = compiled
           /\ WithRules(e, rules, compiled).mode = e.mode
           /\ WithRules(e, rules, compiled).overrides = e.overrides
BY DEF Engine, WithRules

LEMMA EmptyListSound ==
    <<>> \in Seq(Rule) /\ NoneTwice(<<>>) /\ PatternsOf(<<>>) = {}
<1>1. DOMAIN <<>> = {} /\ <<>> \in Seq(Rule)
  BY EmptySeq
<1> QED BY <1>1 DEF NoneTwice, PatternsOf

LEMMA NewEngineSound == Sound(NewEngine)
<1>1. NewEngine \in Engine /\ NewEngine.rules = <<>> /\ NewEngine.compiled = {}
  BY EmptySeq DEF NewEngine, Engine, Mode, Override
<1> QED BY <1>1, EmptyListSound DEF Sound

LEMMA SetModeSound ==
    ASSUME NEW e, Sound(e), NEW mode \in Mode
    PROVE  Sound(SetMode(e, mode)) /\ SetMode(e, mode).overrides = e.overrides
BY DEF Sound, SetMode, Engine

LEMMA OverrideSound ==
    ASSUME NEW e, Sound(e), NEW k \in Category, NEW o \in Override
    PROVE  /\ Sound(OverrideCategory(e, k, o))
           /\ OverrideCategory(e, k, o).overrides = [e.overrides EXCEPT ![k] = o]
BY DEF Sound, OverrideCategory, Engine

LEMMA ClearRulesSound ==
    ASSUME NEW e, Sound(e)
    PROVE  Sound(ClearRules(e)) /\ ClearRules(e).overrides = e.overrides
<1>1. ClearRules(e) = [e EXCEPT !.rules = <<>>, !.compiled = {}]
  BY DEF ClearRules, WithRules
<1>2. e \in Engine
  BY DEF Sound
<1>3. /\ ClearRules(e) \in Engine /\ ClearRules(e).rules = <<>>
      /\ ClearRules(e).compiled = {} /\ ClearRules(e).overrides = e.overrides
  BY <1>1, <1>2, EmptyListSound DEF Engine
<1> QED BY <1>3, EmptyListSound DEF Sound

\* A rule that is not listed may come anywhere.
LEMMA WithRuleSound ==
    ASSUME NEW e, Sound(e), NEW rule \in Rule, ~Contains(e.rules, rule),
           NEW rules \in Seq(Rule), NEW at \in 1..(Len(e.rules) + 1),
           Len(rules) = Len(e.rules) + 1,
           rules[at] = rule,
           \A i \in 1..(Len(e.rules) + 1) :
               i # at => \E j \in 1..Len(e.rules) : rules[i] = e.rules[j],
           \A j \in 1..Len(e.rules) :
               \E i \in 1..(Len(e.rules) + 1) : i # at /\ rules[i] = e.rules[j],
           \A i, j \in 1..(Len(e.rules) + 1) :
               i # at /\ j # at /\ rules[i] = rules[j] => i = j
    PROVE  LET new == WithRules(e, rules, e.compiled \cup {rule.text.pattern})
           IN  /\ Sound(new) /\ new.overrides = e.overrides
               /\ new.rules = rules /\ new.mode = e.mode
<1> DEFINE n == Len(e.rules)
           new == WithRules(e, rules, e.compiled \cup {rule.text.pattern})
<1>1. e \in Engine /\ rule.text.pattern \in Pattern
  BY RuleShape DEF Sound
<1>2. /\ new \in Engine /\ new.rules = rules
      /\ new.compiled = e.compiled \cup {rule.text.pattern}
      /\ new.mode = e.mode /\ new.overrides = e.overrides
  BY <1>1 DEF Engine, WithRules
<1>3. DOMAIN rules = 1..(n + 1) /\ DOMAIN e.rules = 1..n
  BY <1>1, EngineShape, LenProperties
<1> HIDE DEF n, new
<1>4. \A i \in 1..n : e.rules[i] # rule
  BY DEF Contains, n
<1>5. NoneTwice(rules)
  <2>1. \A i \in 1..(n + 1) : i # at => rules[i] # rule
    <3> SUFFICES ASSUME NEW i \in 1..(n + 1), i # at PROVE rules[i] # rule
      OBVIOUS
    <3>1. PICK j \in 1..n : rules[i] = e.rules[j]
      BY DEF n
    <3> QED BY <1>4, <3>1
  <2>2. \A i, j \in 1..(n + 1) : i # at /\ j # at /\ rules[i] = rules[j] => i = j
    BY DEF n
  <2> QED BY <1>3, <2>1, <2>2 DEF NoneTwice
<1>6. PatternsOf(rules) = e.compiled \cup {rule.text.pattern}
  <2>1. e.compiled = PatternsOf(e.rules)
    BY DEF Sound
  <2>2. \A i \in 1..(n + 1) : rules[i].text.pattern \in PatternsOf(e.rules) \cup {rule.text.pattern}
    <3> SUFFICES ASSUME NEW i \in 1..(n + 1), i # at
                 PROVE  rules[i].text.pattern \in PatternsOf(e.rules)
      OBVIOUS
    <3>1. PICK j \in 1..n : rules[i] = e.rules[j]
      BY DEF n
    <3>2. j \in DOMAIN e.rules /\ rules[i].text.pattern = e.rules[j].text.pattern
      BY <1>3, <3>1
    <3> QED BY <3>2, Zenon DEF PatternsOf
  <2>3. \A j \in 1..n : \E i \in 1..(n + 1) : rules[i] = e.rules[j]
    BY DEF n
  <2>4. \A j \in 1..n : e.rules[j].text.pattern \in PatternsOf(rules)
    BY <1>3, <2>3 DEF PatternsOf
  <2>5. rule.text.pattern \in PatternsOf(rules)
    BY <1>3 DEF PatternsOf, n
  <2>6. PatternsOf(rules) \subseteq PatternsOf(e.rules) \cup {rule.text.pattern}
    BY <1>3, <2>2 DEF PatternsOf
  <2>7. PatternsOf(e.rules) \subseteq PatternsOf(rules)
    <3> SUFFICES ASSUME NEW j \in 1..n
                 PROVE  e.rules[j].text.pattern \in PatternsOf(rules)
      BY <1>3, ZenonT(40) DEF PatternsOf
    <3> QED BY <2>4
  <2> QED BY <2>1, <2>5, <2>6, <2>7
<1>7. Sound(new)
  BY <1>2, <1>5, <1>6 DEF Sound
<1> QED BY <1>2, <1>7 DEF new

\* add_rule puts a new rule last.
LEMMA AddRuleSound ==
    ASSUME NEW e, Sound(e), NEW text \in Text, NEW kind \in Kind
    PROVE  Sound(AddRule(e, text, kind)) /\ AddRule(e, text, kind).overrides = e.overrides
<1> DEFINE rule == [text |-> text, kind |-> kind]
<1>1. CASE Contains(e.rules, rule)
  <2>1. AddRule(e, text, kind) = e
    BY <1>1 DEF AddRule
  <2> QED BY <2>1, Zenon
<1>2. CASE ~Contains(e.rules, rule)
  <2> DEFINE n == Len(e.rules)
             rules == Append(e.rules, rule)
  <2>1. e \in Engine /\ rule \in Rule /\ rule.text = text
    BY DEF Sound, Rule
  <2>2. /\ rules \in Seq(Rule) /\ Len(rules) = n + 1 /\ n \in Nat
        /\ \A i \in 1..n : rules[i] = e.rules[i]
        /\ rules[n + 1] = rule
    BY <2>1, EngineShape, AppendProperties
  <2>3. AddRule(e, text, kind) = WithRules(e, rules, e.compiled \cup {rule.text.pattern})
    BY <1>2, <2>1 DEF AddRule
  <2> HIDE DEF rules, n
  <2>4. \A i \in 1..(n + 1) : i # n + 1 => i \in 1..n
    BY <2>2
  <2>5. \A j \in 1..n : j \in 1..(n + 1) /\ j # n + 1
    BY <2>2
  <2>6. \A i \in 1..(n + 1) : i # n + 1 => \E j \in 1..n : rules[i] = e.rules[j]
    BY <2>2, <2>4
  <2>7. \A j \in 1..n : \E i \in 1..(n + 1) : i # n + 1 /\ rules[i] = e.rules[j]
    BY <2>2, <2>5
  <2>8. \A i, j \in 1..(n + 1) :
          i # n + 1 /\ j # n + 1 /\ rules[i] = rules[j] => i = j
    <3>1. \A i, j \in 1..n : e.rules[i] = e.rules[j] => i = j
      BY <2>1, EngineShape DEF Sound, NoneTwice, n
    <3> QED BY <2>2, <2>4, <3>1
  <2>9. n + 1 \in 1..(n + 1)
    BY <2>2
  <2> HIDE DEF rule
  <2> DEFINE new == WithRules(e, rules, e.compiled \cup {rule.text.pattern})
  <2>10. Sound(new) /\ new.overrides = e.overrides
    <3>1. PICK last \in 1..(n + 1) : last = n + 1
      BY <2>9
    <3>2. /\ rules[last] = rule
          /\ \A i \in 1..(n + 1) : i # last => \E j \in 1..n : rules[i] = e.rules[j]
          /\ \A j \in 1..n : \E i \in 1..(n + 1) : i # last /\ rules[i] = e.rules[j]
          /\ \A i, j \in 1..(n + 1) : i # last /\ j # last /\ rules[i] = rules[j] => i = j
      BY <2>2, <2>6, <2>7, <2>8, <3>1
    <3>3. rule \in Rule /\ rules \in Seq(Rule) /\ Len(rules) = n + 1
      BY <2>1, <2>2
    <3> QED BY <1>2, <3>2, <3>3, WithRuleSound, SMTT(60), ZenonT(60) DEF n
  <2>11. AddRule(e, text, kind) = new
    BY <2>3
  <2> HIDE DEF new
  <2> QED BY <2>10, <2>11
<1> QED BY <1>1, <1>2

\* The dashboard's D and A put it first.
LEMMA PrependRuleSound ==
    ASSUME NEW e, Sound(e), NEW text \in Text, NEW kind \in Kind
    PROVE  Sound(PrependRule(e, text, kind))
           /\ PrependRule(e, text, kind).overrides = e.overrides
<1> DEFINE rule == [text |-> text, kind |-> kind]
<1>1. CASE Contains(e.rules, rule)
  <2>1. PrependRule(e, text, kind) = e
    BY <1>1 DEF PrependRule
  <2> QED BY <2>1, Zenon
<1>2. CASE ~Contains(e.rules, rule)
  <2> DEFINE n == Len(e.rules)
             rules == <<rule>> \o e.rules
  <2>1. e \in Engine /\ rule \in Rule /\ rule.text = text
    BY DEF Sound, Rule
  <2>2. /\ rules \in Seq(Rule) /\ Len(rules) = n + 1 /\ n \in Nat
        /\ \A i \in 1..n : rules[i + 1] = e.rules[i]
        /\ rules[1] = rule
    <3>1. <<rule>> \in Seq(Rule) /\ Len(<<rule>>) = 1 /\ <<rule>>[1] = rule
      BY <2>1
    <3>2. e.rules \in Seq(Rule) /\ n \in Nat
      BY <2>1, EngineShape
    <3> DEFINE one == <<rule>>
    <3> HIDE DEF one
    <3>3. /\ one \o e.rules \in Seq(Rule)
          /\ Len(one \o e.rules) = Len(one) + Len(e.rules)
          /\ \A i \in 1..(Len(one) + Len(e.rules)) : (one \o e.rules)[i] =
                 IF i <= Len(one) THEN one[i] ELSE e.rules[i - Len(one)]
      BY <3>1, <3>2, ConcatProperties DEF one
    <3>4. Len(one) = 1 /\ one[1] = rule
      BY <3>1 DEF one
    <3> QED BY <3>2, <3>3, <3>4 DEF one
  <2>3. PrependRule(e, text, kind) = WithRules(e, rules, e.compiled \cup {rule.text.pattern})
    BY <1>2, <2>1 DEF PrependRule
  <2> HIDE DEF rules, n
  <2>4. \A i \in 1..(n + 1) : i # 1 => i - 1 \in 1..n /\ rules[i] = e.rules[i - 1]
    BY <2>2
  <2>5. \A j \in 1..n : j + 1 \in 1..(n + 1) /\ j + 1 # 1
    BY <2>2
  <2>6. \A i \in 1..(n + 1) : i # 1 => \E j \in 1..n : rules[i] = e.rules[j]
    BY <2>4
  <2>7. \A j \in 1..n : \E i \in 1..(n + 1) : i # 1 /\ rules[i] = e.rules[j]
    BY <2>2, <2>5
  <2>8. \A i, j \in 1..(n + 1) : i # 1 /\ j # 1 /\ rules[i] = rules[j] => i = j
    <3>1. \A i, j \in 1..n : e.rules[i] = e.rules[j] => i = j
      BY <2>1, EngineShape DEF Sound, NoneTwice, n
    <3>2. \A i, j \in 1..(n + 1) : i # 1 /\ j # 1 /\ rules[i] = rules[j] => i - 1 = j - 1
      BY <2>4, <3>1
    <3> QED BY <3>2
  <2>9. 1 \in 1..(n + 1)
    BY <2>2
  <2> HIDE DEF rule
  <2> DEFINE new == WithRules(e, rules, e.compiled \cup {rule.text.pattern})
  <2>10. Sound(new) /\ new.overrides = e.overrides
    BY <1>2, <2>1, <2>2, <2>6, <2>7, <2>8, <2>9, WithRuleSound, SMTT(60), ZenonT(60) DEF n
  <2>11. PrependRule(e, text, kind) = new
    BY <2>3
  <2> HIDE DEF new
  <2> QED BY <2>10, <2>11
<1> QED BY <1>1, <1>2
\* remove_rule takes one rule out, and its pattern if no other rule has it.
LEMMA RemoveRuleSound ==
    ASSUME NEW e, Sound(e), NEW text
    PROVE  Sound(RemoveRule(e, text)) /\ RemoveRule(e, text).overrides = e.overrides
<1>1. e \in Engine
  BY DEF Sound
<1>2. CASE ~HasRule(e, text)
  <2>1. RemoveRule(e, text) = e
    BY <1>2 DEF RemoveRule
  <2> QED BY <2>1, Zenon
<1>3. CASE HasRule(e, text)
  <2> DEFINE n == Len(e.rules)
             about == {i \in 1..n : SameTarget(e.rules[i].text, text)}
             at == Min(about)
             left == RemoveAt(e.rules, at)
             used == \E i \in DOMAIN left : left[i].text.pattern = text.pattern
             kept == IF used THEN e.compiled ELSE e.compiled \ {text.pattern}
  <2>1. /\ e.rules \in Seq(Rule) /\ n \in Nat /\ DOMAIN e.rules = 1..n
        /\ e.compiled \in SUBSET Pattern
    BY <1>1, EngineShape
  <2>2. about \in SUBSET Nat /\ about # {}
    BY <1>3, <2>1 DEF HasRule
  <2>3. at \in 1..n /\ SameTarget(e.rules[at].text, text)
    <3>1. at \in about
      BY <2>2, MinFacts
    <3> QED BY <3>1
  <2>4. RemoveFirstMatch(e.rules, LAMBDA r : SameTarget(r.text, text)) = left
    <3>1. \E i \in 1..n : SameTarget(e.rules[i].text, text)
      BY <2>3
    <3> QED BY <2>2, <3>1 DEF RemoveFirstMatch, SelectInSeq
  <2>5. RemoveRule(e, text) = WithRules(e, left, kept)
    BY <1>3, <2>4 DEF RemoveRule
  <2> HIDE DEF about, at
  <2>6. /\ left \in Seq(Rule) /\ Len(left) = n - 1
        /\ \A j \in 1..(n - 1) : left[j] = IF j < at THEN e.rules[j] ELSE e.rules[j + 1]
    BY <2>1, <2>3, RemoveAtFacts
  <2>7. DOMAIN left = 1..(n - 1)
    BY <2>6, LenProperties
  <2>8. NoneTwice(left)
    <3>1. \A j, k \in 1..n : e.rules[j] = e.rules[k] => j = k
      BY <2>1 DEF Sound, NoneTwice
    <3>2. \A j, k \in 1..(n - 1) : left[j] = left[k] => j = k
      BY <2>1, <2>3, <3>1, RemoveAtInjective, SMTT(30), ZenonT(40)
    <3> QED BY <2>7, <3>2 DEF NoneTwice
  <2>9. kept = PatternsOf(left)
    <3>1. e.compiled = {e.rules[i].text.pattern : i \in 1..n}
      BY <2>1 DEF Sound, PatternsOf
    <3>2. e.rules[at].text.pattern = text.pattern
      BY <2>3 DEF SameTarget
    <3>3. \A j \in 1..(n - 1) : \E i \in 1..n : left[j] = e.rules[i]
      <4>1. \A j \in 1..(n - 1) : j \in 1..n /\ j + 1 \in 1..n
        BY <2>1
      <4> HIDE DEF left, n
      <4> QED BY <2>6, <4>1
    <3>4. \A i \in 1..n : i # at => \E j \in 1..(n - 1) : left[j] = e.rules[i]
      BY <2>1, <2>3, RemoveAtKeepsOthers
    <3> HIDE DEF left, n
    <3>5. PatternsOf(left) \subseteq e.compiled
      BY <2>7, <3>1, <3>3 DEF PatternsOf
    <3>6. e.compiled \subseteq PatternsOf(left) \cup {text.pattern}
      BY <2>7, <3>1, <3>2, <3>4 DEF PatternsOf
    <3>7. used <=> text.pattern \in PatternsOf(left)
      BY DEF PatternsOf
    <3> QED BY <3>5, <3>6, <3>7
  <2>10. /\ WithRules(e, left, kept) \in Engine /\ WithRules(e, left, kept).rules = left
         /\ WithRules(e, left, kept).compiled = kept
         /\ WithRules(e, left, kept).overrides = e.overrides
    <3>1. kept \in SUBSET Pattern
      BY <2>1
    <3> HIDE DEF left, kept
    <3> QED BY <1>1, <2>6, <3>1 DEF WithRules, Engine
  <2> HIDE DEF left, kept
  <2>11. Sound(WithRules(e, left, kept))
    BY <2>8, <2>9, <2>10 DEF Sound
  <2> QED BY <2>5, <2>10, <2>11, Zenon
<1> QED BY <1>2, <1>3
----------------------------------------------------------------------------
(* The file *)

LEMMA LineShape ==
    ASSUME NEW line \in Line
    PROVE  \/ line.about = "mode" /\ line.mode \in Mode
           \/ line.about = "rule" /\ line.rule \in Rule
           \/ line.about = "category" /\ line.category \in Category /\ line.override \in Override
BY DEF Line

\* A line of the file is one of the operations.
LEMMA LoadLineSound ==
    ASSUME NEW e, Sound(e), NEW line \in Line
    PROVE  Sound(LoadLine(e, line))
<1>1. CASE line.about = "mode" /\ line.mode \in Mode
  <2>1. LoadLine(e, line) = e \/ LoadLine(e, line) = SetMode(e, line.mode)
    BY <1>1 DEF LoadLine
  <2>2. Sound(SetMode(e, line.mode))
    BY <1>1, SetModeSound
  <2> QED BY <2>1, <2>2, Zenon
<1>2. CASE line.about = "rule" /\ line.rule \in Rule
  <2> DEFINE junk == [line.rule.text EXCEPT !.pattern = Junk, !.port = AnyPort]
  <2>1. \/ LoadLine(e, line) = AddRule(e, junk, line.rule.kind)
        \/ LoadLine(e, line) = AddRule(e, line.rule.text, line.rule.kind)
    BY <1>2 DEF LoadLine
  <2>2. line.rule.text \in Text /\ line.rule.kind \in Kind
    BY <1>2, RuleShape
  <2>3. junk \in Text
    BY <2>2, PatternAssumption DEF Text
  <2> HIDE DEF junk
  <2>4. Sound(AddRule(e, junk, line.rule.kind))
    BY <2>2, <2>3, AddRuleSound
  <2>5. Sound(AddRule(e, line.rule.text, line.rule.kind))
    BY <2>2, AddRuleSound
  <2> QED BY <2>1, <2>4, <2>5, Zenon
<1>3. CASE line.about = "category" /\ line.category \in Category /\ line.override \in Override
  <2>1. \/ LoadLine(e, line) = e
        \/ LoadLine(e, line) = OverrideCategory(e, line.category, line.override)
    BY <1>3 DEF LoadLine
  <2>2. Sound(OverrideCategory(e, line.category, line.override))
    BY <1>3, OverrideSound
  <2> QED BY <2>1, <2>2, Zenon
<1> QED BY <1>1, <1>2, <1>3, LineShape

SoundEngines == {e \in Engine : Sound(e)}

\* The file is read line by line.
LEMMA LoadIterates ==
    ASSUME NEW lines \in Seq(Line)
    PROVE  \E after \in [0..Len(lines) -> SoundEngines] :
              /\ after[0] = NewEngine
              /\ \A k \in Nat : k < Len(lines) =>
                   after[k + 1] = LoadLine(after[k], lines[k + 1])
              /\ Load(lines) = after[Len(lines)]
<1> DEFINE n == Len(lines)
           next == [x \in (1..n) \X SoundEngines |-> LoadLine(x[2], lines[x[1]])]
           Iterates(g) == g = [s \in SUBSET (1..n) |->
               IF s = {} THEN NewEngine ELSE LoadLine(g[s \ {Max(s)}], lines[Max(s)])]
           iter == CHOOSE g : Iterates(g)
<1>1. n \in Nat /\ DOMAIN lines = 1..n /\ \A i \in 1..n : lines[i] \in Line
  BY LenProperties, ElementOfSeq
<1>2. NewEngine \in SoundEngines
  BY NewEngineSound DEF SoundEngines, Sound
<1>3. \A e \in SoundEngines, i \in 1..n : LoadLine(e, lines[i]) \in SoundEngines
  BY <1>1, LoadLineSound DEF SoundEngines, Sound
<1>4. next \in [(1..n) \X SoundEngines -> SoundEngines]
  BY <1>3
<1>5. Load(lines) = iter[1..n]
  BY <1>1 DEF Load, FoldLeft, MapThenFoldSet
<1>6. \E g : Iterates(g)
  <2>0. PICK g : FoldsBy(g, n, NewEngine, next, SoundEngines)
    <3> HIDE DEF next, n
    <3> QED BY <1>1, <1>2, <1>4, FoldExists
  <2>1. /\ g \in [SUBSET (1..n) -> SoundEngines]
        /\ \A s \in SUBSET (1..n) :
             g[s] = IF s = {} THEN NewEngine ELSE next[<<Max(s), g[s \ {Max(s)}]>>]
    <3> HIDE DEF next, n
    <3> QED BY <2>0 DEF FoldsBy
  <2>2. ASSUME NEW s \in SUBSET (1..n), s # {}
        PROVE  g[s] = LoadLine(g[s \ {Max(s)}], lines[Max(s)])
    <3>1. Max(s) \in 1..n
      <4> HIDE DEF n
      <4> QED BY <1>1, <2>2, MaxFacts
    <3>2. <<Max(s), g[s \ {Max(s)}]>> \in (1..n) \X SoundEngines
      BY <2>1, <3>1
    <3>3. next[<<Max(s), g[s \ {Max(s)}]>>] = LoadLine(g[s \ {Max(s)}], lines[Max(s)])
      BY <3>2
    <3> QED BY <2>1, <2>2, <3>3
  <2>3. g = [s \in SUBSET (1..n) |-> g[s]]
    BY <2>1
  <2> QED BY <2>1, <2>2, <2>3
<1>7. Iterates(iter)
  BY <1>6
<1> HIDE DEF iter
<1>9. ASSUME NEW i \in 1..n, NEW e \in SoundEngines
      PROVE  next[<<i, e>>] = LoadLine(e, lines[i])
  BY <1>9
<1>10. StepsBy(iter, n, NewEngine, next, SoundEngines)
  <2>1. iter[{}] = NewEngine
    BY <1>7
  <2>2. ASSUME NEW s \in SUBSET (1..n), s # {}, iter[s \ {Max(s)}] \in SoundEngines
        PROVE  iter[s] = next[<<Max(s), iter[s \ {Max(s)}]>>]
    <3>1. Max(s) \in 1..n
      <4> HIDE DEF n
      <4> QED BY <1>1, <2>2, MaxFacts
    <3> QED BY <1>7, <1>9, <2>2, <3>1
  <2> HIDE DEF next, n
  <2> QED BY <2>1, <2>2 DEF StepsBy
<1> HIDE DEF next, n
<1>11. PICK after : Passes(after, iter, n, NewEngine, next, SoundEngines)
  BY <1>1, <1>2, <1>4, <1>10, FoldIsIterated
<1>12. ASSUME NEW k \in Nat, k < n
       PROVE  after[k + 1] = LoadLine(after[k], lines[k + 1])
  <2>1. k \in 0..n /\ k + 1 \in 1..n
    BY <1>1, <1>12
  <2>2. after[k] \in SoundEngines /\ after[k + 1] = next[<<k + 1, after[k]>>]
    BY <1>11, <1>12, <2>1 DEF Passes
  <2> QED BY <1>9, <2>1, <2>2
<1>13. /\ after \in [0..n -> SoundEngines]
       /\ after[0] = NewEngine /\ Load(lines) = after[n]
  BY <1>5, <1>11 DEF Passes
<1> QED BY <1>12, <1>13 DEF n

LEMMA LoadSound ==
    ASSUME NEW lines \in Seq(Line)
    PROVE  Sound(Load(lines))
<1>1. Len(lines) \in Nat
  BY LenProperties
<1>2. Load(lines) \in SoundEngines
  BY <1>1, LoadIterates
<1> QED BY <1>2 DEF SoundEngines

\* clear deny and clear allow remove one rule after the other.
LEMMA ClearKindSound ==
    ASSUME NEW e, Sound(e), NEW kind
    PROVE  Sound(ClearKind(e, kind)) /\ ClearKind(e, kind).overrides = e.overrides
<1> DEFINE T == {x \in Engine : Sound(x) /\ x.overrides = e.overrides}
           n == Len(e.rules)
           Step(x, r) == IF r.kind = kind THEN RemoveRule(x, r.text) ELSE x
           next == [x \in (1..n) \X T |-> Step(x[2], e.rules[x[1]])]
           Iterates(g) == g = [s \in SUBSET (1..n) |->
               IF s = {} THEN e ELSE Step(g[s \ {Max(s)}], e.rules[Max(s)])]
           iter == CHOOSE g : Iterates(g)
<1>1. e \in T /\ n \in Nat /\ DOMAIN e.rules = 1..n
  BY EngineShape DEF Sound
<1>2. \A r : \A x \in T : Step(x, r) \in T
  BY RemoveRuleSound DEF Sound
<1>3. next \in [(1..n) \X T -> T]
  BY <1>2
<1>4. ClearKind(e, kind) = iter[1..n]
  BY <1>1 DEF ClearKind, FoldLeft, MapThenFoldSet
<1> HIDE DEF T, Step
<1>5. \A i \in 1..n, x \in T : next[<<i, x>>] = Step(x, e.rules[i])
  OBVIOUS
<1>6. \A s \in SUBSET (1..n) : s # {} => Max(s) \in 1..n
  <2> HIDE DEF n
  <2> QED BY <1>1, MaxFacts
<1>7. \E g : Iterates(g)
  <2>1. PICK g : FoldsBy(g, n, e, next, T)
    <3> HIDE DEF next, n
    <3> QED BY <1>1, <1>3, FoldExists
  <2>2. /\ g \in [SUBSET (1..n) -> T]
        /\ \A s \in SUBSET (1..n) :
             g[s] = IF s = {} THEN e ELSE next[<<Max(s), g[s \ {Max(s)}]>>]
    <3> HIDE DEF next, n
    <3> QED BY <2>1 DEF FoldsBy
  <2>3. \A s \in SUBSET (1..n) :
          g[s] = IF s = {} THEN e ELSE Step(g[s \ {Max(s)}], e.rules[Max(s)])
    <3> HIDE DEF next, n
    <3> QED BY <1>5, <1>6, <2>2
  <2>4. g = [s \in SUBSET (1..n) |-> g[s]]
    BY <2>2
  <2> QED BY <2>3, <2>4
<1>8. Iterates(iter)
  BY <1>7
<1> HIDE DEF iter
<1>9. StepsBy(iter, n, e, next, T)
  <2>1. iter[{}] = e
    BY <1>8
  <2>2. ASSUME NEW s \in SUBSET (1..n), s # {}, iter[s \ {Max(s)}] \in T
        PROVE  iter[s] = next[<<Max(s), iter[s \ {Max(s)}]>>]
    BY <1>5, <1>6, <1>8, <2>2
  <2> HIDE DEF next, n
  <2> QED BY <2>1, <2>2 DEF StepsBy
<1> HIDE DEF next, n
<1>10. PICK after : Passes(after, iter, n, e, next, T)
  BY <1>1, <1>3, <1>9, FoldIsIterated
<1>11. iter[1..n] \in T
  BY <1>1, <1>10 DEF Passes
<1> QED BY <1>4, <1>11 DEF T
----------------------------------------------------------------------------
(* What is saved is what is loaded again. *)

OverriddenIn(e) == {k \in Category : e.overrides[k] # "default"}
ListedIn(e) == SetToSeq(OverriddenIn(e))

LEMMA OverriddenFacts ==
    ASSUME NEW e \in Engine
    PROVE  /\ ListedIn(e) \in Seq(Category) /\ Len(ListedIn(e)) \in Nat
           /\ \A i \in 1..Len(ListedIn(e)) :
                ListedIn(e)[i] \in Category /\ e.overrides[ListedIn(e)[i]] \in Kind
           /\ \A k \in Category : e.overrides[k] # "default" =>
                \E i \in 1..Len(ListedIn(e)) : ListedIn(e)[i] = k
<1>1. IsFiniteSet(OverriddenIn(e))
  BY FiniteAssumption, FS_Subset DEF OverriddenIn
<1>2. /\ ListedIn(e) \in Seq(OverriddenIn(e)) /\ Len(ListedIn(e)) \in Nat
      /\ \A k \in OverriddenIn(e) : \E i \in 1..Len(ListedIn(e)) : ListedIn(e)[i] = k
  BY <1>1, SetToSeqFacts DEF ListedIn
<1>3. \A i \in 1..Len(ListedIn(e)) : ListedIn(e)[i] \in OverriddenIn(e)
  BY <1>2, ElementOfSeq
<1>4. \A k \in OverriddenIn(e) : k \in Category /\ e.overrides[k] \in Kind
  BY EngineShape DEF OverriddenIn, Override
<1>5. ListedIn(e) \in Seq(Category)
  <2>1. OverriddenIn(e) \subseteq Category
    BY <1>4
  <2> QED BY <1>2, <2>1, SeqMonotonic
<1>6. \A k \in Category : e.overrides[k] # "default" => k \in OverriddenIn(e)
  BY DEF OverriddenIn
<1> QED BY <1>2, <1>3, <1>4, <1>5, <1>6

\* A rule makes one line, about itself if its text is kept.
LEMMA RuleLineFits ==
    ASSUME NEW r \in Rule
    PROVE  /\ RuleLine(r) \in Line
           /\ Verbatim(r.text) =>
                RuleLine(r) = [about |-> "rule", rule |-> r, commented |-> FALSE]
<1> DEFINE text == FileText(r.text)
<1>1. r.text \in Text /\ r.kind \in Kind
  BY RuleShape
<1>2. text \in Text
  BY <1>1, TextAssumption DEF FileText
<1>3. Verbatim(r.text) => text = r.text /\ text \notin DOMAIN AtSign
  BY DEF Verbatim, FileText
<1>4. RuleLine(r) = IF text \in DOMAIN AtSign THEN CategoryLine(AtSign[text], r.kind)
                    ELSE [about |-> "rule", rule |-> [r EXCEPT !.text = text],
                          commented |-> FALSE]
  BY DEF RuleLine
<1> HIDE DEF text
<1>5. CASE text \in DOMAIN AtSign
  <2>1. AtSign[text] \in Category /\ r.kind \in Override
    BY <1>1, <1>5, TextAssumption DEF Override
  <2>2. CategoryLine(AtSign[text], r.kind) \in Line
    BY <2>1 DEF CategoryLine, Line
  <2> QED BY <1>3, <1>4, <1>5, <2>2
<1>6. CASE text \notin DOMAIN AtSign
  <2>1. [r EXCEPT !.text = text] \in Rule
    BY <1>2 DEF Rule
  <2>2. Verbatim(r.text) => [r EXCEPT !.text = text] = r
    BY <1>3 DEF Rule
  <2> DEFINE kept == [r EXCEPT !.text = text]
  <2>3. kept \in Rule /\ (Verbatim(r.text) => kept = r)
    BY <2>1, <2>2
  <2> HIDE DEF kept
  <2>4. [about |-> "rule", rule |-> kept, commented |-> FALSE] \in Line
    BY <2>3 DEF Line
  <2>5. RuleLine(r) = [about |-> "rule", rule |-> kept, commented |-> FALSE]
    BY <1>4, <1>6 DEF kept
  <2> QED BY <2>3, <2>4, <2>5
<1> QED BY <1>5, <1>6

\* A saved file: the mode, the rules in their order, the overridden categories.
LEMMA LinesFacts ==
    ASSUME NEW e \in Engine
    PROVE  /\ Lines(e) \in Seq(Line)
           /\ Len(Lines(e)) = 1 + Len(e.rules) + Len(ListedIn(e))
           /\ Lines(e)[1] = ModeLine(e.mode)
           /\ \A i \in 1..Len(e.rules) : Lines(e)[1 + i] = RuleLine(e.rules[i])
           /\ \A i \in 1..Len(ListedIn(e)) : Lines(e)[1 + Len(e.rules) + i] =
                  CategoryLine(ListedIn(e)[i], e.overrides[ListedIn(e)[i]])
<1> DEFINE m == Len(e.rules)
           c == Len(ListedIn(e))
           a == <<ModeLine(e.mode)>>
           r == [i \in DOMAIN e.rules |-> RuleLine(e.rules[i])]
           o == [i \in DOMAIN ListedIn(e) |->
                    CategoryLine(ListedIn(e)[i], e.overrides[ListedIn(e)[i]])]
<1>1. /\ m \in Nat /\ c \in Nat
      /\ DOMAIN e.rules = 1..m /\ DOMAIN ListedIn(e) = 1..c
  BY EngineShape, OverriddenFacts, LenProperties
<1>2. a \in Seq(Line) /\ Len(a) = 1 /\ a[1] = ModeLine(e.mode)
  <2>1. ModeLine(e.mode) \in Line
    BY EngineShape DEF ModeLine, Line
  <2> QED BY <2>1
<1>3. r \in Seq(Line) /\ Len(r) = m /\ \A i \in 1..m : r[i] = RuleLine(e.rules[i])
  <2>1. \A i \in 1..m : RuleLine(e.rules[i]) \in Line
    BY <1>1, EngineShape, RuleLineFits
  <2> QED BY <1>1, <2>1
<1>4. /\ o \in Seq(Line) /\ Len(o) = c
      /\ \A i \in 1..c : o[i] = CategoryLine(ListedIn(e)[i], e.overrides[ListedIn(e)[i]])
  <2>1. \A i \in 1..c : CategoryLine(ListedIn(e)[i], e.overrides[ListedIn(e)[i]]) \in Line
    BY OverriddenFacts DEF CategoryLine, Line, Override
  <2> QED BY <1>1, <2>1
<1>5. Lines(e) = (a \o r) \o o
  BY DEF Lines, ListedIn, OverriddenIn
<1> HIDE DEF m, c, a, r, o
<1> DEFINE ar == a \o r
<1>6. /\ ar \in Seq(Line) /\ Len(ar) = 1 + m /\ ar[1] = ModeLine(e.mode)
      /\ \A i \in 1..m : ar[1 + i] = RuleLine(e.rules[i])
  <2>1. /\ ar \in Seq(Line) /\ Len(ar) = Len(a) + Len(r)
        /\ \A i \in 1..(Len(a) + Len(r)) :
             ar[i] = IF i <= Len(a) THEN a[i] ELSE r[i - Len(a)]
    BY <1>2, <1>3, ConcatProperties
  <2> HIDE DEF ar
  <2>2. \A i \in 1..m : 1 + i \in 1..(1 + m) /\ ~ (1 + i <= 1) /\ (1 + i) - 1 = i
    BY <1>1
  <2>3. 1 \in 1..(1 + m)
    BY <1>1
  <2> QED BY <1>1, <1>2, <1>3, <2>1, <2>2, <2>3
<1> HIDE DEF ar
<1>7. /\ ar \o o \in Seq(Line) /\ Len(ar \o o) = 1 + m + c
      /\ \A i \in 1..(1 + m + c) :
           (ar \o o)[i] = IF i <= 1 + m THEN ar[i] ELSE o[i - (1 + m)]
  <2>1. /\ ar \o o \in Seq(Line) /\ Len(ar \o o) = Len(ar) + Len(o)
        /\ \A i \in 1..(Len(ar) + Len(o)) :
             (ar \o o)[i] = IF i <= Len(ar) THEN ar[i] ELSE o[i - Len(ar)]
    BY <1>4, <1>6, ConcatProperties
  <2> QED BY <1>4, <1>6, <2>1
<1> DEFINE all == ar \o o
<1> HIDE DEF all
<1>8. all[1] = ModeLine(e.mode)
  <2>1. 1 \in 1..(1 + m + c) /\ 1 <= 1 + m
    BY <1>1
  <2> QED BY <1>6, <1>7, <2>1 DEF all
<1>9. \A i \in 1..m : all[1 + i] = RuleLine(e.rules[i])
  <2>1. \A i \in 1..m : 1 + i \in 1..(1 + m + c) /\ 1 + i <= 1 + m
    BY <1>1
  <2> QED BY <1>6, <1>7, <2>1 DEF all
<1>10. \A i \in 1..c : all[1 + m + i] =
          CategoryLine(ListedIn(e)[i], e.overrides[ListedIn(e)[i]])
  <2>1. \A i \in 1..c : /\ 1 + m + i \in 1..(1 + m + c)
                        /\ ~ (1 + m + i <= 1 + m) /\ (1 + m + i) - (1 + m) = i
    BY <1>1
  <2>2. \A i \in 1..c : all[1 + m + i] = o[i]
    BY <1>7, <2>1 DEF all
  <2> QED BY <1>4, <2>2
<1>11. Lines(e) = all
  BY <1>5 DEF all, ar
<1> QED BY <1>7, <1>8, <1>9, <1>10, <1>11 DEF m, c, all

\* The engine after the mode line and k rules, and after k categories more.
WithSomeRules(e, k) ==
    [rules |-> SubSeq(e.rules, 1, k), mode |-> e.mode,
     overrides |-> [x \in Category |-> "default"],
     compiled |-> PatternsOf(SubSeq(e.rules, 1, k))]
WithSomeOverrides(e, k) ==
    [rules |-> e.rules, mode |-> e.mode,
     overrides |-> [x \in Category |->
         IF \E i \in 1..k : ListedIn(e)[i] = x THEN e.overrides[x] ELSE "default"],
     compiled |-> e.compiled]

LEMMA ModeLineLoaded ==
    ASSUME NEW e \in Engine
    PROVE  LoadLine(NewEngine, ModeLine(e.mode)) = WithSomeRules(e, 0)
<1>1. SubSeq(e.rules, 1, 0) = <<>>
  BY SubSeqEmpty
<1>2. LoadLine(NewEngine, ModeLine(e.mode)) = SetMode(NewEngine, e.mode)
  BY DEF LoadLine, ModeLine
<1> QED BY <1>1, <1>2, EmptyListSound DEF SetMode, NewEngine, WithSomeRules

LEMMA RuleLineLoaded ==
    ASSUME NEW e, Sound(e), AllVerbatim(e), NEW k \in Nat, k < Len(e.rules)
    PROVE  LoadLine(WithSomeRules(e, k), RuleLine(e.rules[k + 1])) = WithSomeRules(e, k + 1)
<1> DEFINE m == Len(e.rules)
           rule == e.rules[k + 1]
           some == SubSeq(e.rules, 1, k)
           more == SubSeq(e.rules, 1, k + 1)
           x == WithSomeRules(e, k)
<1>1. /\ e \in Engine /\ e.rules \in Seq(Rule) /\ m \in Nat /\ DOMAIN e.rules = 1..m
      /\ \A i, j \in 1..m : e.rules[i] = e.rules[j] => i = j
  BY EngineShape DEF Sound, NoneTwice
<1>2. k + 1 \in 1..m /\ rule = [text |-> rule.text, kind |-> rule.kind]
  BY <1>1, EngineShape, RuleShape
<1>3. /\ some \in Seq(Rule) /\ Len(some) = k /\ DOMAIN some = 1..k
      /\ \A i \in 1..k : some[i] = e.rules[i]
      /\ Append(some, rule) = more
  BY <1>1, BeginningGrows
<1>4. rule \in Rule
  BY <1>1, <1>2, EngineShape
<1> HIDE DEF some, more
<1>5. ~Contains(some, rule)
  <2>1. \A i \in 1..k : i \in 1..m /\ i # k + 1
    BY <1>1
  <2> QED BY <1>1, <1>2, <1>3, <2>1 DEF Contains
<1>6. PatternsOf(more) = PatternsOf(some) \cup {rule.text.pattern}
  <2>1. /\ DOMAIN more = 1..(k + 1) /\ more[k + 1] = rule
        /\ \A i \in 1..k : more[i] = some[i]
    <3> HIDE DEF rule
    <3>1. /\ Append(some, rule) \in Seq(Rule) /\ Len(Append(some, rule)) = k + 1
          /\ \A i \in 1..k : Append(some, rule)[i] = some[i]
          /\ Append(some, rule)[k + 1] = rule
      BY <1>3, <1>4, AppendProperties
    <3> QED BY <1>3, <3>1, LenProperties
  <2> HIDE DEF rule
  <2>2. \A i \in 1..(k + 1) : i \in 1..k \/ i = k + 1
    OBVIOUS
  <2>3. \A i \in 1..k : i \in 1..(k + 1)
    OBVIOUS
  <2>4. k + 1 \in 1..(k + 1)
    OBVIOUS
  <2> QED BY <1>3, <2>1, <2>2, <2>3, <2>4 DEF PatternsOf
<1>7. LoadLine(x, RuleLine(rule)) = AddRule(x, rule.text, rule.kind)
  <2>1. Verbatim(rule.text)
    BY <1>1, <1>2 DEF AllVerbatim
  <2> HIDE DEF rule
  <2>2. RuleLine(rule) = [about |-> "rule", rule |-> rule, commented |-> FALSE]
    BY <1>4, <2>1, RuleLineFits
  <2> HIDE DEF x
  <2> QED BY <2>2 DEF LoadLine
<1>8. x.rules = some /\ x.compiled = PatternsOf(some)
  BY DEF WithSomeRules, some
<1>9. AddRule(x, rule.text, rule.kind)
        = WithRules(x, Append(some, rule), PatternsOf(some) \cup {rule.text.pattern})
  <2> HIDE DEF x, rule
  <2> QED BY <1>2, <1>5, <1>8 DEF AddRule
<1>10. WithRules(x, more, PatternsOf(more)) = WithSomeRules(e, k + 1)
  <2> DEFINE y == WithRules(x, more, PatternsOf(more))
  <2>1. more \in Seq(Rule)
    BY <1>3, <1>4, AppendProperties
  <2>2. PatternsOf(some) \in SUBSET Pattern /\ PatternsOf(more) \in SUBSET Pattern
    <3>1. \A i \in DOMAIN some : some[i] \in Rule
      BY <1>3, ElementOfSeq
    <3>2. \A i \in DOMAIN more : more[i] \in Rule
      BY <2>1, LenProperties, ElementOfSeq
    <3> QED BY <3>1, <3>2, RuleShape DEF PatternsOf
  <2>3. x \in Engine /\ x.mode = e.mode /\ x.overrides = [c \in Category |-> "default"]
    BY <1>1, <1>3, <2>2 DEF WithSomeRules, Engine, Override, some
  <2> HIDE DEF x
  <2>4. /\ y \in Engine /\ y.rules = more /\ y.compiled = PatternsOf(more)
        /\ y.mode = x.mode /\ y.overrides = x.overrides
    BY <2>1, <2>2, <2>3 DEF WithRules, Engine
  <2> HIDE DEF y
  <2>5. y = [rules |-> more, mode |-> e.mode,
             overrides |-> [c \in Category |-> "default"], compiled |-> PatternsOf(more)]
    BY <2>3, <2>4, EngineShape
  <2> QED BY <2>5 DEF WithSomeRules, more, y
<1> QED BY <1>3, <1>6, <1>7, <1>9, <1>10

LEMMA CategoryLineLoaded ==
    ASSUME NEW e \in Engine, NEW k \in Nat, k < Len(ListedIn(e))
    PROVE  LoadLine(WithSomeOverrides(e, k),
                    CategoryLine(ListedIn(e)[k + 1], e.overrides[ListedIn(e)[k + 1]]))
             = WithSomeOverrides(e, k + 1)
<1> DEFINE cat == ListedIn(e)[k + 1]
           x == WithSomeOverrides(e, k)
           Given(n) == [c \in Category |->
               IF \E i \in 1..n : ListedIn(e)[i] = c THEN e.overrides[c] ELSE "default"]
<1>1. cat \in Category
  BY OverriddenFacts
<1>2. LoadLine(x, CategoryLine(cat, e.overrides[cat]))
        = OverrideCategory(x, cat, e.overrides[cat])
  BY DEF LoadLine, CategoryLine
<1>3. [Given(k) EXCEPT ![cat] = e.overrides[cat]] = Given(k + 1)
  <2>1. \A i \in 1..(k + 1) : i \in 1..k \/ i = k + 1
    OBVIOUS
  <2>2. k + 1 \in 1..(k + 1) /\ \A i \in 1..k : i \in 1..(k + 1)
    OBVIOUS
  <2>3. \A c \in Category :
          (\E i \in 1..(k + 1) : ListedIn(e)[i] = c)
             <=> (c = cat \/ \E i \in 1..k : ListedIn(e)[i] = c)
    BY <2>1, <2>2
  <2> QED BY <1>1, <2>3
<1>4. x = [rules |-> e.rules, mode |-> e.mode, overrides |-> Given(k), compiled |-> e.compiled]
  BY DEF WithSomeOverrides
<1>5. WithSomeOverrides(e, k + 1) =
        [rules |-> e.rules, mode |-> e.mode, overrides |-> Given(k + 1), compiled |-> e.compiled]
  BY DEF WithSomeOverrides
<1> HIDE DEF Given, x, cat
<1>6. OverrideCategory(x, cat, e.overrides[cat]) =
        [rules |-> e.rules, mode |-> e.mode,
         overrides |-> [Given(k) EXCEPT ![cat] = e.overrides[cat]], compiled |-> e.compiled]
  BY <1>4 DEF OverrideCategory
<1> QED BY <1>2, <1>3, <1>5, <1>6 DEF x, cat

\* A restart loads exactly the engine that was saved, if the file kept its texts.
LEMMA LoadOfLines ==
    ASSUME NEW e, Sound(e), AllVerbatim(e)
    PROVE  Load(Lines(e)) = e
<1> DEFINE m == Len(e.rules)
           c == Len(ListedIn(e))
           n == Len(Lines(e))
<1>1. e \in Engine /\ m \in Nat /\ c \in Nat /\ n = 1 + m + c
  BY EngineShape, OverriddenFacts, LinesFacts DEF Sound
<1>2. PICK after \in [0..n -> SoundEngines] :
        /\ after[0] = NewEngine
        /\ \A k \in Nat : k < n => after[k + 1] = LoadLine(after[k], Lines(e)[k + 1])
        /\ Load(Lines(e)) = after[n]
  BY <1>1, LinesFacts, LoadIterates
<1>3. after[1] = WithSomeRules(e, 0)
  <2>1. 0 < n /\ 0 + 1 = 1
    BY <1>1
  <2> QED BY <1>1, <1>2, <2>1, LinesFacts, ModeLineLoaded
<1>4. after[1 + m] = WithSomeRules(e, m)
  <2> DEFINE reached == {k \in 0..m : after[1 + k] = WithSomeRules(e, k)}
  <2>1. 0 \in reached
    BY <1>1, <1>3
  <2>2. ASSUME NEW k \in Nat, k < m, k \in reached
        PROVE  k + 1 \in reached
    <3>1. /\ k + 1 \in 0..m /\ k + 1 \in 1..m /\ 1 + k \in Nat /\ 1 + k < n
          /\ (1 + k) + 1 = 1 + (k + 1)
      BY <1>1, <2>2
    <3>2. after[1 + (k + 1)] = LoadLine(after[1 + k], Lines(e)[1 + (k + 1)])
      BY <1>2, <3>1
    <3>3. Lines(e)[1 + (k + 1)] = RuleLine(e.rules[k + 1])
      BY <1>1, <3>1, LinesFacts
    <3>4. after[1 + (k + 1)] = WithSomeRules(e, k + 1)
      BY <2>2, <3>2, <3>3, RuleLineLoaded
    <3> QED BY <3>1, <3>4
  <2>3. \A k \in 0..m : k \in reached
    <3> HIDE DEF reached
    <3> QED BY <1>1, <2>1, <2>2, InductionTo
  <2>4. m \in 0..m
    BY <1>1
  <2> QED BY <2>3, <2>4
<1>5. WithSomeRules(e, m) = WithSomeOverrides(e, 0)
  <2>1. SubSeq(e.rules, 1, m) = e.rules /\ e.compiled = PatternsOf(e.rules)
    BY <1>1, EngineShape, SubSeqFull DEF Sound
  <2>2. ~ \E i \in 1..0 : TRUE
    OBVIOUS
  <2>3. [x \in Category |-> "default"] = [x \in Category |->
           IF \E i \in 1..0 : ListedIn(e)[i] = x THEN e.overrides[x] ELSE "default"]
    BY <2>2
  <2> QED BY <2>1, <2>3, SMTT(30), ZenonT(30) DEF WithSomeRules, WithSomeOverrides
<1>6. after[1 + m + c] = WithSomeOverrides(e, c)
  <2> DEFINE reached == {k \in 0..c : after[1 + m + k] = WithSomeOverrides(e, k)}
  <2>1. 0 \in reached
    <3>1. 1 + m + 0 = 1 + m /\ 0 \in 0..c
      BY <1>1
    <3> QED BY <1>4, <1>5, <3>1
  <2>2. ASSUME NEW k \in Nat, k < c, k \in reached
        PROVE  k + 1 \in reached
    <3>1. /\ k + 1 \in 0..c /\ k + 1 \in 1..c /\ 1 + m + k \in Nat /\ 1 + m + k < n
          /\ (1 + m + k) + 1 = 1 + m + (k + 1)
      <4>1. k < c
        BY <2>2
      <4> HIDE DEF m, c, n, reached
      <4> QED BY <1>1, <4>1
    <3>2. after[1 + m + (k + 1)] = LoadLine(after[1 + m + k], Lines(e)[1 + m + (k + 1)])
      BY <1>2, <3>1
    <3>3. Lines(e)[1 + m + (k + 1)]
            = CategoryLine(ListedIn(e)[k + 1], e.overrides[ListedIn(e)[k + 1]])
      BY <1>1, <3>1, LinesFacts
    <3>4. after[1 + m + (k + 1)] = WithSomeOverrides(e, k + 1)
      BY <1>1, <2>2, <3>2, <3>3, CategoryLineLoaded
    <3> QED BY <3>1, <3>4
  <2>3. \A k \in 0..c : k \in reached
    <3> HIDE DEF reached
    <3> QED BY <1>1, <2>1, <2>2, InductionTo
  <2>4. c \in 0..c
    BY <1>1
  <2> QED BY <2>3, <2>4
<1>7. WithSomeOverrides(e, c) = e
  <2>1. e.overrides = [x \in Category |->
          IF \E i \in 1..c : ListedIn(e)[i] = x THEN e.overrides[x] ELSE "default"]
    BY <1>1, OverriddenFacts, EngineShape
  <2> QED BY <1>1, <2>1, EngineShape DEF WithSomeOverrides
<1> QED BY <1>1, <1>2, <1>6, <1>7
----------------------------------------------------------------------------
(* The console *)

\* The engine is sound, the classifier has its overrides, and the file, when it
\* is what the last save or load left and kept every text, loads as the engine.
RulesInv ==
    /\ TypeOK
    /\ Sound(engine)
    /\ overrides = engine.overrides
    /\ saved /\ AllVerbatim(engine) => Load(file) = engine

LEMMA LoadOfNothing == Load(<<>>) = NewEngine
<1>1. <<>> \in Seq(Line) /\ Len(<<>>) = 0
  BY EmptySeq
<1> QED BY <1>1, LoadIterates

LEMMA RulesInvInit == Init => RulesInv
<1> SUFFICES ASSUME Init PROVE RulesInv
  OBVIOUS
<1>1. engine = NewEngine /\ file = <<>> /\ overrides = engine.overrides
  BY DEF Init, NewEngine
<1>2. Sound(engine) /\ engine \in Engine /\ Load(file) = engine
  BY <1>1, NewEngineSound, LoadOfNothing DEF Sound
<1>3. file \in Seq(Line) /\ overrides \in [Category -> Override]
  BY <1>1, <1>2, EmptySeq, EngineShape
<1> QED BY <1>1, <1>2, <1>3 DEF Init, RulesInv, TypeOK, Stage

\* A save writes the engine, or says that it did not.
LEMMA SaveKeeps ==
    ASSUME TypeOK, Save, Sound(engine')
    PROVE  /\ file' \in Seq(Line) /\ saved' \in BOOLEAN
           /\ saved' /\ AllVerbatim(engine') => Load(file') = engine'
<1>1. engine' \in Engine
  BY DEF Sound
<1>2. Lines(engine') \in Seq(Line)
  BY <1>1, LinesFacts
<1>3. CASE file' = Lines(engine') /\ saved' = TRUE
  BY <1>2, <1>3, LoadOfLines
<1>4. CASE file' = file /\ saved' = FALSE
  BY <1>4 DEF TypeOK
<1>5. CASE /\ \E n \in 0 .. Len(Lines(engine')) - 1 : file' = SubSeq(Lines(engine'), 1, n)
           /\ saved' = FALSE
  <2>1. PICK n \in 0 .. Len(Lines(engine')) - 1 : file' = SubSeq(Lines(engine'), 1, n)
    BY <1>5
  <2>2. n \in Nat /\ n < Len(Lines(engine'))
    BY <1>2, LenProperties
  <2>3. file' \in Seq(Line)
    BY <1>2, <2>1, <2>2, BeginningGrows
  <2> QED BY <1>5, <2>3
<1> QED BY <1>3, <1>4, <1>5 DEF Save

\* What a command does that leaves the overrides alone.
LEMMA ChangeKeeps ==
    ASSUME RulesInv, NEW e, Sound(e), e.overrides = engine.overrides,
           Change(e), overrides' = overrides, stage' \in [Conn -> Stage]
    PROVE  RulesInv'
<1>1. engine' = e /\ engine' \in Engine /\ Sound(engine')
  BY DEF Change, Sound
<1>2. /\ file' \in Seq(Line) /\ saved' \in BOOLEAN
      /\ saved' /\ AllVerbatim(engine') => Load(file') = engine'
  BY <1>1, SaveKeeps DEF RulesInv, Change
<1>3. overrides' = engine'.overrides /\ overrides' \in [Category -> Override]
  BY <1>1 DEF RulesInv, TypeOK
<1> QED BY <1>1, <1>2, <1>3 DEF RulesInv, TypeOK

\* What a step does that touches only the connections.
LEMMA StageKeeps ==
    ASSUME RulesInv, UNCHANGED <<engine, overrides, file, saved>>,
           stage' \in [Conn -> Stage]
    PROVE  RulesInv'
BY DEF RulesInv, TypeOK

LEMMA HostTextFits ==
    ASSUME NEW c \in Conn
    PROVE  HostText(RequestOf[c].host) \in Text
BY InputAssumption, PatternAssumption, PortAssumption DEF HostText, Text, Request

\* What the keys D and A make of an engine.
LEMMA PinnedSound ==
    ASSUME NEW e, Sound(e), NEW c \in Conn, NEW kind \in Kind
    PROVE  /\ Sound(Pinned(e, RequestOf[c].host, kind))
           /\ Pinned(e, RequestOf[c].host, kind).overrides = e.overrides
<1> DEFINE text == HostText(RequestOf[c].host)
           without == RemoveRule(e, text)
<1>1. text \in Text
  BY HostTextFits
<1>2. Sound(without) /\ without.overrides = e.overrides
  BY RemoveRuleSound
<1>3. \/ Pinned(e, RequestOf[c].host, kind) = PrependRule(without, text, kind)
      \/ Pinned(e, RequestOf[c].host, kind) = PrependRule(e, text, kind)
  BY DEF Pinned
<1> HIDE DEF without, text
<1>4. /\ Sound(PrependRule(without, text, kind))
      /\ PrependRule(without, text, kind).overrides = without.overrides
  BY <1>1, <1>2, PrependRuleSound
<1>5. Sound(PrependRule(e, text, kind)) /\ PrependRule(e, text, kind).overrides = e.overrides
  BY <1>1, PrependRuleSound
<1> QED BY <1>2, <1>3, <1>4, <1>5, Zenon

\* Every step keeps the invariant: the commands and keys by what they make of
\* the engine, the file by what it loads as.
LEMMA RulesInvStep ==
    ASSUME RulesInv, [Next]_vars
    PROVE  RulesInv'
<1>0. Sound(engine) /\ engine \in Engine /\ stage \in [Conn -> Stage]
  BY DEF RulesInv, TypeOK
<1>1. ASSUME NEW text \in Typed, NEW kind \in Kind, CmdRule(text, kind)
      PROVE  RulesInv'
  <2>1. text \in Text
    BY InputAssumption
  <2>2. /\ Sound(AddRule(engine, text, kind))
        /\ AddRule(engine, text, kind).overrides = engine.overrides
    BY <1>0, <2>1, AddRuleSound
  <2> QED BY <1>0, <1>1, <2>2, ChangeKeeps DEF CmdRule
<1>2. ASSUME NEW text, CmdRemove(text)
      PROVE  RulesInv'
  <2>1. /\ Sound(RemoveRule(engine, text))
        /\ RemoveRule(engine, text).overrides = engine.overrides
    BY <1>0, RemoveRuleSound
  <2> QED BY <1>0, <1>2, <2>1, ChangeKeeps DEF CmdRemove
<1>3. ASSUME NEW mode \in Mode, CmdMode(mode)
      PROVE  RulesInv'
  <2>1. /\ Sound(SetMode(engine, mode))
        /\ SetMode(engine, mode).overrides = engine.overrides
    BY <1>0, SetModeSound
  <2> QED BY <1>0, <1>3, <2>1, ChangeKeeps DEF CmdMode
<1>4. ASSUME NEW k \in Category, NEW o \in Override, CmdCategory(k, o)
      PROVE  RulesInv'
  <2> DEFINE e == OverrideCategory(engine, k, o)
  <2>1. Sound(e) /\ e.overrides = [engine.overrides EXCEPT ![k] = o]
    BY <1>0, OverrideSound
  <2>2. engine' = e /\ Save /\ overrides' = [overrides EXCEPT ![k] = o] /\ stage' = stage
    BY <1>4 DEF CmdCategory, Change
  <2> HIDE DEF e
  <2>3. Sound(engine') /\ engine' \in Engine
    BY <2>1, <2>2 DEF Sound
  <2>4. /\ file' \in Seq(Line) /\ saved' \in BOOLEAN
        /\ saved' /\ AllVerbatim(engine') => Load(file') = engine'
    BY <2>2, <2>3, SaveKeeps DEF RulesInv
  <2>5. overrides' = engine'.overrides
    BY <2>1, <2>2 DEF RulesInv
  <2>6. overrides' \in [Category -> Override]
    BY <2>3, <2>5, EngineShape
  <2> QED BY <1>0, <2>2, <2>3, <2>4, <2>5, <2>6 DEF RulesInv, TypeOK
<1>5. ASSUME NEW kind \in Kind, CmdClear(kind)
      PROVE  RulesInv'
  <2>1. /\ Sound(ClearKind(engine, kind))
        /\ ClearKind(engine, kind).overrides = engine.overrides
    BY <1>0, ClearKindSound
  <2> QED BY <1>0, <1>5, <2>1, ChangeKeeps DEF CmdClear
<1>6. ASSUME CmdClearAll
      PROVE  RulesInv'
  <2>1. /\ Sound(ClearRules(engine))
        /\ ClearRules(engine).overrides = engine.overrides
    BY <1>0, ClearRulesSound
  <2> QED BY <1>0, <1>6, <2>1, ChangeKeeps DEF CmdClearAll
<1>7. ASSUME Reload
      PROVE  RulesInv'
  <2>1. /\ engine' = Load(file) /\ overrides' = engine'.overrides /\ saved' = TRUE
        /\ file' = file /\ stage' = stage
    BY <1>7 DEF Reload
  <2>2. file \in Seq(Line)
    BY DEF RulesInv, TypeOK
  <2>3. Sound(engine') /\ engine' \in Engine
    BY <2>1, <2>2, LoadSound DEF Sound
  <2>4. overrides' \in [Category -> Override]
    BY <2>1, <2>3, EngineShape
  <2> QED BY <1>0, <2>1, <2>2, <2>3, <2>4 DEF RulesInv, TypeOK
<1>8. ASSUME ReloadFails
      PROVE  RulesInv'
  <2>1. /\ engine' = NewEngine /\ overrides' = engine'.overrides /\ saved' = FALSE
        /\ file' = file /\ stage' = stage
    BY <1>8 DEF ReloadFails
  <2>2. Sound(engine') /\ engine' \in Engine
    BY <2>1, NewEngineSound DEF Sound
  <2>3. overrides' \in [Category -> Override]
    BY <2>1, <2>2, EngineShape
  <2> QED BY <1>0, <2>1, <2>2, <2>3 DEF RulesInv, TypeOK
<1>9. ASSUME EditFile
      PROVE  RulesInv'
  <2>1. file' \in Seq(Line)
    BY <1>9, InputAssumption DEF EditFile
  <2> QED BY <1>9, <2>1 DEF EditFile, RulesInv, TypeOK
<1>10. ASSUME NEW c \in Conn, Admit(c) \/ TunnelOpens(c) \/ Ends(c)
       PROVE  RulesInv'
  <2>1. UNCHANGED <<engine, overrides, file, saved>> /\ stage' \in [Conn -> Stage]
    BY <1>0, <1>10 DEF Admit, TunnelOpens, Ends, Stage
  <2> QED BY <2>1, StageKeeps
<1>11. ASSUME NEW c \in Conn, KeyDeny(c)
       PROVE  RulesInv'
  <2> DEFINE h == RequestOf[c].host
  <2>1. CASE AlreadyPinned(engine, h, "deny")
    <3>1. UNCHANGED <<engine, overrides, file, saved>> /\ stage' \in [Conn -> Stage]
      BY <1>0, <1>11, <2>1 DEF KeyDeny
    <3> QED BY <3>1, StageKeeps
  <2>2. CASE ~AlreadyPinned(engine, h, "deny")
    <3>1. Change(Pinned(engine, h, "deny")) /\ overrides' = overrides /\ Killed(c)
      BY <1>11, <2>2 DEF KeyDeny
    <3>2. stage' \in [Conn -> Stage]
      BY <1>0, <3>1 DEF Killed, Stage
    <3>3. /\ Sound(Pinned(engine, h, "deny"))
          /\ Pinned(engine, h, "deny").overrides = engine.overrides
      BY <1>0, PinnedSound DEF Kind
    <3> QED BY <3>1, <3>2, <3>3, ChangeKeeps
  <2> QED BY <2>1, <2>2
<1>12. ASSUME NEW c \in Conn, KeyAllow(c)
       PROVE  RulesInv'
  <2> DEFINE h == RequestOf[c].host
  <2>1. /\ Change(Pinned(engine, h, "allow")) /\ overrides' = overrides
        /\ stage' \in [Conn -> Stage]
    BY <1>0, <1>12 DEF KeyAllow
  <2>2. /\ Sound(Pinned(engine, h, "allow"))
        /\ Pinned(engine, h, "allow").overrides = engine.overrides
    BY <1>0, PinnedSound DEF Kind
  <2> QED BY <2>1, <2>2, ChangeKeeps
<1>13. ASSUME NEW c \in Conn, KeyRemove(c)
       PROVE  RulesInv'
  BY <1>2, <1>13 DEF KeyRemove
<1>14. ASSUME UNCHANGED vars
       PROVE  RulesInv'
  BY <1>14 DEF vars, RulesInv, TypeOK
<1> QED
  BY <1>1, <1>2, <1>3, <1>4, <1>5, <1>6, <1>7, <1>8, <1>9, <1>10, <1>11, <1>12, <1>13, <1>14
  DEF Next

\* The rules, their caches and their file agree in every state, whatever is
\* typed, saved, lost, edited and reloaded.
THEOREM RulesInvariant == Spec => []RulesInv
BY RulesInvInit, RulesInvStep, PTL DEF Spec

\* Whichever of the ways in a rule took, and however often, it is listed once.
THEOREM NoRuleTwiceProved == Spec => []NoRuleTwice
<1>1. RulesInv => NoRuleTwice
  BY DEF RulesInv, Sound, NoneTwice, NoRuleTwice
<1> QED BY <1>1, RulesInvariant, PTL

\* The patterns that are compiled are those that are listed, no more and no fewer.
THEOREM CompiledFollowsRulesProved == Spec => []CompiledFollowsRules
<1>1. RulesInv => CompiledFollowsRules
  BY DEF RulesInv, Sound, PatternsOf, CompiledFollowsRules
<1> QED BY <1>1, RulesInvariant, PTL

\* The overrides the classifier decides by are those the engine saves.
THEOREM OverridesMirroredProved == Spec => []OverridesMirrored
<1>1. RulesInv => OverridesMirrored
  BY DEF RulesInv, OverridesMirrored
<1> QED BY <1>1, RulesInvariant, PTL

\* A restart after a save that succeeded decides every request as before, if no
\* listed text begins with "@" or holds a newline: what is saved loads as the engine
\* that was saved.
THEOREM RestartDecidesTheSameProved == Spec => []RestartDecidesTheSame
<1>1. RulesInv => RestartDecidesTheSame
  BY DEF RulesInv, RestartDecidesTheSame, DecidedAfterRestart, Decided
<1> QED BY <1>1, RulesInvariant, PTL
=============================================================================
