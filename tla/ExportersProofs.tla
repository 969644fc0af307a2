-------------------------- MODULE ExportersProofs --------------------------
(***************************************************************************)
(* The exported files against the decision of the proxy, for every set of  *)
(* hosts and patterns, every way a pattern may match, and lists of rules   *)
(* and categories of any length.  How fnmatch and the readers match is left *)
(* as it is: nothing here looks inside it.                                  *)
(***************************************************************************)
EXTENDS Exporters, SequenceFacts

Entry == [pattern : CatPattern, category : DataCategory]
Drawn(list, known) ==
    \A i \in DOMAIN list : \E j \in DOMAIN known : known[j] = list[i]

\* Nothing is looked up that was not defined.
ClassifierKnows ==
    /\ defined \in Seq(Entry) /\ fallback \in Seq(Entry)
    /\ Drawn(fallback, defined)
    /\ \A k \in DOMAIN index : index[k] \in Seq(Entry) /\ Drawn(index[k], defined)

ExportsInv == engine \in Engine /\ ClassifierKnows

----------------------------------------------------------------------------
(* The engine *)

LEMMA EngineParts ==
    ASSUME NEW e \in Engine
    PROVE  /\ e.rules \in Seq(Rule) /\ e.mode \in Mode
           /\ e.overrides \in [Category -> Override]
           /\ Len(e.rules) \in Nat /\ DOMAIN e.rules = 1 .. Len(e.rules)
           /\ \A i \in 1 .. Len(e.rules) : e.rules[i] \in Rule
<1>1. e.rules \in Seq(Rule)
  BY DEF Engine
<1>2. \A i \in 1 .. Len(e.rules) : e.rules[i] \in Rule
  BY <1>1, ElementOfSeq
<1> QED BY <1>1, <1>2, LenProperties DEF Engine

LEMMA NewEngineTyped == NewEngine \in Engine
BY EmptySeq DEF NewEngine, Engine, Mode, Override

LEMMA WithRulesTyped ==
    ASSUME NEW e \in Engine, NEW rules \in Seq(Rule), NEW compiled \in SUBSET Pattern
    PROVE  WithRules(e, rules, compiled) \in Engine
BY DEF Engine, WithRules

\* The commands about rules leave an engine.
LEMMA RuleCommandsTyped ==
    ASSUME NEW e \in Engine, NEW text \in Text, NEW kind \in Kind
    PROVE  AddRule(e, text, kind) \in Engine /\ PrependRule(e, text, kind) \in Engine
<1> DEFINE rule == [text |-> text, kind |-> kind]
           compiled == e.compiled \cup {text.pattern}
           last == Append(e.rules, rule)
           one == <<rule>>
           first == one \o e.rules
<1>1. rule \in Rule /\ compiled \in SUBSET Pattern /\ e.rules \in Seq(Rule)
  BY DEF Rule, Text, Engine
<1>2. last \in Seq(Rule)
  BY <1>1, AppendProperties
<1>3. one \in Seq(Rule)
  BY <1>1
<1>4. first \in Seq(Rule)
  BY <1>1, <1>3, ConcatParts
<1>5. /\ AddRule(e, text, kind) = IF Contains(e.rules, rule) THEN e ELSE WithRules(e, last, compiled)
      /\ PrependRule(e, text, kind) = IF Contains(e.rules, rule) THEN e ELSE WithRules(e, first, compiled)
  BY DEF AddRule, PrependRule
<1> HIDE DEF last, first, compiled, rule
<1> QED BY <1>1, <1>2, <1>4, <1>5, WithRulesTyped

LEMMA RemoveRuleTyped ==
    ASSUME NEW e \in Engine, NEW text \in Text
    PROVE  RemoveRule(e, text) \in Engine
<1> DEFINE n == Len(e.rules)
           about == {i \in 1 .. n : SameTarget(e.rules[i].text, text)}
           left == RemoveAt(e.rules, Min(about))
           used == \E i \in DOMAIN left : left[i].text.pattern = text.pattern
           kept == IF used THEN e.compiled ELSE e.compiled \ {text.pattern}
<1>1. /\ e.rules \in Seq(Rule) /\ n \in Nat /\ DOMAIN e.rules = 1 .. n
      /\ e.compiled \in SUBSET Pattern
  BY EngineParts DEF Engine
<1>2. CASE ~HasRule(e, text)
  <2>1. RemoveRule(e, text) = e
    BY <1>2 DEF RemoveRule
  <2> QED BY <2>1, Zenon
<1>3. CASE HasRule(e, text)
  <2>1. about \in SUBSET Nat /\ about # {}
    BY <1>1, <1>3 DEF HasRule
  <2>2. Min(about) \in 1 .. n
    <3>1. Min(about) \in about
      BY <2>1, MinFacts
    <3> QED BY <3>1
  <2>3. left \in Seq(Rule)
    BY <1>1, <2>2, RemoveAtFacts
  <2>4. RemoveFirstMatch(e.rules, LAMBDA r : SameTarget(r.text, text)) = left
    <3>1. \E i \in 1 .. n : SameTarget(e.rules[i].text, text)
      BY <2>1
    <3> QED BY <2>1, <3>1 DEF RemoveFirstMatch, SelectInSeq
  <2>5. RemoveRule(e, text) = WithRules(e, left, kept)
    BY <1>3, <2>4 DEF RemoveRule
  <2>6. kept \in SUBSET Pattern
    BY <1>1
  <2> HIDE DEF left, kept
  <2> QED BY <2>3, <2>5, <2>6, WithRulesTyped
<1> QED BY <1>2, <1>3

\* The first rule that matches a request, if there is one.
LEMMA FirstMatchFacts ==
    ASSUME NEW e \in Engine, NEW req
    PROVE  \/ /\ FirstMatch(e, req) = 0
              /\ \A i \in DOMAIN e.rules : ~ Matches(e.rules[i], req)
           \/ /\ FirstMatch(e, req) \in DOMAIN e.rules /\ FirstMatch(e, req) # 0
              /\ Matches(e.rules[FirstMatch(e, req)], req)
<1> DEFINE hits == {i \in 1 .. Len(e.rules) : Matches(e.rules[i], req)}
<1>1. FirstMatch(e, req) = IF hits # {} THEN Min(hits) ELSE 0
  BY DEF FirstMatch, SelectInSeq
<1>2. DOMAIN e.rules = 1 .. Len(e.rules) /\ hits \in SUBSET Nat
  BY EngineParts
<1>3. CASE hits = {}
  BY <1>1, <1>2, <1>3
<1>4. CASE hits # {}
  <2>1. Min(hits) \in hits
    BY <1>2, <1>4, MinFacts
  <2>2. Min(hits) \in 1 .. Len(e.rules) /\ Matches(e.rules[Min(hits)], req)
    BY <2>1
  <2> HIDE DEF hits
  <2>3. Min(hits) # 0
    BY <2>2
  <2> QED BY <1>1, <1>2, <1>4, <2>2, <2>3
<1> QED BY <1>3, <1>4

----------------------------------------------------------------------------
(* The classifier *)

LEMMA DefinedFacts ==
    ASSUME ClassifierKnows, NEW j \in DOMAIN defined
    PROVE  defined[j].pattern \in CatPattern /\ defined[j].category \in DataCategory
<1>1. defined \in Seq(Entry) /\ DOMAIN defined = 1 .. Len(defined)
  BY LenProperties DEF ClassifierKnows
<1>2. \A i \in 1 .. Len(defined) : defined[i] \in Entry
  BY <1>1, ElementOfSeq
<1> QED BY <1>1, <1>2 DEF Entry

LEMMA FirstOfFacts ==
    ASSUME NEW entries \in Seq(Entry), NEW host
    PROVE  \/ FirstOf(entries, host) = Unknown
           \/ \E i \in DOMAIN entries : /\ host \in Matched[entries[i].pattern]
                                        /\ FirstOf(entries, host) = entries[i].category
<1> DEFINE hits == {i \in 1 .. Len(entries) : host \in Matched[entries[i].pattern]}
           at == IF hits # {} THEN Min(hits) ELSE 0
<1>1. FirstOf(entries, host) = IF at = 0 THEN Unknown ELSE entries[at].category
  BY DEF FirstOf, SelectInSeq
<1>2. DOMAIN entries = 1 .. Len(entries) /\ hits \in SUBSET Nat
  BY LenProperties
<1>3. CASE hits = {}
  BY <1>1, <1>3
<1>4. CASE hits # {}
  <2>1. Min(hits) \in hits
    BY <1>2, <1>4, MinFacts
  <2> QED BY <1>1, <1>2, <1>4, <2>1
<1> QED BY <1>3, <1>4

\* A host has the category of a pattern that matches it, or none.
LEMMA ClassifyFacts ==
    ASSUME ClassifierKnows, NEW host
    PROVE  /\ Classify(host) \in Category
           /\ Classify(host) # Unknown =>
                \E j \in DOMAIN defined : /\ host \in Matched[defined[j].pattern]
                                          /\ defined[j].category = Classify(host)
<1> DEFINE Explains(k) ==
             k # Unknown =>
                \E j \in DOMAIN defined : /\ host \in Matched[defined[j].pattern]
                                          /\ defined[j].category = k
<1>1. ASSUME NEW entries \in Seq(Entry), Drawn(entries, defined)
      PROVE  Explains(FirstOf(entries, host))
  <2>1. CASE FirstOf(entries, host) = Unknown
    BY <2>1
  <2>2. CASE FirstOf(entries, host) # Unknown
    <3>1. PICK i \in DOMAIN entries : /\ host \in Matched[entries[i].pattern]
                                      /\ FirstOf(entries, host) = entries[i].category
      BY <2>2, FirstOfFacts
    <3>2. PICK j \in DOMAIN defined : defined[j] = entries[i]
      BY <1>1 DEF Drawn
    <3> QED BY <3>1, <3>2
  <2> QED BY <2>1, <2>2
<1>2. Explains(FirstOf(fallback, host))
  BY <1>1 DEF ClassifierKnows
<1>3. ASSUME NEW k
      PROVE  Explains(FirstOf(Bucket(k), host))
  <2>1. Bucket(k) \in Seq(Entry) /\ Drawn(Bucket(k), defined)
    <3>1. CASE k \in DOMAIN index
      BY <3>1 DEF Bucket, ClassifierKnows
    <3>2. CASE k \notin DOMAIN index
      <4>1. Bucket(k) = <<>> /\ DOMAIN <<>> = {} /\ <<>> \in Seq(Entry)
        BY <3>2, EmptySeq DEF Bucket
      <4> QED BY <4>1 DEF Drawn
    <3> QED BY <3>1, <3>2
  <2> QED BY <1>1, <2>1
<1>4. Explains(Classify(host))
  <2> HIDE DEF Explains
  <2>1. \/ Classify(host) = FirstOf(Bucket(KeyOf(host)), host)
        \/ Classify(host) = FirstOf(fallback, host)
    BY DEF Classify
  <2> QED BY <1>2, <1>3, <2>1
<1>5. \A j \in DOMAIN defined : defined[j].category \in DataCategory
  BY DefinedFacts
<1>6. Classify(host) \in Category
  BY <1>4, <1>5, NamesAssumption
<1> QED BY <1>4, <1>6

----------------------------------------------------------------------------
(* The invariant *)

LEMMA InvInit == Init => ExportsInv
<1> SUFFICES ASSUME Init PROVE ExportsInv
  OBVIOUS
<1>1. /\ defined = <<>> /\ fallback = <<>> /\ index = [k \in {} |-> <<>>]
      /\ engine = NewEngine
  BY DEF Init, ClassifierInit
<1>2. <<>> \in Seq(Entry) /\ DOMAIN <<>> = {} /\ DOMAIN index = {}
  BY <1>1, EmptySeq
<1>3. ClassifierKnows
  BY <1>1, <1>2 DEF ClassifierKnows, Drawn
<1> QED BY <1>1, <1>3, NewEngineTyped DEF ExportsInv

LEMMA CommandKeeps ==
    ASSUME ExportsInv, Command
    PROVE  ExportsInv'
<1>1. engine \in Engine /\ UNCHANGED <<defined, index, fallback>> /\ ClassifierKnows
  BY DEF ExportsInv, Command, classifierVars
<1>2. ClassifierKnows'
  BY <1>1 DEF ClassifierKnows
<1>3. ASSUME NEW text \in Typed, engine' = RemoveRule(engine, text)
      PROVE  engine' \in Engine
  BY <1>1, <1>3, RemoveRuleTyped, UrlAssumption
<1>4. ASSUME NEW text \in Typed, NEW kind \in Kind,
             engine' = AddRule(engine, text, kind) \/ engine' = PrependRule(engine, text, kind)
      PROVE  engine' \in Engine
  BY <1>1, <1>4, RuleCommandsTyped, UrlAssumption
<1>5. ASSUME NEW m \in Mode, engine' = SetMode(engine, m)
      PROVE  engine' \in Engine
  BY <1>1, <1>5 DEF SetMode, Engine
<1>6. ASSUME NEW k \in Category, NEW o \in Override, engine' = OverrideCategory(engine, k, o)
      PROVE  engine' \in Engine
  BY <1>1, <1>6 DEF OverrideCategory, Engine
<1>7. engine' \in Engine
  BY <1>3, <1>4, <1>5, <1>6 DEF Command
<1> QED BY <1>2, <1>7 DEF ExportsInv

LEMMA LoadKeeps ==
    ASSUME ExportsInv, NEW p \in CatPattern, NEW k \in DataCategory, LoadNext(p, k)
    PROVE  ExportsInv'
<1> DEFINE entry == [pattern |-> p, category |-> k]
           name == Root(p)
           key == KeyOf(name)
<1>1. /\ engine = NewEngine /\ engine' = engine
      /\ defined' = Append(defined, entry)
      /\ \/ index' = Indexed(entry, key) /\ fallback' = fallback
         \/ fallback' = Append(fallback, entry) /\ index' = index
  BY DEF LoadNext, LoadPattern
<1>2. entry \in Entry
  BY DEF Entry
<1> HIDE DEF entry, key
<1>3. defined \in Seq(Entry) /\ fallback \in Seq(Entry)
  BY DEF ExportsInv, ClassifierKnows
<1>4. \A list \in Seq(Entry) :
        /\ Append(list, entry) \in Seq(Entry)
        /\ DOMAIN list = 1 .. Len(list) /\ Len(list) \in Nat
        /\ DOMAIN Append(list, entry) = 1 .. (Len(list) + 1)
        /\ \A i \in 1 .. Len(list) : Append(list, entry)[i] = list[i]
        /\ Append(list, entry)[Len(list) + 1] = entry
  BY <1>2, AppendProperties, LenProperties
<1>5. ASSUME NEW list \in Seq(Entry), Drawn(list, defined)
      PROVE  Drawn(list, Append(defined, entry))
  <2>1. ASSUME NEW i \in DOMAIN list
        PROVE  \E j \in DOMAIN Append(defined, entry) : Append(defined, entry)[j] = list[i]
    <3>1. PICK j \in 1 .. Len(defined) : defined[j] = list[i]
      BY <1>3, <1>4, <1>5 DEF Drawn
    <3>2. j \in DOMAIN Append(defined, entry) /\ Append(defined, entry)[j] = list[i]
      BY <1>3, <1>4, <3>1
    <3> QED BY <3>2
  <2> QED BY <2>1 DEF Drawn
<1>6. \E j \in DOMAIN Append(defined, entry) : Append(defined, entry)[j] = entry
  <2>1. Len(defined) + 1 \in DOMAIN Append(defined, entry)
        /\ Append(defined, entry)[Len(defined) + 1] = entry
    BY <1>3, <1>4
  <2> QED BY <2>1
<1>7. ASSUME NEW list \in Seq(Entry), Drawn(list, defined)
      PROVE  /\ Append(list, entry) \in Seq(Entry)
             /\ Drawn(Append(list, entry), Append(defined, entry))
  <2>1. ASSUME NEW i \in DOMAIN Append(list, entry)
        PROVE  \/ i \in DOMAIN list /\ Append(list, entry)[i] = list[i]
               \/ Append(list, entry)[i] = entry
    <3>1. i \in 1 .. (Len(list) + 1) /\ Len(list) \in Nat
      BY <1>4
    <3>2. i \in 1 .. Len(list) \/ i = Len(list) + 1
      BY <3>1
    <3> QED BY <1>4, <3>2
  <2>2. Drawn(list, Append(defined, entry))
    BY <1>5, <1>7
  <2>3. Drawn(Append(list, entry), Append(defined, entry))
    BY <1>6, <2>1, <2>2 DEF Drawn
  <2> QED BY <1>4, <2>3
<1>8. defined' \in Seq(Entry)
  BY <1>1, <1>3, <1>4
<1>9. fallback' \in Seq(Entry) /\ Drawn(fallback', defined')
  <2>1. Drawn(fallback, defined)
    BY DEF ExportsInv, ClassifierKnows
  <2>2. CASE fallback' = fallback
    BY <1>1, <1>3, <1>5, <2>1, <2>2
  <2>3. CASE fallback' = Append(fallback, entry)
    BY <1>1, <1>3, <1>7, <2>1, <2>3
  <2> QED BY <1>1, <2>2, <2>3
<1>10. ASSUME NEW x \in DOMAIN index
       PROVE  index[x] \in Seq(Entry) /\ Drawn(index[x], defined)
  BY DEF ExportsInv, ClassifierKnows
<1>11. ASSUME NEW x, x \in DOMAIN index'
       PROVE  index'[x] \in Seq(Entry) /\ Drawn(index'[x], defined')
  <2>1. CASE index' = index
    BY <1>1, <1>5, <1>10, <1>11, <2>1
  <2>2. CASE index' = Indexed(entry, key)
    <3>1. /\ index' = [y \in DOMAIN index \cup {key} |->
                         IF y = key THEN Append(Bucket(key), entry) ELSE index[y]]
          /\ x \in DOMAIN index \cup {key}
      BY <1>11, <2>2 DEF Indexed
    <3>2. CASE x = key
      <4>1. Bucket(key) \in Seq(Entry) /\ Drawn(Bucket(key), defined)
        <5>1. CASE key \in DOMAIN index
          BY <1>10, <5>1 DEF Bucket
        <5>2. CASE key \notin DOMAIN index
          <6>1. Bucket(key) = <<>> /\ DOMAIN <<>> = {} /\ <<>> \in Seq(Entry)
            BY <5>2, EmptySeq DEF Bucket
          <6> QED BY <6>1 DEF Drawn
        <5> QED BY <5>1, <5>2
      <4>2. index'[x] = Append(Bucket(key), entry)
        BY <3>1, <3>2
      <4> QED BY <1>1, <1>7, <4>1, <4>2
    <3>3. CASE x # key
      <4>1. index'[x] = index[x] /\ x \in DOMAIN index
        BY <3>1, <3>3
      <4> QED BY <1>1, <1>5, <1>10, <4>1
    <3> QED BY <3>2, <3>3
  <2> QED BY <1>1, <2>1, <2>2
<1>12. ClassifierKnows'
  BY <1>8, <1>9, <1>11 DEF ClassifierKnows
<1> QED BY <1>1, <1>12, NewEngineTyped DEF ExportsInv

\* The lookup lists hold only what the data file defines.
LEMMA ExportsInvariant == Spec => []ExportsInv
<1>1. ExportsInv /\ UNCHANGED vars => ExportsInv'
  BY DEF ExportsInv, ClassifierKnows, vars, classifierVars
<1>2. ExportsInv /\ [Next]_vars => ExportsInv'
  BY <1>1, CommandKeeps, LoadKeeps DEF Next
<1> QED BY <1>2, InvInit, PTL DEF Spec

----------------------------------------------------------------------------
(* What the three files and the proxy decide, from the rules that match the *)
(* request and the override of its category.                                *)

HitOf(req, kind) == \E r \in Hits(req) : r.kind = kind

LEMMA RuleFacts ==
    ASSUME engine \in Engine, NEW j \in DOMAIN engine.rules
    PROVE  /\ engine.rules[j] \in Rule /\ engine.rules[j].text.pattern \in Pattern
           /\ engine.rules[j].kind \in Kind
           /\ engine.rules[j].text \in RuleTexts(engine.rules[j].kind)
           /\ engine.rules[j].text \in Texts
<1>1. engine.rules[j] \in Rule
  BY EngineParts
<1>2. engine.rules[j].text \in RuleTexts(engine.rules[j].kind)
  BY DEF RuleTexts
<1> QED BY <1>1, <1>2 DEF Rule, Text, Kind, Texts

LEMMA HitFacts ==
    ASSUME engine \in Engine, NEW req, NEW r \in Hits(req)
    PROVE  /\ r.kind \in Kind /\ r.text.pattern \in Pattern
           /\ r.text \in RuleTexts(r.kind) /\ r.text \in Texts /\ Matches(r, req)
<1>1. PICK j \in DOMAIN engine.rules : r = engine.rules[j] /\ Matches(r, req)
  BY DEF Hits
<1> QED BY <1>1, RuleFacts

\* A rule that matches decides, and else the category and the mode.
LEMMA DecidedBy ==
    ASSUME engine \in Engine, NEW req
    PROVE  \/ \E r \in Hits(req) : Decided(req) <=> r.kind = "allow"
           \/ /\ Hits(req) = {}
              /\ Decided(req) <=> \/ OverrideOf(req) = "allow"
                                  \/ OverrideOf(req) = "default" /\ engine.mode = "denylist"
<1> DEFINE i == FirstMatch(engine, req)
<1>1. CASE i = 0
  <2>1. Hits(req) = {}
    BY <1>1, FirstMatchFacts DEF Hits
  <2> QED BY <1>1, <2>1 DEF Decided, Allowed, OverrideOf
<1>2. CASE i # 0
  <2>1. i \in DOMAIN engine.rules /\ Matches(engine.rules[i], req)
    BY <1>2, FirstMatchFacts
  <2>2. engine.rules[i] \in Hits(req)
    BY <2>1 DEF Hits
  <2>3. Decided(req) <=> engine.rules[i].kind = "allow"
    BY <1>2 DEF Decided, Allowed
  <2> HIDE DEF i
  <2> QED BY <2>2, <2>3
<1> QED BY <1>1, <1>2

\* A file whose reader tests a text exactly as the proxy matches its rule finds
\* a text of a kind exactly if a rule of that kind matches.
LEMMA TextsAreHits ==
    ASSUME engine \in Engine, NEW req, NEW kind, NEW tested,
           \A r \in Rule : r.text \in Texts => (r.text \in tested <=> Matches(r, req))
    PROVE  (\E t \in RuleTexts(kind) : t \in tested) <=> HitOf(req, kind)
<1>1. ASSUME NEW t \in RuleTexts(kind), t \in tested
      PROVE  HitOf(req, kind)
  <2>1. PICK j \in DOMAIN engine.rules : engine.rules[j].kind = kind /\ engine.rules[j].text = t
    BY DEF RuleTexts
  <2>2. Matches(engine.rules[j], req)
    BY <1>1, <2>1, RuleFacts
  <2>3. engine.rules[j] \in Hits(req)
    BY <2>2 DEF Hits
  <2> QED BY <2>1, <2>3 DEF HitOf
<1>2. ASSUME NEW r \in Hits(req), r.kind = kind
      PROVE  \E t \in RuleTexts(kind) : t \in tested
  <2>1. r.text \in RuleTexts(kind) /\ r.text \in Texts /\ Matches(r, req)
    BY <1>2, HitFacts
  <2>2. r \in Rule
    BY RuleFacts DEF Hits
  <2> QED BY <2>1, <2>2
<1> QED BY <1>1, <1>2 DEF HitOf

LEMMA PacTestsHits ==
    ASSUME engine \in Engine, NEW req, PortsShown(req), NEW kind
    PROVE  (\E t \in RuleTexts(kind) : PacTests(t, req)) <=> HitOf(req, kind)
<1> DEFINE tested == {t \in RuleTexts(kind) \cup Texts : PacTests(t, req)}
<1>1. ASSUME NEW r \in Rule, r.text \in Texts
      PROVE  r.text \in tested <=> Matches(r, req)
  BY <1>1 DEF PortsShown, PacTests, Ported, Matches
<1>2. (\E t \in RuleTexts(kind) : t \in tested) <=> HitOf(req, kind)
  <2> HIDE DEF tested
  <2> QED BY <1>1, TextsAreHits
<1> QED BY <1>2

LEMMA PrivoxyTestsHits ==
    ASSUME engine \in Engine, NEW req \in Request, SameToReader(PrivoxyMatched, req), NEW kind
    PROVE  (\E t \in RuleTexts(kind) : PrivoxyTests(t, req)) <=> HitOf(req, kind)
<1> DEFINE tested == {t \in RuleTexts(kind) \cup Texts : PrivoxyTests(t, req)}
<1>1. ASSUME NEW r \in Rule, r.text \in Texts
      PROVE  r.text \in tested <=> Matches(r, req)
  <2>1. r.text.pattern \in Pattern
    BY DEF Rule, Text
  <2>2. req.host \in PrivoxyMatched[r.text.pattern] <=> req.host \in Covers[r.text.pattern]
    BY <1>1, <2>1, NamesAssumption DEF SameToReader, Meant, Names
  <2>3. r.text.port # 0
    BY <1>1 DEF SameToReader
  <2> QED BY <1>1, <2>2, <2>3 DEF PrivoxyTests, Ported, Matches
<1>2. (\E t \in RuleTexts(kind) : t \in tested) <=> HitOf(req, kind)
  <2> HIDE DEF tested
  <2> QED BY <1>1, TextsAreHits
<1> QED BY <1>2

Blocked(req) == \E p \in BlockedPatterns : req.host \in Matched[p]

\* The category of a host is denied only if a blocked pattern matches the host.
LEMMA DeniedIsBlocked ==
    ASSUME ExportsInv, NEW req, OverrideOf(req) = "deny", Classify(req.host) # Unknown
    PROVE  Blocked(req)
<1>1. PICK j \in DOMAIN defined : /\ req.host \in Matched[defined[j].pattern]
                                  /\ defined[j].category = Classify(req.host)
  BY ClassifyFacts DEF ExportsInv
<1> QED BY <1>1 DEF Blocked, BlockedPatterns, OverrideOf

LEMMA BlockedIsDenied ==
    ASSUME ExportsInv, NEW req, OrderFree(req), Blocked(req)
    PROVE  OverrideOf(req) = "deny" /\ Classify(req.host) # Unknown
<1>1. PICK j \in DOMAIN defined : /\ engine.overrides[defined[j].category] = "deny"
                                  /\ req.host \in Matched[defined[j].pattern]
  BY DEF Blocked, BlockedPatterns
<1>2. defined[j].category = Classify(req.host)
  BY <1>1 DEF OrderFree
<1>3. defined[j].category # Unknown
  BY DefinedFacts, NamesAssumption DEF ExportsInv
<1> QED BY <1>1, <1>2, <1>3 DEF OverrideOf

\* What a reader makes of the patterns of the blocked categories.
LEMMA BlockedFacts ==
    ASSUME ClassifierKnows, NEW p \in BlockedPatterns
    PROVE  p \in Listed /\ p \in CatPattern /\ Meant[p] = Matched[p]
<1>1. PICK j \in DOMAIN defined : defined[j].pattern = p
  BY DEF BlockedPatterns
<1>2. p \in CatPattern
  BY <1>1, DefinedFacts
<1> QED BY <1>1, <1>2 DEF Listed, Meant, Matched, Names

\* A reader who takes the listed patterns as the proxy does sees what is blocked.
LEMMA BlockedToReader ==
    ASSUME ExportsInv, NEW matched, NEW req, SameToReader(matched, req)
    PROVE  (\E p \in BlockedPatterns : req.host \in matched[p]) <=> Blocked(req)
BY BlockedFacts DEF Blocked, SameToReader, ExportsInv

LEMMA OverrideTyped ==
    ASSUME ExportsInv, NEW req
    PROVE  OverrideOf(req) \in {"deny", "allow", "default"} /\ engine.mode \in Mode
<1>1. Classify(req.host) \in Category
  BY ClassifyFacts DEF ExportsInv
<1> QED BY <1>1, EngineParts DEF ExportsInv, OverrideOf, Override, Kind

\* All rules that match say the same, unless the order matters.
LEMMA OneKind ==
    ASSUME engine \in Engine, NEW req, OrderFree(req)
    PROVE  ~ (HitOf(req, "deny") /\ HitOf(req, "allow"))
BY DEF OrderFree, HitOf

\* The proxy's decision in the terms of the files, where nothing rests on what
\* they leave out.
LEMMA DecidedWhenFree ==
    ASSUME ExportsInv, NEW req, OrderFree(req), OverrideKept(req)
    PROVE  Decided(req) <=> \/ HitOf(req, "allow")
                            \/ /\ ~ HitOf(req, "deny")
                               /\ ~ Blocked(req) /\ engine.mode = "denylist"
<1> USE DEF ExportsInv
<1>1. Blocked(req) <=> OverrideOf(req) = "deny" /\ Classify(req.host) # Unknown
  BY DeniedIsBlocked, BlockedIsDenied
<1>2. CASE \E r \in Hits(req) : Decided(req) <=> r.kind = "allow"
  <2>1. PICK r \in Hits(req) : Decided(req) <=> r.kind = "allow"
    BY <1>2
  <2>2. r.kind = "allow" \/ r.kind = "deny"
    BY HitFacts DEF Kind
  <2>3. (r.kind = "allow" => HitOf(req, "allow")) /\ (r.kind = "deny" => HitOf(req, "deny"))
    BY DEF HitOf
  <2> QED BY <2>1, <2>2, <2>3, OneKind
<1>3. CASE /\ Hits(req) = {}
           /\ Decided(req) <=> \/ OverrideOf(req) = "allow"
                               \/ OverrideOf(req) = "default" /\ engine.mode = "denylist"
  <2>1. ~ HitOf(req, "allow") /\ ~ HitOf(req, "deny")
    BY <1>3 DEF HitOf
  <2>2. OverrideOf(req) \in {"deny", "allow", "default"} /\ engine.mode \in {"denylist", "allowlist"}
    BY OverrideTyped DEF Mode
  <2>3. /\ engine.mode = "allowlist" => OverrideOf(req) # "allow"
        /\ engine.mode = "denylist" /\ Classify(req.host) = Unknown => OverrideOf(req) # "deny"
    BY <1>3 DEF OverrideKept
  <2> QED BY <1>1, <1>3, <2>1, <2>2, <2>3
<1> QED BY <1>2, <1>3, DecidedBy

----------------------------------------------------------------------------

LEMMA InvPacNeverBypasses == ExportsInv => PacNeverBypasses
<1> SUFFICES ASSUME ExportsInv, NEW req \in Request, PortsRead(req), PacVerdict(req) = "direct"
             PROVE  Decided(req)
  BY DEF PacNeverBypasses
<1>1. engine \in Engine
  BY DEF ExportsInv
<1>2. /\ ~ \E t \in RuleTexts("deny") : PacTests(t, req)
      /\ \E t \in RuleTexts("allow") : PacTests(t, req)
  BY DEF PacVerdict
<1>3. ~ HitOf(req, "deny") /\ HitOf(req, "allow")
  <2>1. ASSUME NEW r \in Hits(req), r.kind = "deny"
        PROVE  PacTests(r.text, req) /\ r.text \in RuleTexts("deny")
    <3>1. r.text \in RuleTexts("deny") /\ Matches(r, req)
      BY <1>1, <2>1, HitFacts
    <3> QED BY <3>1 DEF PortsRead, PacTests, Ported, Matches
  <2>2. PICK t \in RuleTexts("allow") : PacTests(t, req)
    BY <1>2
  <2>3. PICK j \in DOMAIN engine.rules : engine.rules[j].kind = "allow" /\ engine.rules[j].text = t
    BY DEF RuleTexts
  <2>4. Matches(engine.rules[j], req)
    BY <2>2, <2>3 DEF PortsRead, PacTests, Ported, Matches
  <2>5. engine.rules[j] \in Hits(req)
    BY <2>4 DEF Hits
  <2> QED BY <1>2, <2>1, <2>3, <2>5 DEF HitOf
<1>4. Hits(req) # {}
  BY <1>3 DEF HitOf
<1>5. PICK r \in Hits(req) : Decided(req) <=> r.kind = "allow"
  BY <1>1, <1>4, DecidedBy
<1>6. r.kind \in Kind /\ r.kind # "deny"
  BY <1>1, <1>3, HitFacts DEF HitOf
<1> QED BY <1>5, <1>6 DEF Kind

LEMMA InvPacAgrees ==
    ASSUME ExportsInv, NEW req \in Request
    PROVE  PacAgrees(req)
<1> SUFFICES ASSUME OrderFree(req), OverrideKept(req), ~AllowedAgainstCategory(req),
                    PortsShown(req), SameToReader(AsWritten, req)
             PROVE  PacVerdict(req) = "block" <=> ~Decided(req)
  BY DEF PacAgrees
<1>1. PacVerdict(req) = "block" <=>
        \/ HitOf(req, "deny") \/ Blocked(req)
        \/ ~ HitOf(req, "allow") /\ engine.mode # "denylist"
  BY PacTestsHits, BlockedToReader DEF PacVerdict, ExportsInv
<1>2. ~ (Blocked(req) /\ HitOf(req, "allow"))
  BY BlockedIsDenied DEF AllowedAgainstCategory, HitOf
<1>3. ~ (HitOf(req, "deny") /\ HitOf(req, "allow"))
  BY OneKind DEF ExportsInv
<1> QED BY <1>1, <1>2, <1>3, DecidedWhenFree

LEMMA InvPrivoxyAgrees ==
    ASSUME ExportsInv, NEW req \in Request
    PROVE  PrivoxyAgrees(req)
<1> SUFFICES ASSUME OrderFree(req), OverrideKept(req), SameToReader(PrivoxyMatched, req)
             PROVE  PrivoxyBlocks(req) <=> ~Decided(req)
  BY DEF PrivoxyAgrees
<1>1. (\E p \in BlockedPatterns : req.host \in PrivoxyMatched[p]) <=> Blocked(req)
  BY BlockedToReader
<1>2. PrivoxyBlocks(req) <=>
        /\ ~ HitOf(req, "allow")
        /\ engine.mode = "allowlist" \/ HitOf(req, "deny") \/ Blocked(req)
  BY <1>1, PrivoxyTestsHits DEF PrivoxyBlocks, ExportsInv
<1>3. engine.mode = "allowlist" <=> engine.mode # "denylist"
  BY OverrideTyped DEF Mode
<1> QED BY <1>2, <1>3, DecidedWhenFree

LEMMA InvAdblockAgrees ==
    ASSUME ExportsInv, NEW req \in Request
    PROVE  AdblockAgrees(req)
<1> SUFFICES ASSUME \A p \in {t.pattern : t \in Texts} \cup Listed :
                       req.host \in Meant[p] => req.host \in AdblockMatched[p],
                    ~Decided(req),
                    Hits(req) # {} \/ (OverrideOf(req) = "deny" /\ Classify(req.host) # Unknown)
             PROVE  AdblockBlocks(req)
  BY DEF AdblockAgrees
<1>1. CASE Hits(req) # {}
  <2>1. PICK r \in Hits(req) : r.kind # "allow"
    BY <1>1, DecidedBy DEF ExportsInv
  <2>2. /\ r.kind = "deny" /\ r.text \in RuleTexts("deny") /\ r.text \in Texts
        /\ r.text.pattern \in Pattern /\ Matches(r, req)
    BY <2>1, HitFacts DEF ExportsInv, Kind
  <2>3. req.host \in Meant[r.text.pattern]
    BY <2>2, NamesAssumption DEF Matches, Meant, Names
  <2> QED BY <2>2, <2>3 DEF AdblockBlocks
<1>2. CASE OverrideOf(req) = "deny" /\ Classify(req.host) # Unknown
  <2>1. PICK p \in BlockedPatterns : req.host \in Matched[p]
    BY <1>2, DeniedIsBlocked DEF Blocked
  <2>2. p \in Listed /\ req.host \in Meant[p]
    BY <2>1, BlockedFacts DEF ExportsInv
  <2> QED BY <2>2 DEF AdblockBlocks
<1> QED BY <1>1, <1>2

\* A browser with the PAC file connects past the proxy only to what the proxy
\* lets through, for any rules in any order and any categories, if the URL shows
\* the ports of the deny rules that match and no other port of an allow rule.
THEOREM PacNeverBypassesProved == Spec => []PacNeverBypasses
<1> QED BY ExportsInvariant, InvPacNeverBypasses, PTL

\* The PAC file and the Privoxy actions block exactly what the proxy refuses,
\* and the adblock list what a rule or a category denies, wherever nothing rests
\* on what the files leave out, overrides of names without patterns among it.
THEOREM ExportsAgreeProved == Spec => []ExportsAgree
<1>1. ExportsInv => ExportsAgree
  BY InvPacAgrees, InvPrivoxyAgrees, InvAdblockAgrees DEF ExportsAgree
<1> QED BY <1>1, ExportsInvariant, PTL

----------------------------------------------------------------------------
(* The index: each list holds entries of the definition order, in that order. *)

\* The list is what the places of known hold, in their order.
LaidOut(list, known, places) ==
    \E at \in [DOMAIN list -> places] :
        /\ \A i \in DOMAIN list : list[i] = known[at[i]]
        /\ \A i, j \in DOMAIN list : i < j => at[i] < at[j]
        /\ \A n \in places : \E i \in DOMAIN list : at[i] = n

IndexedUnder(p, k) == Indexable(Root(p)) /\ KeyOf(Root(p)) = k
Places(known, k) == {n \in 1 .. Len(known) : IndexedUnder(known[n].pattern, k)}
OtherPlaces(known) == {n \in 1 .. Len(known) : ~ Indexable(Root(known[n].pattern))}

IndexInOrder ==
    /\ \A k : LaidOut(Bucket(k), defined, Places(defined, k))
    /\ LaidOut(fallback, defined, OtherPlaces(defined))

\* The places that match, and the category of the first of them.
Hitting(places, known, host) == {n \in places : host \in Matched[known[n].pattern]}
FirstAt(places, known) == IF places = {} THEN Unknown ELSE known[Min(places)].category

LEMMA LaidOutFirst ==
    ASSUME NEW known \in Seq(Entry), NEW list \in Seq(Entry),
           NEW places \in SUBSET (1 .. Len(known)), LaidOut(list, known, places), NEW host
    PROVE  FirstOf(list, host) = FirstAt(Hitting(places, known, host), known)
<1> DEFINE hits == {n \in places : host \in Matched[known[n].pattern]}
           found == {i \in 1 .. Len(list) : host \in Matched[list[i].pattern]}
<1> SUFFICES FirstOf(list, host) = IF hits = {} THEN Unknown ELSE known[Min(hits)].category
  BY DEF FirstAt, Hitting
<1>1. DOMAIN list = 1 .. Len(list) /\ Len(list) \in Nat /\ Len(known) \in Nat
  BY LenProperties
<1>2. PICK at \in [DOMAIN list -> places] :
        /\ \A i \in DOMAIN list : list[i] = known[at[i]]
        /\ \A i, j \in DOMAIN list : i < j => at[i] < at[j]
        /\ \A n \in places : \E i \in DOMAIN list : at[i] = n
  BY DEF LaidOut
<1>3. FirstOf(list, host) = LET i == IF found # {} THEN Min(found) ELSE 0
                            IN  IF i = 0 THEN Unknown ELSE list[i].category
  BY DEF FirstOf, SelectInSeq
<1>4. hits \in SUBSET Nat /\ found \in SUBSET Nat
  <2>1. \A n \in 1 .. Len(known) : n \in Nat
    BY <1>1
  <2>2. \A i \in 1 .. Len(list) : i \in Nat
    BY <1>1
  <2>3. \A n \in hits : n \in 1 .. Len(known)
    OBVIOUS
  <2>4. \A i \in found : i \in 1 .. Len(list)
    OBVIOUS
  <2> HIDE DEF hits, found
  <2> QED BY <2>1, <2>2, <2>3, <2>4
<1>5. \A i \in DOMAIN list : i \in found <=> at[i] \in hits
  BY <1>1, <1>2
<1>6. CASE found = {}
  <2>1. hits = {}
    BY <1>2, <1>5, <1>6
  <2> HIDE DEF hits, found
  <2> QED BY <1>3, <1>6, <2>1
<1>7. CASE found # {}
  <2> DEFINE i == Min(found)
             m == Min(hits)
  <2>1. i \in found /\ \A y \in found : i <= y
    BY <1>4, <1>7, MinFacts
  <2>2. i \in DOMAIN list /\ i # 0 /\ i \in Nat /\ at[i] \in hits
    <3> HIDE DEF i
    <3> QED BY <1>1, <1>5, <2>1
  <2>3. m \in hits /\ \A y \in hits : m <= y
    <3>1. hits # {}
      BY <2>2
    <3> QED BY <1>4, <3>1, MinFacts
  <2>4. PICK j \in DOMAIN list : at[j] = m
    BY <1>2, <2>3
  <2>5. j \in found
    BY <1>5, <2>3, <2>4
  <2> HIDE DEF i, m
  <2>6. at[i] \in Nat /\ at[j] \in Nat /\ m \in Nat /\ j \in Nat
    BY <1>1, <1>4, <2>2, <2>3, <2>4
  <2>7. i <= j /\ m <= at[i]
    BY <2>1, <2>2, <2>3, <2>5
  <2>8. i < j => at[i] < at[j]
    BY <1>2, <2>2
  <2>9. i = j
    BY <2>2, <2>4, <2>6, <2>7, <2>8
  <2>10. list[i] = known[m]
    BY <1>2, <2>2, <2>4, <2>9
  <2>11. hits # {}
    BY <2>2
  <2>12. FirstOf(list, host) = list[i].category
    <3> HIDE DEF found, hits
    <3> QED BY <1>3, <1>7, <2>2 DEF i
  <2> HIDE DEF hits, found
  <2> QED BY <2>10, <2>11, <2>12 DEF m
<1> QED BY <1>6, <1>7

\* A definition more: the places found so far stay, in the same order.
LEMMA LaidOutStays ==
    ASSUME NEW known \in Seq(Entry), NEW entry \in Entry, NEW list,
           NEW places \in SUBSET (1 .. Len(known)), LaidOut(list, known, places)
    PROVE  LaidOut(list, Append(known, entry), places)
<1>1. \A n \in 1 .. Len(known) : Append(known, entry)[n] = known[n]
  BY AppendProperties
<1>2. PICK at \in [DOMAIN list -> places] :
        /\ \A i \in DOMAIN list : list[i] = known[at[i]]
        /\ \A i, j \in DOMAIN list : i < j => at[i] < at[j]
        /\ \A m \in places : \E i \in DOMAIN list : at[i] = m
  BY DEF LaidOut
<1>3. \A i \in DOMAIN list : list[i] = Append(known, entry)[at[i]]
  <2>1. \A i \in DOMAIN list : at[i] \in 1 .. Len(known)
    BY <1>2
  <2> QED BY <1>1, <1>2, <2>1
<1> QED BY <1>2, <1>3 DEF LaidOut

LEMMA LaidOutGrows ==
    ASSUME NEW known \in Seq(Entry), NEW entry \in Entry, NEW list \in Seq(Entry),
           NEW places \in SUBSET (1 .. Len(known)), LaidOut(list, known, places)
    PROVE  LaidOut(Append(list, entry), Append(known, entry), places \cup {Len(known) + 1})
<1> DEFINE n == Len(known) + 1
           l == Len(list)
           longer == Append(list, entry)
           more == Append(known, entry)
<1>1. /\ Len(known) \in Nat /\ l \in Nat /\ DOMAIN list = 1 .. l
      /\ DOMAIN longer = 1 .. (l + 1) /\ longer[l + 1] = entry
      /\ \A i \in 1 .. l : longer[i] = list[i]
      /\ more[n] = entry /\ \A i \in 1 .. Len(known) : more[i] = known[i]
  BY AppendProperties, LenProperties
<1>2. PICK at \in [DOMAIN list -> places] :
        /\ \A i \in DOMAIN list : list[i] = known[at[i]]
        /\ \A i, j \in DOMAIN list : i < j => at[i] < at[j]
        /\ \A m \in places : \E i \in DOMAIN list : at[i] = m
  BY DEF LaidOut
<1> DEFINE to == [i \in 1 .. (l + 1) |-> IF i = l + 1 THEN n ELSE at[i]]
<1> HIDE DEF longer, more, l, n
<1>3. \A i \in 1 .. (l + 1) : i = l + 1 \/ (i \in 1 .. l /\ i # l + 1)
  BY <1>1
<1>4. \A i \in 1 .. l : i \in 1 .. (l + 1) /\ i # l + 1
  BY <1>1
<1>5. l + 1 \in 1 .. (l + 1)
  BY <1>1
<1>6. to[l + 1] = n /\ \A i \in 1 .. l : to[i] = at[i]
  BY <1>4, <1>5
<1>7. \A i \in 1 .. l : at[i] \in places /\ at[i] \in 1 .. Len(known) /\ at[i] < n
  <2>1. \A i \in 1 .. l : at[i] \in places
    BY <1>1, <1>2
  <2>2. \A m \in 1 .. Len(known) : m < n
    BY <1>1 DEF n
  <2> QED BY <2>1, <2>2
<1>8. to \in [1 .. (l + 1) -> places \cup {n}]
  BY <1>3, <1>7
<1> HIDE DEF to
<1>9. \A i \in 1 .. (l + 1) : longer[i] = more[to[i]]
  <2> SUFFICES ASSUME NEW i \in 1 .. (l + 1) PROVE longer[i] = more[to[i]]
    OBVIOUS
  <2>1. CASE i = l + 1
    BY <1>1, <1>6, <2>1
  <2>2. CASE i \in 1 .. l
    <3>1. longer[i] = list[i] /\ list[i] = known[at[i]]
      BY <1>1, <1>2, <2>2
    <3>2. more[at[i]] = known[at[i]] /\ to[i] = at[i]
      BY <1>1, <1>6, <1>7, <2>2
    <3> QED BY <3>1, <3>2
  <2> QED BY <1>3, <2>1, <2>2
<1>10. ASSUME NEW i \in 1 .. (l + 1), NEW j \in 1 .. (l + 1), i < j
       PROVE  to[i] < to[j]
  <2>1. i \in 1 .. l
    BY <1>1, <1>10
  <2>2. CASE j = l + 1
    BY <1>6, <1>7, <2>1, <2>2
  <2>3. CASE j # l + 1
    BY <1>1, <1>2, <1>3, <1>6, <1>10, <2>1, <2>3
  <2> QED BY <2>2, <2>3
<1>11. \A m \in places \cup {n} : \E i \in 1 .. (l + 1) : to[i] = m
  <2>1. \E i \in 1 .. (l + 1) : to[i] = n
    BY <1>5, <1>6
  <2>2. ASSUME NEW m \in places
        PROVE  \E i \in 1 .. (l + 1) : to[i] = m
    <3>1. PICK i \in 1 .. l : at[i] = m
      BY <1>1, <1>2
    <3> QED BY <1>4, <1>6, <3>1
  <2> QED BY <2>1, <2>2
<1>12. to \in [DOMAIN longer -> places \cup {n}]
  BY <1>1, <1>8
<1>13. LaidOut(longer, more, places \cup {n})
  <2>1. DOMAIN longer = 1 .. (l + 1)
    BY <1>1
  <2>2. /\ \A i \in DOMAIN longer : longer[i] = more[to[i]]
        /\ \A i, j \in DOMAIN longer : i < j => to[i] < to[j]
        /\ \A m \in places \cup {n} : \E i \in DOMAIN longer : to[i] = m
    BY <1>9, <1>10, <1>11, <2>1
  <2> QED BY <1>12, <2>2 DEF LaidOut
<1> QED BY <1>13 DEF longer, more, n

LEMMA LoadKeepsOrder ==
    ASSUME ExportsInv, IndexInOrder, NEW p \in CatPattern, NEW k \in DataCategory, LoadNext(p, k)
    PROVE  IndexInOrder'
<1> DEFINE entry == [pattern |-> p, category |-> k]
           name == Root(p)
           key == KeyOf(name)
           more == Append(defined, entry)
           n == Len(defined) + 1
<1>1. /\ defined' = more
      /\ \/ Indexable(name) /\ index' = Indexed(entry, key) /\ fallback' = fallback
         \/ ~ Indexable(name) /\ fallback' = Append(fallback, entry) /\ index' = index
  BY DEF LoadNext, LoadPattern
<1>2. entry \in Entry /\ entry.pattern = p
  BY DEF Entry
<1>3. /\ defined \in Seq(Entry) /\ fallback \in Seq(Entry)
      /\ \A x : Bucket(x) \in Seq(Entry)
  <2>1. <<>> \in Seq(Entry)
    BY EmptySeq
  <2> QED BY <2>1 DEF ExportsInv, ClassifierKnows, Bucket
<1> HIDE DEF entry
<1>4. /\ Len(defined) \in Nat /\ Len(more) = n /\ more[n] = entry
      /\ \A i \in 1 .. Len(defined) : more[i] = defined[i]
      /\ more \in Seq(Entry)
  BY <1>2, <1>3, AppendProperties, LenProperties
<1>5. \A i \in 1 .. n : i = n \/ i \in 1 .. Len(defined)
  BY <1>4
<1>6. n \in 1 .. n /\ \A i \in 1 .. Len(defined) : i \in 1 .. n /\ i # n
  BY <1>4
<1> HIDE DEF more, n
<1>7. ASSUME NEW x
      PROVE  /\ IndexedUnder(p, x) => Places(more, x) = Places(defined, x) \cup {n}
             /\ ~ IndexedUnder(p, x) => Places(more, x) = Places(defined, x)
  BY <1>2, <1>4, <1>5, <1>6 DEF Places
<1>8. /\ Indexable(name) => OtherPlaces(more) = OtherPlaces(defined)
      /\ ~ Indexable(name) => OtherPlaces(more) = OtherPlaces(defined) \cup {n}
  BY <1>2, <1>4, <1>5, <1>6 DEF OtherPlaces
<1>9. /\ OtherPlaces(defined) \in SUBSET (1 .. Len(defined))
      /\ \A x : Places(defined, x) \in SUBSET (1 .. Len(defined))
  BY DEF OtherPlaces, Places
<1>10. LaidOut(fallback', more, OtherPlaces(more))
  <2>1. LaidOut(fallback, defined, OtherPlaces(defined))
    BY DEF IndexInOrder
  <2>2. CASE Indexable(name)
    <3>1. LaidOut(fallback, Append(defined, entry), OtherPlaces(defined))
      BY <1>2, <1>3, <1>9, <2>1, LaidOutStays
    <3> QED BY <1>1, <1>8, <2>2, <3>1 DEF more
  <2>3. CASE ~ Indexable(name)
    <3>1. LaidOut(Append(fallback, entry), Append(defined, entry),
                  OtherPlaces(defined) \cup {Len(defined) + 1})
      BY <1>2, <1>3, <1>9, <2>1, LaidOutGrows
    <3> QED BY <1>1, <1>8, <2>3, <3>1 DEF more, n
  <2> QED BY <2>2, <2>3
<1>11. ASSUME NEW x
       PROVE  /\ Indexable(name) /\ x = key => Bucket(x)' = Append(Bucket(x), entry)
              /\ ~ (Indexable(name) /\ x = key) => Bucket(x)' = Bucket(x)
  <2>1. CASE ~ Indexable(name)
    BY <1>1, <2>1 DEF Bucket
  <2>2. CASE Indexable(name)
    <3>1. index' = [y \in DOMAIN index \cup {key} |->
                      IF y = key THEN Append(Bucket(key), entry) ELSE index[y]]
      BY <1>1, <2>2 DEF Indexed
    <3>2. Bucket(x)' = IF x \in DOMAIN index' THEN index'[x] ELSE <<>>
      BY DEF Bucket
    <3>3. CASE x = key
      BY <2>2, <3>1, <3>2, <3>3
    <3>4. CASE x # key
      BY <2>2, <3>1, <3>2, <3>4 DEF Bucket
    <3> QED BY <3>3, <3>4
  <2> QED BY <2>1, <2>2
<1>12. ASSUME NEW x
       PROVE  LaidOut(Bucket(x)', more, Places(more, x))
  <2>1. LaidOut(Bucket(x), defined, Places(defined, x))
    BY DEF IndexInOrder
  <2>2. CASE IndexedUnder(p, x)
    <3>1. Bucket(x)' = Append(Bucket(x), entry)
      BY <1>11, <2>2 DEF IndexedUnder
    <3>2. LaidOut(Append(Bucket(x), entry), more, Places(defined, x) \cup {n})
      BY <1>2, <1>3, <1>9, <2>1, LaidOutGrows DEF more, n
    <3> QED BY <1>7, <2>2, <3>1, <3>2
  <2>3. CASE ~ IndexedUnder(p, x)
    <3>1. Bucket(x)' = Bucket(x)
      BY <1>11, <2>3 DEF IndexedUnder
    <3>2. LaidOut(Bucket(x), more, Places(defined, x))
      BY <1>2, <1>3, <1>9, <2>1, LaidOutStays DEF more
    <3> QED BY <1>7, <2>3, <3>1, <3>2
  <2> QED BY <2>2, <2>3
<1> QED BY <1>1, <1>10, <1>12 DEF IndexInOrder

\* Each list of the index holds every pattern of its key and no other, the list of
\* the rest every pattern without a key, and all keep the order of the data file.
THEOREM IndexAlwaysInOrder == Spec => []IndexInOrder
<1>1. Init => IndexInOrder
  <2> SUFFICES ASSUME Init PROVE IndexInOrder
    OBVIOUS
  <2>1. defined = <<>> /\ fallback = <<>> /\ \A k : Bucket(k) = <<>>
    BY DEF Init, ClassifierInit, Bucket
  <2>2. Len(<<>>) = 0 /\ DOMAIN <<>> = {}
    BY EmptySeq
  <2>3. OtherPlaces(<<>>) = {} /\ \A k : Places(<<>>, k) = {}
    BY <2>2 DEF OtherPlaces, Places
  <2>4. LaidOut(<<>>, <<>>, {})
    <3> DEFINE at == [i \in DOMAIN <<>> |-> {}]
    <3>1. at \in [DOMAIN <<>> -> {}]
      BY <2>2
    <3> QED BY <2>2, <3>1 DEF LaidOut
  <2> QED BY <2>1, <2>3, <2>4 DEF IndexInOrder
<1>2. IndexInOrder /\ UNCHANGED classifierVars => IndexInOrder'
  BY DEF IndexInOrder, classifierVars, Bucket
<1>3. ExportsInv /\ IndexInOrder /\ [Next]_vars => IndexInOrder'
  BY <1>2, LoadKeepsOrder DEF Next, Command, vars
<1> QED BY <1>1, <1>3, ExportsInvariant, PTL DEF Spec

LEMMA InvIndexIsScan ==
    ASSUME ExportsInv, IndexInOrder
    PROVE  IndexIsScan
<1> SUFFICES ASSUME Listed \subseteq Rooted, NEW h \in HostName
             PROVE  /\ Classify(h) = Unknown <=> Scan(h) = Unknown
                    /\ (\A p \in Listed \cap InFallback : h \notin Matched[p])
                         => Classify(h) = Scan(h)
  BY DEF IndexIsScan
<1> DEFINE Hit(places) == Hitting(places, defined, h)
           First(s) == FirstAt(s, defined)
           all == 1 .. Len(defined)
           here == Places(defined, KeyOf(h))
           rest == OtherPlaces(defined)
<1>1. /\ defined \in Seq(Entry) /\ fallback \in Seq(Entry) /\ Bucket(KeyOf(h)) \in Seq(Entry)
      /\ DOMAIN defined = all
  <2>1. <<>> \in Seq(Entry)
    BY EmptySeq
  <2> QED BY <2>1, LenProperties DEF ExportsInv, ClassifierKnows, Bucket
<1>2. here \in SUBSET all /\ rest \in SUBSET all /\ all \in SUBSET all /\ all \in SUBSET Nat
  BY DEF Places, OtherPlaces
<1>3. LaidOut(defined, defined, all)
  <2> DEFINE at == [i \in DOMAIN defined |-> i]
  <2>1. at \in [DOMAIN defined -> all]
    BY <1>1
  <2> QED BY <1>1, <2>1 DEF LaidOut
<1>4. /\ FirstOf(Bucket(KeyOf(h)), h) = First(Hit(here))
      /\ FirstOf(fallback, h) = First(Hit(rest))
      /\ Scan(h) = First(Hit(all))
  <2>1. /\ LaidOut(Bucket(KeyOf(h)), defined, here)
        /\ LaidOut(fallback, defined, rest)
    BY DEF IndexInOrder
  <2>2. ASSUME NEW list \in Seq(Entry), NEW places \in SUBSET all, LaidOut(list, defined, places)
        PROVE  FirstOf(list, h) = First(Hit(places))
    BY <1>1, <2>2, LaidOutFirst
  <2> HIDE DEF all, here, rest, First, Hit
  <2> QED BY <1>1, <1>2, <1>3, <2>1, <2>2 DEF Scan
<1>5. \A n \in all : defined[n].category # Unknown /\ defined[n].pattern \in Listed
                     /\ defined[n].pattern \in CatPattern
  BY <1>1, DefinedFacts, NamesAssumption DEF ExportsInv, Listed
<1>6. \A s \in SUBSET all : First(s) = Unknown <=> s = {}
  <2> SUFFICES ASSUME NEW s \in SUBSET all, s # {} PROVE First(s) # Unknown
    BY DEF FirstAt
  <2>1. Min(s) \in s
    BY <1>2, MinFacts
  <2> QED BY <1>5, <2>1 DEF FirstAt
<1>7. ASSUME NEW n \in Hit(all)
      PROVE  n \in Hit(rest) \/ (Len(h) >= 2 /\ n \in Hit(here))
  <2>1. CASE ~ Indexable(Root(defined[n].pattern))
    BY <2>1 DEF OtherPlaces, Hitting
  <2>2. CASE Indexable(Root(defined[n].pattern))
    <3>1. defined[n].pattern \in Rooted \ InFallback /\ h \in Matched[defined[n].pattern]
      BY <1>5, <2>2 DEF InFallback, Hitting
    <3>2. Len(h) >= 2 /\ KeyOf(h) = KeyOf(Root(defined[n].pattern))
      BY <3>1, EndsAssumption
    <3> QED BY <2>2, <3>2 DEF Places, IndexedUnder, Hitting
  <2> QED BY <2>1, <2>2
<1>8. /\ Hit(here) \in SUBSET Hit(all) /\ Hit(rest) \in SUBSET Hit(all) /\ Hit(all) \in SUBSET all
      /\ Hit(here) \in SUBSET all /\ Hit(rest) \in SUBSET all
  BY <1>2 DEF Hitting
<1>9. \A n \in rest : defined[n].pattern \in Listed \cap InFallback
  BY <1>5 DEF OtherPlaces, InFallback
<1>10. Classify(h) = LET found == IF Len(h) >= 2 THEN First(Hit(here)) ELSE Unknown
                     IN  IF found # Unknown THEN found ELSE First(Hit(rest))
  BY <1>4 DEF Classify
<1>11. (\A p \in Listed \cap InFallback : h \notin Matched[p]) => Hit(rest) = {}
  BY <1>9 DEF Hitting
<1> HIDE DEF Hit, First, all, here, rest
<1>12. Classify(h) = Unknown <=> Scan(h) = Unknown
  BY <1>4, <1>6, <1>7, <1>8, <1>10
<1>13. ASSUME Hit(rest) = {} PROVE Classify(h) = Scan(h)
  <2>1. First(Hit(rest)) = Unknown /\ First({}) = Unknown
    BY <1>6, <1>8, <1>13
  <2>2. CASE Hit(all) = {}
    BY <1>4, <1>12, <2>1, <2>2
  <2>3. CASE Hit(all) # {}
    <3>1. Len(h) >= 2 /\ Hit(here) = Hit(all)
      BY <1>7, <1>8, <1>13, <2>3
    <3> QED BY <1>4, <1>6, <1>8, <1>10, <2>3, <3>1
  <2> QED BY <2>2, <2>3
<1> QED BY <1>11, <1>12, <1>13

\* For pattern files of any length, looking a host up in the index finds what a
\* scan of all patterns in definition order finds, unless a pattern that could
\* not be indexed also matches; and it finds nothing only if the scan does not.
THEOREM IndexIsScanProved == Spec => []IndexIsScan
<1>1. ExportsInv /\ IndexInOrder => IndexIsScan
  BY InvIndexIsScan
<1> QED BY <1>1, ExportsInvariant, IndexAlwaysInOrder, PTL
=============================================================================
