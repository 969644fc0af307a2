---------------------------- MODULE FilterRules ----------------------------
(***************************************************************************)
(* filters.py: the ordered list of host rules, the default policy and the  *)
(* category overrides, as operations on an engine value; and the decision  *)
(* _handle_client_body takes from it and the classifier's overrides.       *)
(*                                                                         *)
(* The text of a rule is what FilterRule.parse makes of it: a pattern, a   *)
(* port and a spelling, which tells texts apart that name the same pattern *)
(* and port ("[::1]" and "::1", "host:80" and "host:080").  The version    *)
(* counter, by which the dashboard knows to redraw, is left out.           *)
(***************************************************************************)
EXTENDS Integers, Sequences, SequencesExt

CONSTANTS
    Host,       \* hosts that are asked for; each is also an exact pattern
    Pattern,    \* fnmatch patterns, the hosts among them
    Port,
    Spelling,
    Category,
    Covers,     \* the hosts each pattern matches
    AnyPort,    \* a rule without a port
    Plain,      \* the spelling of a host typed as it is
    Junk,       \* a pattern that matches nothing
    AtSign,     \* texts that begin with "@": the category the loader takes each for
    CutAt       \* texts that hold a newline: the text before it

ASSUME PatternAssumption ==
    /\ Host \subseteq Pattern /\ Junk \in Pattern
    /\ Covers \in [Pattern -> SUBSET Host]
    /\ Covers[Junk] = {} /\ \A h \in Host : Covers[h] = {h}
ASSUME PortAssumption == AnyPort \notin Port /\ Plain \in Spelling
ASSUME FiniteAssumption == IsFiniteSet(Category)

Kind == {"deny", "allow"}
Mode == {"denylist", "allowlist"}
Override == Kind \cup {"default"}   \* "default": no entry in _cat_overrides

Text == [pattern : Pattern, port : Port \cup {AnyPort}, spelling : Spelling]
Rule == [text : Text, kind : Kind]
Request == [host : Host, port : Port]

ASSUME TextAssumption ==
    /\ \A t \in DOMAIN AtSign : AtSign[t] \in Category
    /\ \A t \in DOMAIN CutAt : CutAt[t] \in Text

\* What the user means by naming a host without a port.
HostText(h) == [pattern |-> h, port |-> AnyPort, spelling |-> Plain]

SameTarget(t, u) == t.pattern = u.pattern /\ t.port = u.port

Matches(rule, req) ==
    /\ req.host \in Covers[rule.text.pattern]
    /\ rule.text.port \in {AnyPort, req.port}

----------------------------------------------------------------------------
(* FilterEngine.  compiled holds the keys of the cache of regular           *)
(* expressions.                                                             *)

Engine == [rules : Seq(Rule), mode : Mode,
           overrides : [Category -> Override], compiled : SUBSET Pattern]

\* Also what reset() leaves behind.
NewEngine ==
    [rules |-> <<>>, mode |-> "denylist",
     overrides |-> [k \in Category |-> "default"], compiled |-> {}]

WithRules(e, rules, compiled) == [e EXCEPT !.rules = rules, !.compiled = compiled]

\* Mutant: duplicates are appended again.
AddTwice(e, text, kind) ==
    WithRules(e, Append(e.rules, [text |-> text, kind |-> kind]),
              e.compiled \cup {text.pattern})

\* A rule that is already listed, spelling included, is left where it is.
AddRule(e, text, kind) ==
    LET rule == [text |-> text, kind |-> kind]
    IN  IF Contains(e.rules, rule) THEN e
        ELSE WithRules(e, Append(e.rules, rule), e.compiled \cup {text.pattern})

PrependRule(e, text, kind) ==
    LET rule == [text |-> text, kind |-> kind]
    IN  IF Contains(e.rules, rule) THEN e
        ELSE WithRules(e, <<rule>> \o e.rules, e.compiled \cup {text.pattern})

HasRule(e, text) == \E i \in DOMAIN e.rules : SameTarget(e.rules[i].text, text)

\* find_rule: only where HasRule holds.
FindRule(e, text) ==
    e.rules[SelectInSeq(e.rules, LAMBDA r : SameTarget(r.text, text))]

\* Mutant: the compiled pattern goes although another rule still uses it.
RemoveRuleUnpruned(e, text) ==
    LET left == RemoveFirstMatch(e.rules, LAMBDA r : SameTarget(r.text, text))
    IN  WithRules(e, left, e.compiled \ {text.pattern})

\* remove_rule: the first rule about the pattern and port, whatever its kind.
RemoveRule(e, text) ==
    LET left == RemoveFirstMatch(e.rules, LAMBDA r : SameTarget(r.text, text))
        used == \E i \in DOMAIN left : left[i].text.pattern = text.pattern
    IN  IF HasRule(e, text)
        THEN WithRules(e, left, IF used THEN e.compiled ELSE e.compiled \ {text.pattern})
        ELSE e

SetMode(e, mode) == [e EXCEPT !.mode = mode]

ClearRules(e) == WithRules(e, <<>>, {})

\* block_category, unblock_category, reset_category.
OverrideCategory(e, k, o) == [e EXCEPT !.overrides[k] = o]

\* check_verbose: the first rule that matches, 0 if there is none.
FirstMatch(e, req) == SelectInSeq(e.rules, LAMBDA r : Matches(r, req))

\* The decision for a host of the category cat: a host rule is final; else the
\* override of the category; else the mode.  The overrides are the classifier's.
Allowed(e, overrides, cat, req) ==
    LET i == FirstMatch(e, req)
        o == overrides[cat]
    IN  IF i # 0 THEN e.rules[i].kind = "allow"
        ELSE o = "allow" \/ (o = "default" /\ e.mode = "denylist")

----------------------------------------------------------------------------
(* The rules file, as the lines load_rules_file tells apart.  A line with a *)
(* trailing comment is read as it stands, comment included.                 *)

ModeLine(m) == [about |-> "mode", mode |-> m, commented |-> FALSE]

\* "deny @k", "allow @k" and "remove @k"; the "block k" and "unblock k" of older
\* files do what the first two do.
CategoryLine(k, o) == [about |-> "category", category |-> k, override |-> o,
                       commented |-> FALSE]

\* The text of a rule goes into the file as it was given.  A newline ends the line;
\* the rest is taken for a line without a keyword, which is skipped.  A text that begins
\* with "@" is a line about a category.
Verbatim(text) == text \notin DOMAIN AtSign \cup DOMAIN CutAt

FileText(text) == IF text \in DOMAIN CutAt THEN CutAt[text] ELSE text

\* "deny text", "allow text".
RuleLine(r) ==
    LET text == FileText(r.text)
    IN  IF text \in DOMAIN AtSign THEN CategoryLine(AtSign[text], r.kind)
        ELSE [about |-> "rule", rule |-> [r EXCEPT !.text = text], commented |-> FALSE]

Line == [about : {"mode"}, mode : Mode, commented : BOOLEAN]
        \cup [about : {"rule"}, rule : Rule, commented : BOOLEAN]
        \cup [about : {"category"}, category : Category, override : Override,
              commented : BOOLEAN]

Commented(line) == [line EXCEPT !.commented = TRUE]

\* save_rules_file.
Lines(e) ==
    LET set == SetToSeq({k \in Category : e.overrides[k] # "default"})
    IN  <<ModeLine(e.mode)>>
        \o [i \in DOMAIN e.rules |-> RuleLine(e.rules[i])]
        \o [i \in DOMAIN set |-> CategoryLine(set[i], e.overrides[set[i]])]

LoadLine(e, line) ==
    CASE line.about = "mode" ->
            IF line.commented THEN e ELSE SetMode(e, line.mode)
      [] line.about = "rule" ->
            IF line.commented
            THEN AddRule(e, [line.rule.text EXCEPT !.pattern = Junk, !.port = AnyPort],
                         line.rule.kind)
            ELSE AddRule(e, line.rule.text, line.rule.kind)
      [] line.about = "category" ->
            IF line.commented THEN e ELSE OverrideCategory(e, line.category, line.override)

\* reset, then load_rules_file.
Load(lines) == FoldLeft(LoadLine, NewEngine, lines)
=============================================================================
