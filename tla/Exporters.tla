----------------------------- MODULE Exporters -----------------------------
(***************************************************************************)
(* tui_exporters.py: the PAC file, the Privoxy actions and the adblock list *)
(* made from the rules of the filter engine and the patterns of the blocked *)
(* categories, beside the decision the proxy itself takes.                  *)
(*                                                                         *)
(* The three files are what the programs that read them decide from them:   *)
(* those programs are external.  Categories are loaded before the first     *)
(* command; overrides are those of the classifier, which the engine mirrors *)
(* (RulesConsole).                                                          *)
(***************************************************************************)
EXTENDS FilterRules, Classifier, FiniteSets

CONSTANTS
    Typed,       \* texts the operator types
    UrlShows,    \* of the ports: those whose ":n" the URL of a request contains
    MaxEntries   \* bound: patterns loaded and rules listed

ASSUME NamesAssumption ==
    /\ Host = HostName
    /\ Category = DataCategory \cup {Unknown} /\ Unknown \notin DataCategory
    /\ \A p \in Pattern :
         Lower(p) = p /\ Covers[p] = {h \in HostName : Fnmatch(p, h)}
ASSUME UrlAssumption == Typed \subseteq Text /\ UrlShows \in [Port -> SUBSET Port]

VARIABLE engine

vars == <<classifierVars, engine>>

Entries == Len(defined) + Len(engine.rules)

TypeOK ==
    /\ engine \in Engine
    /\ fallback \in Seq([pattern : CatPattern, category : DataCategory])

Init == ClassifierInit /\ engine = NewEngine

\* The data file is read before the first command.
LoadNext(p, k) ==
    /\ engine = NewEngine
    /\ LoadPattern(p, k)
    /\ Entries < MaxEntries
    /\ UNCHANGED engine

\* A command overrides a category that is loaded, a line of the rules file any name,
\* "unknown" among them.
Command ==
    /\ \/ \E text \in Typed :
            \/ engine' = RemoveRule(engine, text)
            \/ \E kind \in Kind : \/ engine' = AddRule(engine, text, kind)
                                  \/ engine' = PrependRule(engine, text, kind)
       \/ \E m \in Mode : engine' = SetMode(engine, m)
       \/ \E k \in Category, o \in Override : engine' = OverrideCategory(engine, k, o)
    /\ UNCHANGED classifierVars
    /\ Entries' <= MaxEntries

Next == Command \/ \E p \in CatPattern, k \in DataCategory : LoadNext(p, k)

Spec == Init /\ [][Next]_vars

----------------------------------------------------------------------------
(* What the three files have in common. *)

RuleTexts(kind) ==
    {engine.rules[i].text : i \in {j \in DOMAIN engine.rules : engine.rules[j].kind = kind}}

\* Patterns of the categories that are denied, whatever other patterns match.
BlockedPatterns ==
    {defined[i].pattern : i \in {j \in DOMAIN defined :
                                    engine.overrides[defined[j].category] = "deny"}}

\* "if r.port": port 0 is no port.
Ported(text) == text.port \notin {AnyPort, 0}

Names == Pattern \cup CatPattern
Meant == [p \in Names |-> {h \in HostName : Fnmatch(Lower(p), h)}]

\* startswith("*.")
Starred(p) == Len(p) >= 2 /\ p[1] = <<"*">>
Stars(p) == Cardinality({i \in DOMAIN TextOf(p) : TextOf(p)[i] = "*"})
Translatable(p) == Stars(p) < 2

----------------------------------------------------------------------------
(* generate_pac: deny rules, blocked categories, allow rules, the default.  *)
(* The patterns of categories are in the case of the data file, and the host *)
(* they are matched with is in lower case.                                   *)

AsWritten == [p \in Names |-> {h \in HostName : Fnmatch(p, h)}]

\* shExpMatch, and the port anywhere in the URL.
PacTests(text, req) ==
    /\ req.host \in Covers[text.pattern]
    /\ Ported(text) => text.port \in UrlShows[req.port]

\* Mutant: the allow rules come first.
PacAllowsFirst(req) ==
    IF \E t \in RuleTexts("allow") : PacTests(t, req) THEN "direct"
    ELSE IF \/ \E t \in RuleTexts("deny") : PacTests(t, req)
            \/ \E p \in BlockedPatterns : req.host \in AsWritten[p]
         THEN "block"
    ELSE IF engine.mode = "denylist" THEN "proxy" ELSE "block"

PacVerdict(req) ==
    IF \/ \E t \in RuleTexts("deny") : PacTests(t, req)
       \/ \E p \in BlockedPatterns : req.host \in AsWritten[p]
    THEN "block"
    ELSE IF \E t \in RuleTexts("allow") : PacTests(t, req) THEN "direct"
    ELSE IF engine.mode = "denylist" THEN "proxy" ELSE "block"

----------------------------------------------------------------------------
(* generate_privoxy: what blocks, then the exceptions.  A pattern is matched *)
(* label by label; with a dot in front it covers the name and all below it.  *)

LabelsMatch(p, h) ==
    Len(p) = Len(h) /\ \A i \in DOMAIN p : Fnmatch(<<p[i]>>, <<h[i]>>)

\* The last n labels.
Ending(h, n) == SubSeq(h, Len(h) - n + 1, Len(h))

PrivoxyTakes(p, h) ==
    /\ Translatable(p)
    /\ IF Starred(p)
       THEN Len(h) >= Len(p) - 1 /\ LabelsMatch(Tail(p), Ending(h, Len(p) - 1))
       ELSE LabelsMatch(p, h)

PrivoxyMatched == [p \in Names |-> {h \in HostName : PrivoxyTakes(Lower(p), h)}]

PrivoxyTests(text, req) ==
    /\ req.host \in PrivoxyMatched[text.pattern]
    /\ Ported(text) => text.port = req.port

\* Mutant: blocked categories come after the exceptions.
PrivoxyBlocksLate(req) ==
    \/ \E p \in BlockedPatterns : req.host \in PrivoxyMatched[p]
    \/ /\ ~ \E t \in RuleTexts("allow") : PrivoxyTests(t, req)
       /\ \/ engine.mode = "allowlist"
          \/ \E t \in RuleTexts("deny") : PrivoxyTests(t, req)

PrivoxyBlocks(req) ==
    /\ ~ \E t \in RuleTexts("allow") : PrivoxyTests(t, req)
    /\ \/ engine.mode = "allowlist"
       \/ \E t \in RuleTexts("deny") : PrivoxyTests(t, req)
       \/ \E p \in BlockedPatterns : req.host \in PrivoxyMatched[p]

----------------------------------------------------------------------------
(* generate_adblock: "||name^" stands for the name and all below it, "?" for *)
(* itself; ports, allow rules and the default are not written.              *)

AdblockTakes(p, h) ==
    /\ Translatable(p) /\ ~Contains(TextOf(p), "?")
    /\ \E n \in DOMAIN h : Fnmatch(IF Starred(p) THEN Tail(p) ELSE p, Ending(h, n))

AdblockMatched == [p \in Names |-> {h \in HostName : AdblockTakes(Lower(p), h)}]

AdblockBlocks(req) ==
    \/ \E t \in RuleTexts("deny") : req.host \in AdblockMatched[t.pattern]
    \/ \E p \in BlockedPatterns : req.host \in AdblockMatched[p]

----------------------------------------------------------------------------
Decided(req) == Allowed(engine, engine.overrides, Classify(req.host), req)

Texts == RuleTexts("allow") \cup RuleTexts("deny")
Hits(req) == {engine.rules[i] : i \in {j \in DOMAIN engine.rules : Matches(engine.rules[j], req)}}
OverrideOf(req) == engine.overrides[Classify(req.host)]

\* The URL shows the port a rule names exactly if it is the request's.
PortsShown(req) ==
    \A t \in Texts :
        /\ t.port # 0
        /\ Ported(t) => (t.port \in UrlShows[req.port] <=> t.port = req.port)

\* Every listed pattern means the same to the reader of the file.
SameToReader(matched, req) ==
    /\ \A t \in Texts : t.port # 0
    /\ \A p \in {t.pattern : t \in Texts} \cup Listed :
         req.host \in matched[p] <=> req.host \in Meant[p]

\* Nothing rests on the order of the rules or on which of two categories comes
\* first.
OrderFree(req) ==
    /\ \A r, s \in Hits(req) : r.kind = s.kind
    /\ \A i \in DOMAIN defined :
         req.host \in Matched[defined[i].pattern] => defined[i].category = Classify(req.host)

\* Nothing rests on an override that the files do not keep: a category that is
\* allowed against the default, and hosts without a category denied against it.
OverrideKept(req) ==
    Hits(req) = {} =>
        /\ engine.mode = "allowlist" => OverrideOf(req) # "allow"
        /\ engine.mode = "denylist" /\ Classify(req.host) = Unknown => OverrideOf(req) # "deny"

AllowedAgainstCategory(req) ==
    OverrideOf(req) = "deny" /\ \E r \in Hits(req) : r.kind = "allow"

\* The URL shows the port of each deny rule that is about it, and of the allow rules'
\* ports only its own.
PortsRead(req) ==
    /\ \A t \in RuleTexts("deny") : Ported(t) /\ t.port = req.port => t.port \in UrlShows[req.port]
    /\ \A t \in RuleTexts("allow") :
         t.port # 0 /\ (Ported(t) /\ t.port \in UrlShows[req.port] => t.port = req.port)

\* A browser with the PAC file connects past the proxy only to what the proxy
\* would let through, whatever the order of the rules, the categories and the case
\* of their patterns, as long as it reads the ports of the rules.
PacNeverBypasses ==
    \A req \in Request :
        PortsRead(req) /\ PacVerdict(req) = "direct" => Decided(req)

PacAgrees(req) ==
    /\ OrderFree(req) /\ OverrideKept(req) /\ ~AllowedAgainstCategory(req)
    /\ PortsShown(req) /\ SameToReader(AsWritten, req)
    => (PacVerdict(req) = "block" <=> ~Decided(req))

PrivoxyAgrees(req) ==
    /\ OrderFree(req) /\ OverrideKept(req)
    /\ SameToReader(PrivoxyMatched, req)
    => (PrivoxyBlocks(req) <=> ~Decided(req))

\* Only what a rule or a category denies: there is no default in the list.
AdblockAgrees(req) ==
    /\ \A p \in {t.pattern : t \in Texts} \cup Listed :
         req.host \in Meant[p] => req.host \in AdblockMatched[p]
    /\ ~Decided(req)
    /\ Hits(req) # {} \/ (OverrideOf(req) = "deny" /\ Classify(req.host) # Unknown)
    => AdblockBlocks(req)

\* The files decide what the proxy decides, where nothing rests on what they do
\* not keep: the order of rules and categories, categories allowed against the
\* default, "unknown" denied against it, ports the URL hides, and patterns the
\* reader takes otherwise: wildcards, and for the PAC file capitals in the pattern
\* of a category.  What a rule or a category denies is also in the adblock list.
ExportsAgree ==
    \A req \in Request : PacAgrees(req) /\ PrivoxyAgrees(req) /\ AdblockAgrees(req)
=============================================================================
