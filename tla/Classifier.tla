----------------------------- MODULE Classifier -----------------------------
(***************************************************************************)
(* classifier.py: category patterns loaded in the order of the data file    *)
(* into a two-level index, and the lookup of a host in it.                  *)
(*                                                                         *)
(* A name is the sequence of its labels and a label a sequence of symbols,  *)
(* so that "*.x.com" is <<<<"*">>, <<"x">>, <<"c">>>>.  The index is used   *)
(* by top-level domain and then by the label before it; here one key holds  *)
(* both.  The overrides of the categories are in FilterRules.               *)
(***************************************************************************)
EXTENDS Integers, Sequences, SequencesExt

CONSTANTS
    HostName,      \* the hosts that are classified
    CatPattern,    \* the patterns the data file may list, in any case
    LowerCase,     \* the lower-case symbol of each upper-case one
    DataCategory,  \* the categories it may define
    MaxPatterns    \* bound: patterns listed

VARIABLES
    defined,   \* the patterns of _categories as written, in definition order
    index,     \* _index: the list of each key
    fallback   \* _fallback

classifierVars == <<defined, index, fallback>>

Unknown == "unknown"

----------------------------------------------------------------------------

\* The text of a name: its labels with dots between them.
TextOf(name) == Tail(FlattenSeq([i \in DOMAIN name |-> <<".">> \o name[i]]))

\* fnmatch.translate: "*" stands for anything, dots included, "?" for a symbol.
Fnmatch(pattern, host) ==
    LET p == TextOf(pattern)
        h == TextOf(host)
        match[i \in 0..Len(p), j \in 0..Len(h)] ==
            IF i = 0 THEN j = 0
            ELSE \/ p[i] = "*" /\ (match[i - 1, j] \/ (j > 0 /\ match[i, j - 1]))
                 \/ j > 0 /\ p[i] \in {"?", h[j]} /\ match[i - 1, j - 1]
    IN  match[Len(p), Len(h)]

LowerSymbol(symbol) ==
    IF symbol \in DOMAIN LowerCase THEN LowerCase[symbol] ELSE symbol

Lower(name) ==
    [i \in DOMAIN name |-> [j \in DOMAIN name[i] |-> LowerSymbol(name[i][j])]]

\* A pattern is compiled in lower case, as hosts are looked up.
Matched == [p \in CatPattern |-> {h \in HostName : Fnmatch(Lower(p), h)}]

\* pattern.lstrip("*.")
Stripped(pattern) ==
    LET IsStar(symbol) == symbol = "*"
        HasText(label) == \E i \in DOMAIN label : ~IsStar(label[i])
        i == SelectInSeq(pattern, HasText)
        label == pattern[i]
        j == SelectInSeq(label, LAMBDA symbol : ~IsStar(symbol))
    IN  IF i = 0 THEN <<>>
        ELSE <<SubSeq(label, j, Len(label))>> \o SubSeq(pattern, i + 1, Len(pattern))

\* The name that says where a pattern is indexed.
Root(pattern) == Stripped(Lower(pattern))

\* The last two labels.
KeyOf(name) == SubSeq(name, Len(name) - 1, Len(name))

Indexable(name) ==
    /\ Len(name) >= 2
    /\ \A i \in {Len(name) - 1, Len(name)} : ~Contains(name[i], "*")

----------------------------------------------------------------------------

ClassifierInit ==
    /\ defined = <<>>
    /\ index = [k \in {} |-> <<>>]
    /\ fallback = <<>>

Bucket(k) == IF k \in DOMAIN index THEN index[k] ELSE <<>>

\* Mutant: the newest pattern of a bucket is tried first.
IndexedFirst(entry, k) == [x \in DOMAIN index \cup {k} |->
    IF x = k THEN <<entry>> \o Bucket(k) ELSE index[x]]

Indexed(entry, k) == [x \in DOMAIN index \cup {k} |->
    IF x = k THEN Append(Bucket(k), entry) ELSE index[x]]

(* The next pattern of load_file, of the category being read or of the next *)
(* one: _index_pattern.                                                     *)
LoadPattern(p, cat) ==
    LET entry == [pattern |-> p, category |-> cat]
        name == Root(p)
    IN  /\ Len(defined) < MaxPatterns
        /\ \/ \A i \in DOMAIN defined : defined[i].category # cat
           \/ defined # <<>> /\ defined[Len(defined)].category = cat
        /\ defined' = Append(defined, entry)
        /\ IF Indexable(name)
           THEN index' = Indexed(entry, KeyOf(name)) /\ UNCHANGED fallback
           ELSE fallback' = Append(fallback, entry) /\ UNCHANGED index

\* The category of the first entry that matches.
FirstOf(entries, host) ==
    LET i == SelectInSeq(entries, LAMBDA e : host \in Matched[e.pattern])
    IN  IF i = 0 THEN Unknown ELSE entries[i].category

\* classify
Classify(host) ==
    LET found == IF Len(host) >= 2 THEN FirstOf(Bucket(KeyOf(host)), host) ELSE Unknown
    IN  IF found # Unknown THEN found ELSE FirstOf(fallback, host)

----------------------------------------------------------------------------

Listed == {defined[i].pattern : i \in DOMAIN defined}

\* What the docstring promises, without an index.
Scan(host) == FirstOf(defined, host)

\* The patterns that were not indexed, and those whose last two labels say what
\* a host must end in: whole labels without wildcards.
InFallback == {p \in CatPattern : ~Indexable(Root(p))}
Rooted == {p \in CatPattern :
    LET name == Root(p)
    IN  Indexable(name) =>
            /\ \A i \in {Len(name) - 1, Len(name)} : ~Contains(name[i], "?")
            /\ Len(name) = 2 => name = KeyOf(Lower(p))}

\* fnmatch: a host that matches a pattern ending in two whole labels ends in
\* them, as no label holds a dot.
ASSUME EndsAssumption ==
    \A p \in Rooted \ InFallback :
        \A h \in Matched[p] : Len(h) >= 2 /\ KeyOf(h) = KeyOf(Root(p))

\* For patterns that say in whole labels what a host must end in, the index
\* finds a category exactly if a scan of all patterns does, and the same one,
\* "first match wins" (classifier.py:138), unless the host is also matched by a
\* pattern that could not be indexed.
IndexIsScan ==
    Listed \subseteq Rooted =>
        \A h \in HostName :
            /\ Classify(h) = Unknown <=> Scan(h) = Unknown
            /\ (\A p \in Listed \cap InFallback : h \notin Matched[p])
                 => Classify(h) = Scan(h)
=============================================================================
