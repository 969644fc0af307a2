---------------------------- MODULE LiveThrottle ----------------------------
(***************************************************************************)
(* throttle.py and its use: the rules, what they give a connection when it *)
(* is admitted, and the commands of the dashboard that change rules and    *)
(* pass the change on to the connections that run.                         *)
(*                                                                         *)
(* Only the start of the relay registers a limit (set_conn_throttle finds  *)
(* no other), so a connection that is still connecting keeps what admission *)
(* gave it.  The delay of a rule is fixed at admission and left out; how   *)
(* the relay spends its limit is left out, too.  The file here is the      *)
(* throttle lines of the rules file, which RulesConsole leaves out.        *)
(***************************************************************************)
EXTENDS Integers, Sequences, SequencesExt

CONSTANTS
    Host,
    Pattern,
    Category,
    Covers,       \* the hosts each pattern matches
    CategoryOf,   \* the category classify gives each host
    Speed,
    Args,         \* argument lists, as sequences of parts
    NoLimit,      \* None: not throttled in a direction
    Conn,
    HostOf,       \* the host each connection asks for
    HandWritten,  \* throttle lines the operator writes with an editor
    MaxRules      \* bound: host rules in the list

ASSUME CoversAssumption == Covers \in [Pattern -> SUBSET Host]
ASSUME HostOfAssumption == HostOf \in [Conn -> Host] /\ CategoryOf \in [Host -> Category]
ASSUME ArgsAssumption ==
    Args \subseteq Seq([key : {"down", "up", "both"}, speed : Speed] \cup [key : {"delay"}])
ASSUME NoLimitAssumption == NoLimit \notin Speed
ASSUME FiniteAssumption == IsFiniteSet(Category)

VARIABLES
    engine,   \* the ThrottleEngine
    file,     \* throttle lines of the rules file
    saved,    \* the file is what the last save or load left
    stage,    \* how far each connection is
    limit,    \* its ThrottleState
    origin    \* history variable: what gave it that limit

vars == <<engine, file, saved, stage, limit, origin>>

----------------------------------------------------------------------------
(* Rules *)

Limit == [down : Speed \cup {NoLimit}, up : Speed \cup {NoLimit}]
Unlimited == [down |-> NoLimit, up |-> NoLimit]

\* parse_throttle_args: the last part of each kind counts; a bare speed is for
\* the directions that have none of their own, wherever it stands.
Parsed(args) ==
    LET LastOf(key) ==
            LET i == SelectLastInSeq(args, LAMBDA part : part.key = key)
            IN  IF i = 0 THEN NoLimit ELSE args[i].speed
        OwnOrBoth(key) == IF LastOf(key) # NoLimit THEN LastOf(key) ELSE LastOf("both")
    IN  [down |-> OwnOrBoth("down"), up |-> OwnOrBoth("up")]

Rule == [pattern : Pattern, limit : Limit]

\* byCategory[k] = <<>>: no rule; <<l>>: limit l.
Engine == [rules : Seq(Rule),
           byCategory : [Category -> {<<>>} \cup {<<l>> : l \in Limit}]]

NewEngine == [rules |-> <<>>, byCategory |-> [k \in Category |-> <<>>]]

RuleAt(e, p) == SelectInSeq(e.rules, LAMBDA r : r.pattern = p)

\* A rule for a listed pattern takes its place.
AddRule(e, p, l) ==
    LET rule == [pattern |-> p, limit |-> l]
        i == RuleAt(e, p)
    IN  IF i = 0 THEN [e EXCEPT !.rules = Append(@, rule)] ELSE [e EXCEPT !.rules[i] = rule]

RemoveRule(e, p) == [e EXCEPT !.rules = RemoveFirstMatch(@, LAMBDA r : r.pattern = p)]

AddCategoryRule(e, k, l) == [e EXCEPT !.byCategory[k] = <<l>>]
RemoveCategoryRule(e, k) == [e EXCEPT !.byCategory[k] = <<>>]

\* match(host), without a category: the first host rule, 0 if there is none.
FirstMatch(e, h) == SelectInSeq(e.rules, LAMBDA r : h \in Covers[r.pattern])

\* match(host, category): host rules first, then the rule of the category.
Effective(e, h) ==
    LET i == FirstMatch(e, h)
        k == e.byCategory[CategoryOf[h]]
    IN  IF i # 0 THEN e.rules[i].limit
        ELSE IF k # <<>> THEN k[1] ELSE Unlimited

Line == [about : {"host"}, pattern : Pattern, limit : Limit]
        \cup [about : {"category"}, category : Category, limit : Limit]

ASSUME InputAssumption == HandWritten \subseteq Seq(Line)

RuleLine(p, l) == [about |-> "host", pattern |-> p, limit |-> l]
CategoryLine(k, l) == [about |-> "category", category |-> k, limit |-> l]

\* Mutant: a rule without a speed, latency only, is not written.
LinesWithSpeed(e) ==
    LET set == SetToSeq({k \in Category : e.byCategory[k] # <<>>})
        rules == SelectSeq(e.rules, LAMBDA r : r.limit # Unlimited)
    IN  [i \in DOMAIN rules |-> RuleLine(rules[i].pattern, rules[i].limit)]
        \o [i \in DOMAIN set |-> CategoryLine(set[i], e.byCategory[set[i]][1])]

\* The throttle part of save_rules_file.
Lines(e) ==
    LET set == SetToSeq({k \in Category : e.byCategory[k] # <<>>})
    IN  [i \in DOMAIN e.rules |-> RuleLine(e.rules[i].pattern, e.rules[i].limit)]
        \o [i \in DOMAIN set |-> CategoryLine(set[i], e.byCategory[set[i]][1])]

LoadLine(e, line) ==
    IF line.about = "host" THEN AddRule(e, line.pattern, line.limit)
                           ELSE AddCategoryRule(e, line.category, line.limit)

\* reset, then load_from_rules_file.
Load(lines) == FoldLeft(LoadLine, NewEngine, lines)

----------------------------------------------------------------------------
TypeOK ==
    /\ engine \in Engine
    /\ file \in Seq(Line)
    /\ saved \in BOOLEAN
    /\ stage \in [Conn -> {"none", "connecting", "relaying", "over"}]
    /\ limit \in [Conn -> Limit]
    /\ origin \in [Conn -> {"rules", "operator", "missed"}]

Init ==
    /\ engine = NewEngine
    /\ file = <<>> /\ saved = TRUE
    /\ stage = [c \in Conn |-> "none"]
    /\ limit = [c \in Conn |-> Unlimited]
    /\ origin = [c \in Conn |-> "rules"]

Given(c) == Effective(engine, HostOf[c])
Running == {c \in Conn : stage[c] = "relaying"}   \* keys of _conn_throttle

----------------------------------------------------------------------------
(* Connections *)

Admit(c) ==
    /\ stage[c] = "none"
    /\ stage' = [stage EXCEPT ![c] = "connecting"]
    /\ limit' = [limit EXCEPT ![c] = Given(c)]
    /\ UNCHANGED <<engine, file, saved, origin>>

\* _conn_throttle[id] is set; the state is the one admission made.
RelayStarts(c) ==
    /\ stage[c] = "connecting"
    /\ stage' = [stage EXCEPT ![c] = "relaying"]
    /\ UNCHANGED <<engine, file, saved, limit, origin>>

\* Also what forgets the history variable's remark.
Ends(c) ==
    /\ stage[c] \in {"connecting", "relaying"}
    /\ stage' = [stage EXCEPT ![c] = "over"]
    /\ limit' = [limit EXCEPT ![c] = Unlimited]
    /\ origin' = [origin EXCEPT ![c] = "rules"]
    /\ UNCHANGED <<engine, file, saved>>

----------------------------------------------------------------------------
(* What a change of rules passes on: reached is the set of connections the  *)
(* command looks up, and those that run get the limit new[c].               *)

Changed(c) == stage[c] \in {"connecting", "relaying"} /\ Given(c)' # Given(c)

PassOn(reached, new) ==
    /\ limit' = [c \in Conn |-> IF c \in reached \cap Running THEN new[c] ELSE limit[c]]
    /\ origin' = [c \in Conn |->
                    CASE c \in reached \cap Running -> "rules"
                      [] c \notin Running /\ Changed(c) -> "missed"
                      [] OTHER -> origin[c]]

NewGiven == [c \in Conn |-> Given(c)']

\* _save_rules, as in RulesConsole.
Save ==
    \/ file' = Lines(engine') /\ saved' = TRUE
    \/ file' = file /\ saved' = FALSE
    \/ /\ \E n \in 0 .. Len(Lines(engine')) - 1 : file' = SubSeq(Lines(engine'), 1, n)
       /\ saved' = FALSE

----------------------------------------------------------------------------
(* Commands *)

\* throttle <pattern> <args>: running connections of which it is the first
\* match.
CmdThrottle(p, args) ==
    /\ engine' = AddRule(engine, p, Parsed(args))
    /\ Len(engine'.rules) <= MaxRules
    /\ PassOn({c \in Conn : LET i == FirstMatch(engine', HostOf[c])
                            IN  i # 0 /\ engine'.rules[i].pattern = p}, NewGiven)
    /\ Save
    /\ UNCHANGED stage

\* Mutant: the rule is gone, the connections keep its limit.
OffForNewOnly(p) ==
    /\ RuleAt(engine, p) # 0
    /\ engine' = RemoveRule(engine, p)
    /\ Save
    /\ PassOn({}, NewGiven) /\ UNCHANGED stage

\* throttle <pattern> off: running connections the pattern matches.
CmdThrottleOff(p) ==
    /\ RuleAt(engine, p) # 0
    /\ engine' = RemoveRule(engine, p)
    /\ PassOn({c \in Conn : HostOf[c] \in Covers[p]}, NewGiven)
    /\ Save
    /\ UNCHANGED stage

\* Running connections of the category that no host rule matches.
OfCategory(k) ==
    {c \in Conn : CategoryOf[HostOf[c]] = k /\ FirstMatch(engine', HostOf[c]) = 0}

\* throttle @k <args>.
CmdCategory(k, args) ==
    LET l == Parsed(args)
    IN  /\ engine' = AddCategoryRule(engine, k, l)
        /\ PassOn(OfCategory(k), [c \in Conn |-> l])
        /\ Save
        /\ UNCHANGED stage

\* Mutant: host rules are not asked.
CategoryOffForAll(k) ==
    /\ engine.byCategory[k] # <<>>
    /\ engine' = RemoveCategoryRule(engine, k)
    /\ PassOn({c \in Conn : CategoryOf[HostOf[c]] = k}, [c \in Conn |-> Unlimited])
    /\ Save
    /\ UNCHANGED stage

\* throttle @k off.
CmdCategoryOff(k) ==
    /\ engine.byCategory[k] # <<>>
    /\ engine' = RemoveCategoryRule(engine, k)
    /\ PassOn(OfCategory(k), [c \in Conn |-> Unlimited])
    /\ Save
    /\ UNCHANGED stage

\* throttle #id <args> and throttle #id off.
CmdConn(c, l) ==
    /\ c \in Running
    /\ limit' = [limit EXCEPT ![c] = l]
    /\ origin' = [origin EXCEPT ![c] = "operator"]
    /\ UNCHANGED <<engine, file, saved, stage>>

\* throttles clear.
CmdThrottlesClear ==
    /\ engine # NewEngine
    /\ engine' = NewEngine
    /\ PassOn(Conn, [c \in Conn |-> Unlimited])
    /\ Save
    /\ UNCHANGED stage

\* The rules command and every command of RulesConsole write the file.
SaveAgain ==
    /\ UNCHANGED <<engine, stage, limit, origin>>
    /\ Save

----------------------------------------------------------------------------
(* The file *)

Reload ==
    /\ engine' = Load(file)
    /\ saved' = TRUE
    /\ PassOn(Conn, NewGiven)
    /\ UNCHANGED <<file, stage>>

\* The file cannot be opened: the rules are gone by then, and the exception
\* comes before the connections are looked up.
ReloadFails ==
    /\ engine' = NewEngine
    /\ saved' = FALSE
    /\ origin' = [c \in Conn |-> IF Changed(c) THEN "missed" ELSE origin[c]]
    /\ UNCHANGED <<file, stage, limit>>

EditFile ==
    /\ file' \in HandWritten
    /\ saved' = FALSE
    /\ UNCHANGED <<engine, stage, limit, origin>>

----------------------------------------------------------------------------
Next ==
    \/ \E c \in Conn :
         \/ Admit(c) \/ RelayStarts(c) \/ Ends(c)
         \/ \E l \in {Parsed(args) : args \in Args} \cup {Unlimited} : CmdConn(c, l)
    \/ \E p \in Pattern : CmdThrottleOff(p) \/ \E args \in Args : CmdThrottle(p, args)
    \/ \E k \in Category : CmdCategoryOff(k) \/ \E args \in Args : CmdCategory(k, args)
    \/ CmdThrottlesClear \/ SaveAgain \/ Reload \/ ReloadFails \/ EditFile

Spec == Init /\ [][Next]_vars

----------------------------------------------------------------------------
\* A relay whose limit is not the operator's own, and which was running when
\* the rules for it last changed, has the limit the rules now give it,
\* whatever was added, replaced, removed and reloaded on the way.
RunningFollowRules ==
    \A c \in Running : origin[c] = "rules" => limit[c] = Given(c)

\* Whoever set it before, a change of rules leaves the limit of a relay as it
\* is or makes it what the rules say: it never gives it the limit of a rule
\* that another one overrides, nor frees it while a rule still applies.
RulesNeverMisapplied ==
    [][engine' # engine =>
         \A c \in Running : limit'[c] \in {limit[c], Given(c)'}]_vars

\* After a save that succeeded, a restart throttles every host as now.
RestartThrottlesTheSame ==
    saved => \A h \in Host : Effective(Load(file), h) = Effective(engine, h)
=============================================================================
