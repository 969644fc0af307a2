---------------------------- MODULE RulesConsole ----------------------------
(***************************************************************************)
(* What the operator does to the rules while connections come and go: the  *)
(* commands and keys of tui.py, the rules file behind them, and the two    *)
(* copies of the category overrides, one that is saved (filter engine) and *)
(* one that decides (classifier).                                          *)
(*                                                                         *)
(* A command runs without an await, so it is one step.  Of a connection    *)
(* only its stage is kept; ProxyServer has the rest.  The program runs with *)
(* a rules file; the throttle lines of the file are left out.              *)
(***************************************************************************)
EXTENDS FilterRules

CONSTANTS
    Conn,
    RequestOf,    \* what each connection asks for
    CategoryOf,   \* the category classify gives each host
    Typed,        \* texts the operator types: "@..." is never one, nor are two lines
    HandWritten,  \* files the operator writes with an editor
    MaxRules      \* bound: rules in the list

ASSUME CategoryAssumption == CategoryOf \in [Host -> Category]
ASSUME InputAssumption ==
    /\ RequestOf \in [Conn -> Request]
    /\ Typed \subseteq Text /\ \A t \in Typed : Verbatim(t)
    /\ HandWritten \subseteq Seq(Line)

VARIABLES
    engine,     \* the FilterEngine
    overrides,  \* Classifier._cat_overrides
    file,       \* lines of the rules file
    saved,      \* the file is what the last save or load left
    stage       \* how far each connection is

vars == <<engine, overrides, file, saved, stage>>

Stage == {"none", "denied", "connecting", "relaying", "over"}

TypeOK ==
    /\ engine \in Engine
    /\ overrides \in [Category -> Override]
    /\ file \in Seq(Line)
    /\ saved \in BOOLEAN
    /\ stage \in [Conn -> Stage]

Init ==
    /\ engine = NewEngine
    /\ overrides = [k \in Category |-> "default"]
    /\ file = <<>> /\ saved = TRUE
    /\ stage = [c \in Conn |-> "none"]

----------------------------------------------------------------------------
(* Connections *)

Decided(req) == Allowed(engine, overrides, CategoryOf[req.host], req)

Admit(c) ==
    /\ stage[c] = "none"
    /\ stage' = [stage EXCEPT ![c] = IF Decided(RequestOf[c]) THEN "connecting" ELSE "denied"]
    /\ UNCHANGED <<engine, overrides, file, saved>>

TunnelOpens(c) ==
    /\ stage[c] = "connecting"
    /\ stage' = [stage EXCEPT ![c] = "relaying"]
    /\ UNCHANGED <<engine, overrides, file, saved>>

Ends(c) ==
    /\ stage[c] \in {"connecting", "relaying"}
    /\ stage' = [stage EXCEPT ![c] = "over"]
    /\ UNCHANGED <<engine, overrides, file, saved>>

\* cancel_connection finds registered relays only; that the relay then ends is
\* KillEndsRelay of ProxyServer.
Killed(c) ==
    stage' = IF stage[c] = "relaying" THEN [stage EXCEPT ![c] = "over"] ELSE stage

----------------------------------------------------------------------------
(* _save_rules: the file is truncated and rewritten; an OSError is logged   *)
(* and leaves a prefix, or on open the old file.                            *)

Save ==
    \/ file' = Lines(engine') /\ saved' = TRUE
    \/ file' = file /\ saved' = FALSE
    \/ /\ \E n \in 0 .. Len(Lines(engine')) - 1 : file' = SubSeq(Lines(engine'), 1, n)
       /\ saved' = FALSE

\* A command that changes the engine and saves.
Change(e) ==
    /\ engine' = e
    /\ Save

----------------------------------------------------------------------------
(* Commands *)

CmdRule(text, kind) ==
    /\ Change(AddRule(engine, text, kind))
    /\ Len(engine'.rules) <= MaxRules
    /\ UNCHANGED <<overrides, stage>>

\* Mutant: a removed rule is not saved.
RemoveUnsaved(text) ==
    /\ HasRule(engine, text)
    /\ engine' = RemoveRule(engine, text)
    /\ UNCHANGED <<overrides, file, saved, stage>>

CmdRemove(text) ==
    /\ HasRule(engine, text)
    /\ Change(RemoveRule(engine, text))
    /\ UNCHANGED <<overrides, stage>>

CmdMode(mode) ==
    /\ Change(SetMode(engine, mode))
    /\ UNCHANGED <<overrides, stage>>

\* deny @k, allow @k, remove @k.
CmdCategory(k, o) ==
    /\ overrides' = [overrides EXCEPT ![k] = o]
    /\ Change(OverrideCategory(engine, k, o))
    /\ UNCHANGED <<stage>>

\* clear deny, clear allow: remove_rule once for every rule of the kind.
ClearKind(e, kind) ==
    FoldLeft(LAMBDA x, r : IF r.kind = kind THEN RemoveRule(x, r.text) ELSE x, e, e.rules)

CmdClear(kind) ==
    /\ \E i \in DOMAIN engine.rules : engine.rules[i].kind = kind
    /\ Change(ClearKind(engine, kind))
    /\ UNCHANGED <<overrides, stage>>

CmdClearAll ==
    /\ Change(ClearRules(engine))
    /\ UNCHANGED <<overrides, stage>>

----------------------------------------------------------------------------
(* Keys on the row of a connection, live or ended *)

\* D and A: an existing rule of the other kind goes, the new one comes first;
\* with an existing rule of that kind nothing happens.
Pinned(e, h, kind) ==
    LET text == HostText(h)
    IN  IF HasRule(e, text)
        THEN PrependRule(RemoveRule(e, text), text, kind)
        ELSE PrependRule(e, text, kind)

AlreadyPinned(e, h, kind) ==
    HasRule(e, HostText(h)) /\ FindRule(e, HostText(h)).kind = kind

KeyDeny(c) ==
    LET h == RequestOf[c].host
    IN  /\ stage[c] # "none"
        /\ IF AlreadyPinned(engine, h, "deny")
           THEN UNCHANGED <<engine, file, saved, stage>>
           ELSE /\ Change(Pinned(engine, h, "deny"))
                /\ Len(engine'.rules) <= MaxRules
                /\ Killed(c)
        /\ UNCHANGED overrides

KeyAllow(c) ==
    LET h == RequestOf[c].host
    IN  /\ stage[c] # "none"
        /\ ~AlreadyPinned(engine, h, "allow")
        /\ Change(Pinned(engine, h, "allow"))
        /\ Len(engine'.rules) <= MaxRules
        /\ UNCHANGED <<overrides, stage>>

KeyRemove(c) ==
    /\ stage[c] # "none"
    /\ CmdRemove(HostText(RequestOf[c].host))

----------------------------------------------------------------------------
(* The file *)

\* Mutant: the overrides of the classifier survive a reload.
ReloadKeepsOverrides ==
    /\ engine' = Load(file)
    /\ overrides' = [k \in Category |->
                        IF engine'.overrides[k] # "default" THEN engine'.overrides[k]
                                                            ELSE overrides[k]]
    /\ saved' = TRUE
    /\ UNCHANGED <<file, stage>>

\* Startup and the reload command, the file readable.
Reload ==
    /\ engine' = Load(file)
    /\ overrides' = engine'.overrides
    /\ saved' = TRUE
    /\ UNCHANGED <<file, stage>>

\* The file cannot be opened: the old rules are gone by then.
ReloadFails ==
    /\ engine' = NewEngine
    /\ overrides' = NewEngine.overrides
    /\ saved' = FALSE
    /\ UNCHANGED <<file, stage>>

EditFile ==
    /\ file' \in HandWritten
    /\ saved' = FALSE
    /\ UNCHANGED <<engine, overrides, stage>>

----------------------------------------------------------------------------
Next ==
    \/ \E text \in Typed : CmdRemove(text) \/ \E kind \in Kind : CmdRule(text, kind)
    \/ \E mode \in Mode : CmdMode(mode)
    \/ \E k \in Category, o \in Override : CmdCategory(k, o)
    \/ \E kind \in Kind : CmdClear(kind)
    \/ CmdClearAll \/ Reload \/ ReloadFails \/ EditFile
    \/ \E c \in Conn :
         \/ Admit(c) \/ TunnelOpens(c) \/ Ends(c)
         \/ KeyDeny(c) \/ KeyAllow(c) \/ KeyRemove(c)

Spec == Init /\ [][Next]_vars

----------------------------------------------------------------------------
\* No rule is listed twice, whichever of the ways in it took: a rule that was
\* removed or cleared is gone.
NoRuleTwice ==
    \A i, j \in DOMAIN engine.rules : engine.rules[i] = engine.rules[j] => i = j

\* The cache of compiled patterns is exactly that of the listed rules: it does
\* not grow with rules long gone, and a listed rule is never recompiled.
CompiledFollowsRules ==
    engine.compiled = {engine.rules[i].text.pattern : i \in DOMAIN engine.rules}

\* The overrides that decide are the overrides that are saved.
OverridesMirrored == overrides = engine.overrides

DecidedAfterRestart(req) ==
    Allowed(Load(file), Load(file).overrides, CategoryOf[req.host], req)

AllVerbatim(e) == \A i \in DOMAIN e.rules : Verbatim(e.rules[i].text)

\* After a save that succeeded, a restart decides every request as now, unless a
\* listed rule has a text that the file does not keep.
RestartDecidesTheSame ==
    saved /\ AllVerbatim(engine)
        => \A req \in Request : DecidedAfterRestart(req) = Decided(req)

----------------------------------------------------------------------------
(* What the documentation says and the code does not do. *)

\* COMMANDS.md:15: clear deny removes deny rules only.
ClearDenyKeepsAllows ==
    \A r \in Rule :
        r.kind = "allow" /\ Contains(engine.rules, r)
            => Contains(ClearKind(engine, "deny").rules, r)
=============================================================================
