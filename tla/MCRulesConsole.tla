--------------------------- MODULE MCRulesConsole ---------------------------
EXTENDS RulesConsole

\* Two hosts of one category, and one that a client asks for and whose text looks
\* like a category.  Patterns for each of them and for all.
MCHost == {"ads", "cdn", "@adv"}
MCPattern == MCHost \cup {"any", "junk"}
MCCovers == [p \in MCPattern |->
               CASE p = "any" -> MCHost [] p = "junk" -> {} [] OTHER -> {p}]
MCCategoryOf == [h \in MCHost |-> "adv"]
MCRequestOf == [c \in Conn |-> [port |-> "p443", host |-> "@adv"]]

TypedText(p, n, s) == [pattern |-> p, port |-> n, spelling |-> s]

MCAtSign == [t \in {TypedText("@adv", "any", "plain")} |-> "adv"]
MCCutAt == [t \in {} |-> t]

\* A host, the same host spelled otherwise, a host and port, and everything.
MCTyped == {TypedText("ads", "any", "plain"), TypedText("ads", "any", "bracketed"),
            TypedText("ads", "p443", "plain"), TypedText("any", "any", "plain")}

\* A host, and "[@adv]", which names the target of the connection and is no category;
\* other patterns come from the files.
FewTyped == {TypedText("ads", "any", "plain"), TypedText("@adv", "any", "bracketed")}

\* The example of filters.py, a file with a rule listed twice, and one that takes an
\* override back.
MCHandWritten ==
    {<<Commented(ModeLine("allowlist")),
       RuleLine([text |-> TypedText("ads", "any", "plain"), kind |-> "allow"])>>,
     <<ModeLine("allowlist"),
       RuleLine([text |-> TypedText("ads", "any", "plain"), kind |-> "deny"]),
       RuleLine([text |-> TypedText("ads", "any", "plain"), kind |-> "deny"]),
       RuleLine([text |-> TypedText("any", "any", "plain"), kind |-> "allow"]),
       CategoryLine("adv", "allow")>>,
     <<CategoryLine("adv", "deny"), CategoryLine("adv", "default")>>}
=============================================================================
