--------------------------- MODULE MCLiveThrottle ---------------------------
EXTENDS LiveThrottle

\* Two hosts of one category, a pattern for either of them and for both.
MCHost == {"ads", "cdn"}
MCCovers == [p \in Pattern |-> IF p = "any" THEN MCHost ELSE {p}]
MCCategoryOf == [h \in MCHost |-> "adv"]
MCHostOf == [c \in Conn |-> "ads"]

Both(s) == [key |-> "both", speed |-> s]
Down(s) == [key |-> "down", speed |-> s]
Delay == [key |-> "delay"]

\* A speed for both directions with another one down; latency only.
MCArgs == {<<Down("slow"), Both("fast")>>, <<Delay>>}

\* A file that lists a pattern twice.
MCHandWritten ==
    {<<RuleLine("any", Parsed(<<Both("slow")>>)), RuleLine("ads", Unlimited),
       RuleLine("any", Unlimited), CategoryLine("adv", Parsed(<<Both("slow")>>))>>}
=============================================================================
