\* Three patterns, one of which matches no connection, one category, two
\* argument lists, one connection: a command treats each by itself.
CONSTANTS
    Host <- MCHost
    Pattern = {"ads", "cdn", "any"}
    Category = {"adv"}
    Covers <- MCCovers
    CategoryOf <- MCCategoryOf
    Speed = {"slow", "fast"}
    Args <- MCArgs
    NoLimit = "none"
    Conn = {c1}
    HostOf <- MCHostOf
    HandWritten <- MCHandWritten
    MaxRules = 2
SPECIFICATION Spec
INVARIANTS
    RunningFollowRules
    RestartThrottlesTheSame
PROPERTIES
    RulesNeverMisapplied
