\* Two texts typed, one the connection's host in another spelling, more from three
\* files, up to two rules, one connection.
CONSTANTS
    Host <- MCHost
    Pattern <- MCPattern
    Port = {"p443"}
    Spelling = {"plain", "bracketed"}
    Category = {"adv"}
    Covers <- MCCovers
    CategoryOf <- MCCategoryOf
    AnyPort = "any"
    Plain = "plain"
    Junk = "junk"
    AtSign <- MCAtSign
    CutAt <- MCCutAt
    Conn = {"c1"}
    RequestOf <- MCRequestOf
    Typed <- FewTyped
    HandWritten <- MCHandWritten
    MaxRules = 2
SPECIFICATION Spec
INVARIANTS
    NoRuleTwice
    CompiledFollowsRules
    OverridesMirrored
    RestartDecidesTheSame
