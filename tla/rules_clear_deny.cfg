\* The documented claim, checked against the code.
CONSTANTS
    Host <- MCHost
    Pattern <- MCPattern
    Port = {"p443"}
    Spelling = {"plain", "bracketed"}
    Category = {"adv"}
    Covers <- MCCovers
    CategoryOf <- MCCategoryOf
    AnyPort = "any"
    Plain = "plain"
    Junk = "junk"
    AtSign <- MCAtSign
    CutAt <- MCCutAt
    Conn = {"c1"}
    RequestOf <- MCRequestOf
    Typed <- MCTyped
    HandWritten <- MCHandWritten
    MaxRules = 2
SPECIFICATION Spec
INVARIANTS
    ClearDenyKeepsAllows
