\* Two categories of up to three patterns, rules for up to two patterns.
CONSTANTS
    Host <- MCHost
    HostName <- MCHost
    Pattern <- MCPattern
    CatPattern <- MCCatPattern
    Port = {80, 8080}
    Spelling = {"plain"}
    Category = {adv, soc, "unknown"}
    DataCategory = {adv, soc}
    Covers <- MCCovers
    AnyPort = any
    Plain = "plain"
    Junk <- MCJunk
    AtSign <- NoText
    CutAt <- NoText
    LowerCase <- MCLowerCase
    Typed <- MCTyped
    UrlShows <- MCUrlShows
    MaxPatterns = 3
    MaxEntries = 3
SPECIFICATION Spec
SYMMETRY CategorySymmetry
INVARIANTS
    IndexIsScan
    PacNeverBypasses
    ExportsAgree
