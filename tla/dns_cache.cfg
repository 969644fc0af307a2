\* Four names in tables of two, two concurrent lookups, answers that expire.
CONSTANTS
    Host = {h1, h2, h3, h4}
    Caller = {a, b}
    GenLimit = 2
    TTL = 2
    MaxTime = 3
SPECIFICATION Spec
SYMMETRY CacheSymmetry
INVARIANTS
    CacheBounded
    HitsAreFresh
    KeptForAGeneration
CHECK_DEADLOCK FALSE
