\* Two connections on one slot; no relay moves data.
CONSTANTS
    Conn = {c1, c2}
    MaxHistory = 1
    MaxConnections = 1
    MaxChunks = 0
SPECIFICATION FairSpec
INVARIANTS
    TypeOK
    SlotsConserved
PROPERTIES
    HandshakeEnds
    ConnectingSettles
    StopEndsServe
    KillEndsRelay
    OneSideEndsBoth
CHECK_DEADLOCK FALSE
