\* Two connections without a cap, one chunk each way, a history of one.
CONSTANTS
    Conn = {c1, c2}
    MaxHistory = 1
    MaxConnections = 0
    MaxChunks = 1
SPECIFICATION Spec
SYMMETRY ConnSymmetry
INVARIANTS
    RecordsFiled
    ReturnFilesRecord
    KillableWhileRelaying
    OutcomeMatchesReply
    SocketsFollowHandler
    CountedAsDelivered
    ConnectionsAccounted
PROPERTIES
    TrafficConserved
    ChangesAreVersioned
    ImplementsLifecycle
CHECK_DEADLOCK FALSE
