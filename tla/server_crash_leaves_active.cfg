\* The documented claim, checked against the code.
CONSTANTS
    Conn = {c1, c2}
    MaxHistory = 1
    MaxConnections = 1
    MaxChunks = 0
SPECIFICATION Spec
INVARIANTS
    ActiveAreLive
CHECK_DEADLOCK FALSE
