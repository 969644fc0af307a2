\* A slow and a fast limit, none and zero; reads of one to three units.
CONSTANTS
    Rate = {5, 20}
    None = None
    Second = 20
    ChunkSize = 3
    MaxWindow = 26
    MaxElapsed = 140
SPECIFICATION Spec
INVARIANTS
    LimitHolds
    SleepsAreShort
