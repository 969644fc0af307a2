\* Proper and improper clients, cut off after any byte, read in any pieces.
CONSTANTS
    Script <- MCScript
    MethodList <- MCMethodList
    Reserved <- MCReserved
    Address <- MCAddress
    PortNumber <- MCPortNumber
SPECIFICATION Spec
INVARIANTS
    AcceptsWhatWasAsked
    RefusesOnlyBadRequests
    NeverWantsMore
    RefusalsAreExplained
CHECK_DEADLOCK FALSE
