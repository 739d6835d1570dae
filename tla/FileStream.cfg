SPECIFICATION Spec
CONSTANTS
    s1 = s1
    s2 = s2
    Stream <- TwoStreams
    NoCache <- OneStream
    Total = 2
    ChunkSize = 2
    MaxConnections = 8
    MaxCopies = 2
    MaxUpdates = 2
    Events = {"failure", "loss"}
CHECK_DEADLOCK FALSE
INVARIANTS
    WellFormed
    ExactBody
    StrandsNobody
PROPERTIES
    ServesOnlyVouched
