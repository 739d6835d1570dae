SPECIFICATION FairSpec
CONSTANTS
    s1 = s1
    s2 = s2
    Stream <- OneStream
    NoCache <- OneStream
    Total = 2
    ChunkSize = 1
    MaxConnections = 8
    MaxCopies = 2
    MaxUpdates = 2
    Events = {"login", "close", "getFile", "release", "failure", "loss"}
CHECK_DEADLOCK FALSE

    
PROPERTIES
    SlotsComeBack
