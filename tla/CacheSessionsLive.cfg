SPECIFICATION FairSpec
CONSTANTS
    r1 = r1
    r2 = r2
    Request = {r1, r2}
    Session = {s1}
    NoSession = none
    SizeOf <- OneChunk
    Modes <- MixedModes
PROPERTIES
    FenceFalls
    
CHECK_DEADLOCK FALSE
