SPECIFICATION Spec
CONSTANTS
    r1 = r1
    r2 = r2
    Request = {r1, r2}
    Session = {s1, s2}
    NoSession = none
    SizeOf <- OneChunk
    Modes <- BuildModes
SYMMETRY Symmetry
CHECK_DEADLOCK FALSE
INVARIANTS
    WellFormed
    LiveBuildIsRegistered
    
    NoMissedEvent
