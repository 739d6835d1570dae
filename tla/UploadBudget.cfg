SPECIFICATION Spec
CONSTANTS
    s1 = s1
    s2 = s2
    Session <- TwoSessions
    MaxCrashes = 2
SYMMETRY Symmetry
CHECK_DEADLOCK FALSE
INVARIANTS
    WellFormed
    
    CancelledStaysCancelled
    JobHasSource
    SessionLeaseHasDeadline
