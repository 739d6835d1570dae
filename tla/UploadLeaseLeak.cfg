SPECIFICATION Spec
CONSTANTS
    s1 = s1
    s2 = s2
    Session <- TwoSessions
    MaxCrashes = 0
INVARIANT JobLeaseHasJob
CHECK_DEADLOCK FALSE
