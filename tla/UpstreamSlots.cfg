SPECIFICATION FairSpec
CONSTANTS
    r1 = r1
    r2 = r2
    r3 = r3
    Request <- ThreeRequests
    Budgets = {1, 3, 8}
    Capacities = {1, 3}
    ScanWindow = 2
    MaxHeadBypass = 1
INVARIANTS
    WellFormed
    CountersMatchLeases
    NoLostWakeup
PROPERTIES
    BypassBounded
    StrandedOnlyByBarging
    ImplementsSemaphore
