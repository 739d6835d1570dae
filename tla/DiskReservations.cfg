SPECIFICATION Spec
CONSTANTS
    r1 = r1
    r2 = r2
    r3 = r3
    k1 = k1
    k2 = k2
    None = None
    Request <- ThreeCallers
    Key <- TwoKeys
    KeyOf <- KeyOfCallers
    CountsOf <- BuildAndSpool
    Bytes = {1, 2}
    Volume = 5
    Outside = {}
    Configs <- FixedConfig
    FsOutcomes = {TRUE, FALSE}
SYMMETRY SwapCallers
INVARIANTS
    WellFormed
    AccountingExact
    PoolOwnsItsEntries
    PollArmed
    HeadroomKept
    
