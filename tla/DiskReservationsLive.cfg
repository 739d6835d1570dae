SPECIFICATION FairSpec
CONSTANTS
    r1 = r1
    r2 = r2
    r3 = r3
    k1 = k1
    k2 = k2
    None = None
    Request <- TwoCallers
    Key <- OneKey
    KeyOf <- SameKey
    CountsOf <- Builds
    Bytes = {1, 2}
    Volume = 3
    Outside = {1}
    Configs <- ReservedLimits
    FsOutcomes = {TRUE}
PROPERTIES
    HandOffEnds
    HeadWithRoomLeaves
