SPECIFICATION FairSpec
CONSTANTS
    t1 = t1
    t2 = t2
    b1 = b1
    b2 = b2
    f1 = f1
    f2 = f2
    None = None
    Task <- OneTask
    Body <- OneBody
    File <- OneFile
    FileOf <- SingleTask
    Slots = 1
    QueueCapacity = 1
    HasRepository = TRUE
    DbOutcomes = {TRUE}
INVARIANTS
    QueuedRowsAreOurs
PROPERTIES
    HeldIsGivenUp
