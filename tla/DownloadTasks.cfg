SPECIFICATION Spec
CONSTANTS
    t1 = t1
    t2 = t2
    b1 = b1
    b2 = b2
    f1 = f1
    f2 = f2
    None = None
    Task <- TwoTasks
    Body <- TwoBodies
    File <- TwoFiles
    FileOf <- FilesOf
    Slots = 2
    QueueCapacity = 2
    HasRepository = FALSE
    DbOutcomes = {TRUE}
SYMMETRY SwapTasks
INVARIANTS
    WellFormed
    ReservationsConserved
    EndedTasksHoldNothing
    TicketIsBacked
