SPECIFICATION FairSpec
CONSTANTS
    Instruments = {1, 2}
    Orders = {1, 2}
    Prices = {1, 2}
    Events <- MCEvents
    WorkerCount = 2
    BatchSize = 2
    SnapshotInterval = 4
    MaxSnapshots = 1
    MaxEvents = 5
INVARIANTS
    ShardsMatchSequential
    RouterKnowsOrders
    BooksConsistent
PROPERTY
    DrainsAndFinishes
CHECK_DEADLOCK FALSE
