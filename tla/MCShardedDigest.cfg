SPECIFICATION Spec
CONSTANTS
    Instruments = {1, 2}
    Orders = {1, 2}
    Prices = {1, 2}
    Events <- MCEvents
    WorkerCount = 2
    BatchSize = 2
    SnapshotInterval = 4
    MaxSnapshots = 1
    MaxEvents = 3
INVARIANT
    DigestMatchesSequential
CHECK_DEADLOCK FALSE
