SPECIFICATION FairSpec
CONSTANTS
    Modes = {"Sync", "Async"}
    MaxSnapshots = 5
INVARIANTS
    NoLostWakeup
    SubmittedInOrder
    FinishWritesAll
PROPERTY
    WritesAndFinishes
CHECK_DEADLOCK FALSE
