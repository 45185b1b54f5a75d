SPECIFICATION FairSpec
CONSTANTS
    Items = {a, b}
    BatchSize = 2
    MaxPush = 3
INVARIANTS
    NoLostWakeup
    LinkTargetAlive
    SizeNeverWraps
PROPERTIES
    FifoSpec
    EmptyMeansDrained
    FlushedDelivered
CHECK_DEADLOCK FALSE
