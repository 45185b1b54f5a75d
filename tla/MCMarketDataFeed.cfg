SPECIFICATION FairSpec
CONSTANTS
    Instruments = {1, 2}
    Engines = {"e1", "e2"}
    BatchSize = 2
    MaxSeqNo <- MCMaxSeqNo
    MaxFaults <- MCMaxFaults
INVARIANTS
    FeedComplete
    OkMeansComplete
    AlarmsExplained
PROPERTY
    PublishedDelivered
CHECK_DEADLOCK FALSE
