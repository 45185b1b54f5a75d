CONSTANTS
    e1 = e1
    e2 = e2
    Engines = {e1, e2}
    OrderIds = {1, 2}
    Fields <- MCFields
    FillSizes = {}
    BatchSize = 2
    MaxRequests <- MCMaxRequests
    MaxFills = 0
    Instruments = {1, 2}
    Orders = {1, 2}
    Prices = {1, 2}
    Filter = {1}
    PublishBookUpdates = TRUE
    PublishTrades = TRUE
    SnapshotDepth = 2
    SnapshotInterval = 2
    MaxAccepted = 2
    Subscriptions <- MCSubscriptions
    SubscriberBatchSize = 2
    FeedEvents <- MCFeedEvents
    MaxInputs = 3
    Runtimes <- MCRuntimes
    Latency = 1
    MaxRounds = 3

SPECIFICATION RunnerSpec

INVARIANTS
    SnapshotShowsBook
    UnfilledOrdersWait
    FlowQuiesces
    FillsAreDue

PROPERTY
    EarlierOrdersFirst
