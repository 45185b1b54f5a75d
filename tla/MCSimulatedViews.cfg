SPECIFICATION FairSpec
CONSTANTS
    Instruments = {1}
    Orders = {1, 2}
    Prices = {1, 2}
    Engines = {1, 2}
    Feed <- MCFeed
    Requests <- MCRequests
    MaxEvents = 2
    MaxOrders <- MCMaxOrders
    MaxReads <- MCMaxReads
INVARIANTS
    FillsWereShown
    OwnReadIsAtomic
    NeighbourIsolation
PROPERTY
    CallsReturn
CHECK_DEADLOCK FALSE
