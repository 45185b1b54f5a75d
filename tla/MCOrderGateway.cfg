SPECIFICATION FairSpec
CONSTANTS
    Engines = {"e1", "e2"}
    OrderIds = {o1}
    Fields <- MCFields
    FillSizes = {1, 3}
    BatchSize = 2
    MaxRequests <- MCMaxRequests
    MaxFills = 2
INVARIANTS
    OrderSizesAgree
    EventsDescribeOrders
PROPERTIES
    TerminalIsFinal
    RequestsAnswered
