SPECIFICATION ExecutionSpec
CONSTANTS
    Engines = {e1}
    OrderIds = {o1, o2}
    Fields <- MCFields
    FillSizes = {1}
    BatchSize = 1
    MaxRequests <- MCMaxRequests
    MaxFills = 9
    Instruments = {1}
    Prices = {1, 2}
    LevelSizes = {0, 1}
    MaxMoves = 2
SYMMETRY Symmetry
INVARIANTS
    MappingsMirrorOrders
    LevelsSumOrders
    RestingMatchesGateway
PROPERTIES
    FillsReachOrder
    ConsumesOnlyVisible
