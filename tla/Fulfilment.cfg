SPECIFICATION FulfilmentSpec
CONSTANTS
    Products = {p1}
    Lines <- MCLines
    Opening <- MCOpening
    Clerks = {k1}
    Workers = {w1}
    MaxShipments = 1
    Contracts = {c1}
    Overlap = {TRUE}
    MaxRequests <- MCMaxRequests
    MaxDeliveries = 1
    MaxMoves = 1
PROPERTIES
    OverReservedOnlyByOthers
CHECK_DEADLOCK FALSE
