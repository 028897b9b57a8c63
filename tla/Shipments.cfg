SPECIFICATION Spec
CONSTANTS
    Contracts = {c1}
    Products = {p1}
    Lines <- MCLines
    Opening <- MCOpening
    Clerks = {k1, k2}
    MaxMoves = 1
    MaxShipments = 1
    MaxDeliveries = 2
SYMMETRY ClerksAlike
INVARIANTS
    TypeOK
    StockConserved
    OneActiveDelivery
    NothingSailsUnissued
CHECK_DEADLOCK FALSE
