SPECIFICATION Spec
CONSTANTS
    Products = {p1, p2}
    Lots = {l1}
    NoLot = NoLot
    Times <- MCTimes
    Prices <- MCPrices
    MaxQty = 2
    MaxRows = 3
    MaxLayers = 2
    LegacyStock = 1
SYMMETRY Symmetry
INVARIANTS
    LedgerChain
    LayersWithinStock
    LotsFollowLedger
PROPERTIES
    UncostedNeverGrows
    ValuationFollowsFifo
CHECK_DEADLOCK FALSE
