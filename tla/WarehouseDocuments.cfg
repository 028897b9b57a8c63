SPECIFICATION Spec
CONSTANTS
    Workers = {w1, w2}
    Overlap = {TRUE, FALSE}
    Quantities <- MCQuantities
    MaxStock = 2
    Opening = 0
    MaxDocuments <- MCMaxDocuments
    MaxLedger <- MCMaxLedger
SYMMETRY Symmetry
INVARIANTS
    CountKeepsMovements
    ReceivedByApproval
PROPERTIES
    PromiseKept
CHECK_DEADLOCK FALSE
