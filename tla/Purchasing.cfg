SPECIFICATION PurchasingSpec
CONSTANTS
    Workers = {w1, w2}
    Overlap = {TRUE, FALSE}
    Ordered = 2
    OpeningStock = 1
    MaxReceipts <- MCMaxReceipts
    MaxChecks <- MCMaxChecks
    MaxReturns <- MCMaxReturns
    MaxInvoices <- MCMaxInvoices
    MaxDocuments <- MCMaxDocuments
    MaxLedger <- MCMaxLedger
SYMMETRY Symmetry
INVARIANTS
    ReceivedIsDelivered
    ReturnMovedOnce
    ReceiptMovesSettle
CHECK_DEADLOCK FALSE
