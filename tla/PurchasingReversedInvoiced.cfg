SPECIFICATION InvoicesStandSpec
CONSTANTS
    Workers = {w1, w2}
    Overlap = {FALSE}
    Ordered = 2
    OpeningStock = 1
    MaxReceipts <- MCMaxReceipts
    MaxChecks <- MCMaxChecks
    MaxReturns <- MCMaxReturns
    MaxInvoices <- MCMaxInvoices
    MaxDocuments <- MCMaxDocuments
    MaxLedger <- MCMaxLedger
INVARIANTS
    InvoicedWithinDelivered
CHECK_DEADLOCK FALSE
