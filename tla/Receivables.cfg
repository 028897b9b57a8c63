SPECIFICATION ReceivablesSpec
CONSTANTS
    Shipments = {s1, s2}
    Total = 2
    Payments <- MCPayments
    Workers = {w1, w2}
    Overlap = {TRUE, FALSE}
    MaxInvoices <- MCMaxInvoices
    MaxReceivables <- MCMaxReceivables
    MaxReceipts <- MCMaxReceipts
    MaxAllocations <- MCMaxAllocations
SYMMETRY Alike
INVARIANTS
    PaidIsBacked
    StatusFollowsPaid
    RevenueOnce
PROPERTIES
    PaidContractOwesNothing
CHECK_DEADLOCK FALSE
