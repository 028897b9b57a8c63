SPECIFICATION PayablesSpec
CONSTANTS
    Billed = 2
    Amounts <- MCAmounts
    Entered = {1}
    Workers = {w1, w2}
    Overlap = {TRUE, FALSE}
    MaxPayables <- MCMaxPayables
    MaxBatches <- MCMaxBatches
    MaxRequests <- MCMaxRequests
    MaxTransactions <- MCMaxTransactions
SYMMETRY WorkersAlike
INVARIANTS
    PaidIsSettled
    MovedByApproval
    VoidOwesNothing
CHECK_DEADLOCK FALSE
