SPECIFICATION FairSpec
CONSTANTS
    Transfers = {t1}
    Total = 2
    Payments <- MCPayments
    Workers = {w1, w2}
    Overlap = {TRUE, FALSE}
    MaxReceipts <- MCMaxReceipts
    MaxTransactions <- MCMaxTransactions
    MaxRestarts <- MCMaxRestarts
INVARIANTS
    ConfirmedIsPosted
    TransferPostedOnce
    PostedOncePerRestart
PROPERTIES
    EveryTransferRecorded
CHECK_DEADLOCK FALSE
