SPECIFICATION Spec
CONSTANTS
    Periods <- MCPeriods
    Amounts <- MCAmounts
    Workers = {w1, w2}
    Overlap = {TRUE, FALSE}
    MaxReopens = 2
    MaxEntries <- MCMaxEntries
    MaxRequests <- MCMaxRequests
SYMMETRY WorkersAlike
INVARIANTS
    LockedByApproval
    ReopenedByApproval
    ResultCarried
    ClosingEntryKnown
CHECK_DEADLOCK FALSE
