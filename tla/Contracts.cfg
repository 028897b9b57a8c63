SPECIFICATION Spec
CONSTANTS
    c1 = c1
    c2 = c2
    p1 = p1
    w1 = w1
    w2 = w2
    Products = {p1}
    Opening <- MCOpening
    Lines <- MCLines
    Contracts = {c1, c2}
    Workers = {w1, w2}
    Overlap = {TRUE, FALSE}
    MaxRequests <- MCMaxRequests
SYMMETRY WorkersAlike
INVARIANTS
    TypeOK
    NoOverselling
    NothingPastApprovalUnapproved
    HeldMatchesStatus
    ReservedMatchesHeld
CHECK_DEADLOCK FALSE
