SPECIFICATION FairSpec
CONSTANTS
    Documents = {d1}
    MayAct <- MCAllButOne
    Depth = 3
    Workers = {w1, w2, w3}
    Overlap = {TRUE, FALSE}
    MaxRequests <- MCMaxRequests
INVARIANTS
    NoStepSkipped
    ApprovedByEveryStepSerially
    NeverStuck
PROPERTIES
    EveryRequestServed
CHECK_DEADLOCK FALSE
