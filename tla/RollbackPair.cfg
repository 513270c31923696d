SPECIFICATION Spec
CHECK_DEADLOCK FALSE
CONSTANTS
    Frames = 4
    Inputs = {0, 1}
    Limit = 2
    Slots = 3
    Aheads = {0}
    Extra = 1
    Ends <- BothStrike
INVARIANTS
    FedLikePeer
