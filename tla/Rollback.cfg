SPECIFICATION FairSpec
CHECK_DEADLOCK FALSE
CONSTANTS
    Frames = 4
    Inputs = {0, 1}
    Limit = 2
    Slots = 3
    Aheads <- Leads
    Extra = 1
    Ends <- BothStrike
INVARIANTS
    NeverFails
    ConfirmedIsTruth
PROPERTIES
    PresentsAllKnown
    ImplementsLockstep
    Progress
