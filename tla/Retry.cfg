SPECIFICATION RetryFairSpec
CHECK_DEADLOCK FALSE
CONSTANTS
    Menus = 2
    InFlight = 2
INVARIANTS
    NobodyForced
PROPERTIES
    RetryDecision
    EverybodyLeavesRetry
