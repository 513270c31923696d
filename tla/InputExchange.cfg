SPECIFICATION FairSpec
CHECK_DEADLOCK FALSE
CONSTANTS
    Last = 5
    InFlight = 2
    Slots = 3
    Backlog = 2
    Window = 1
    Delay = 0
    Limit = 1
    Skew = 1
INVARIANTS
    NeededInputKept
PROPERTIES
    ReceivedInputKept
    EveryInputConfirmed
