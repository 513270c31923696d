SPECIFICATION FairSpec
CHECK_DEADLOCK FALSE
CONSTANTS
    Viewers = {v}
    Length = 10
    Queued = 2
    Archived = 4
    Batch = 2
    InFlight = 2
    Buffered = 1
INVARIANTS
    StreamIntact
    SentAwayForCause
PROPERTIES
    CatchesUp
