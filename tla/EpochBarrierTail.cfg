SPECIFICATION Spec
CHECK_DEADLOCK FALSE
CONSTANTS
    Phases <- RoundRetry
    Menus = {"Select", "Retry"}
    Frames = 2
    Late = 1
    Lookahead = 1
    Window = 2
    Backlog = 0
    Reused = 0
    InFlight = 1
INVARIANTS
    NobodyStranded
