SPECIFICATION FairSpec
CHECK_DEADLOCK FALSE
CONSTANTS
    Phases <- RoundRoundRetrySelectRound
    Menus = {"Select", "Retry"}
    Frames = 2
    Late = 0
    Lookahead = 0
    Window = 1
    Backlog = 1
    Reused = 1
    InFlight = 1
INVARIANTS
    StrandedByRematchOnly
    EnteredTogether
    NoFalseAlarm
PROPERTIES
    EverybodyArrives
