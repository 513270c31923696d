SPECIFICATION FairSpec
CHECK_DEADLOCK FALSE
CONSTANTS
    Menus = 2
    Characters = {1, 2}
    Stages = {1}
    Settings = {1, 2}
    Default = 1
    Sessions <- TwiceAndAsking
INVARIANTS
    AsChosen
    NothingPending
PROPERTIES
    ImplementsDecision
    EverybodyLeaves
