SPECIFICATION ServiceSpec
CHECK_DEADLOCK FALSE
CONSTANTS
    Players = {1, 2}
    Training = {1}
    Tokens = 4
    Budgets <- Scenarios
    MaxRevision = 8
    Attempts = 1
    Lister = 1
    Fresh = 9
INVARIANTS
    PairedRoles
    GameKeepsMatch
    WithdrawalReady
    OwnListingStays
PROPERTIES
    NobodyHangs
    InvitationsMeet
    NothingLeftListed
