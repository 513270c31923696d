SPECIFICATION PairingFairSpec
CHECK_DEADLOCK FALSE
CONSTANTS
    Players = {1, 2}
    Training = {1}
    Tokens = 2
    Budgets <- OneInvitation
PROPERTIES
    AlwaysFreeAgain
