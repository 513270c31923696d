SPECIFICATION ConnectingFairSpec
CHECK_DEADLOCK FALSE
CONSTANTS
    Guests = {"asker", "copier"}
    ByHand = {"copier"}
    Ports = {1, 2}
    HostPorts = {1, 2}
    Candidates = {1, 2}
    Rank <- LocalFirst
    Nats <- Routers
    Attempts = 2
    Answers = 3
    None = None
    Hosting = "host"
    Joiners = {"joiner", "other"}
    Families = {"v4", "v6"}
    Helped = {"v4"}
    Nets <- Networks
    Rounds = 2
    Sides = {"left", "right"}
    Reasons = {"button", "unknown"}
    Unknown = "unknown"
    Untold = "untold"
    Samples = 2
INVARIANTS
    AcceptedNotRefused
    PathsLeadToGuest
    OnePartner
    ReportsAgree
PROPERTIES
    ImplementsPairing
    TheyMeet
    NobodyIsLeft
    NobodyPlaysAlone
