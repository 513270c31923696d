SPECIFICATION Spec
CONSTANTS
    MaxEpoch = 1
    Horizon = 7
    Guard = 1
    Rtts <- SmallRtts
    Errors <- SmallErrors
INVARIANTS
    AgreedStart
    HostNeverAlone
PROPERTIES
    ImplementsAgreement
