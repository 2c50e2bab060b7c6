CONSTANTS
    IntBits = 64
    PortCount = 2
    Management = 1
    Seed <- TwoPorts
    BadNames = {"a b"}
    Calls <- IsolationCall
    OtherRequests <- OwnerRequests
    NetworkFaults = FALSE
    MayIgnore = TRUE
    SessionLoss = FALSE
    MaxCalls = 1
SPECIFICATION Spec
INVARIANT EverySettingApplied
