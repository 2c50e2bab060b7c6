CONSTANTS
    IntBits = 64
    PortCount = 2
    Management = 1
    Seed <- TwoPorts
    BadNames = {"a b"}
    Calls <- AllCalls
    OtherRequests <- OwnerRequests
    NetworkFaults = TRUE
    MayIgnore = TRUE
    SessionLoss = TRUE
    MaxCalls = 2
SPECIFICATION Spec
INVARIANT TypeOK
INVARIANT OkMeansApplied
PROPERTY PortsMoveAsAsked
PROPERTY KnobsMoveAsAsked
PROPERTY NothingUnrecoverable
PROPERTY PanicNeedsLostSession
