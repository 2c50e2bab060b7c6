CONSTANTS
    IntBits = 64
    PortCount = 2
    Management = 1
    Seeds <- TwoByTwo
    Calls <- AllCalls
    OtherRequests <- OwnerRequests
    NetworkFaults = TRUE
    MayIgnore = TRUE
    SessionLoss = FALSE
SPECIFICATION Spec
INVARIANT OkMeansApplied
PROPERTY ManagementKept
