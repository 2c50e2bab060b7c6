CONSTANTS
    IntBits = 64
    PortCount = 2
    Management = 1
    Seeds <- WellFormed
    Calls <- ProviderCalls
    OtherRequests <- NoRequests
    NetworkFaults = TRUE
    MayIgnore = FALSE
    SessionLoss = TRUE
SPECIFICATION Spec
INVARIANT TypeOK
PROPERTY ImplementsPortView
INVARIANT OkMeansApplied
INVARIANT NativeVLANBelongs
INVARIANT SlotsUnique
