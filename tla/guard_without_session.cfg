CONSTANTS
    IntBits = 64
    PortCount = 1
    Management = 1
    Seeds <- EmptyingSeed
    Calls <- DeleteManagement
    OtherRequests <- OneOtherRequest
    NetworkFaults = FALSE
    MayIgnore = FALSE
    SessionLoss = TRUE
SPECIFICATION Spec
PROPERTY ManagementKept
