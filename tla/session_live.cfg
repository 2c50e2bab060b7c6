CONSTANTS
    p1 = p1
    p2 = p2
    p3 = p3
    c1 = c1
    c2 = c2
    c3 = c3
    h1 = h1
    h2 = h2
    d1 = d1
    d2 = d2
    Proc = {p1, p2, p3}
    Client = {c1, c2, c3}
    Host = {h1, h2}
    Device = {d1, d2}
    ClientOf <- ClientPerProc
    HostOf <- LastElsewhere
    DeviceOf <- DevicePerHost
    Password <- NoneElsewhere
    Owner = Owner
    Nobody = Nobody
    MaxWork = 1
    NetworkFaults = FALSE
    Interrupts = FALSE
    OwnerActive = TRUE
    Expiry = FALSE
    Live = {d1}
SPECIFICATION FairSpec
INVARIANT SiblingNeverBlocksLogin
PROPERTY SessionGivenBack
PROPERTY EveryCallReturns
