CONSTANTS
    p1 = p1
    p2 = p2
    p3 = p3
    c1 = c1
    c2 = c2
    c3 = c3
    h1 = h1
    h2 = h2
    d1 = d1
    d2 = d2
    Proc = {p1}
    Client = {c1}
    Host = {h1}
    Device = {d1}
    ClientOf <- OneClient
    HostOf <- OneHost
    DeviceOf <- OneDevice
    Password <- AllGood
    Owner = Owner
    Nobody = Nobody
    MaxWork = 1
    NetworkFaults = FALSE
    Interrupts = TRUE
    OwnerActive = FALSE
    Expiry = FALSE
    Live = {d1}
SPECIFICATION Spec
INVARIANT AlwaysReleased
