CONSTANTS
    p1 = p1
    p2 = p2
    p3 = p3
    c1 = c1
    c2 = c2
    c3 = c3
    h1 = h1
    h2 = h2
    d1 = d1
    d2 = d2
    Proc = {p1, p2}
    Client = {c1}
    Host = {h1}
    Device = {d1}
    ClientOf <- OneClient
    HostOf <- OneHost
    DeviceOf <- OneDevice
    Password <- AllGood
    Owner = Owner
    Nobody = Nobody
    MaxWork = 2
    NetworkFaults = TRUE
    Interrupts = TRUE
    OwnerActive = TRUE
    Expiry = TRUE
    Live = {d1}
SPECIFICATION FairSpec
INVARIANT TypeOK
INVARIANT OneRequestPerDevice
INVARIANT SessionFieldsGuarded
INVARIANT NoSilentOrphan
PROPERTY OnlyOwnSessionEnded
PROPERTY EveryCallReturns
