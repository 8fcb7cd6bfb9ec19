CONSTANTS
    relay = relay
    twin = twin
    check = check
    r1 = r1
    r2 = r2
    r3 = r3
    t1 = t1
    h1 = h1
    Listeners <- BothListeners
    Conns <- RelayAndCheckConns
    Site <- BothSites
    ServerOf <- BothServers
    MaxClients <- TwoClients
    Default <- BothDefaults
    Routes <- BothRoutes
    Signals = {"SIGTERM", "SIGINT"}
    FdLimit = 3
    TransientErrors = TRUE

SPECIFICATION SafetySpec

SYMMETRY RelaySymmetry

INVARIANTS
    TypeOK
    PermitConservation
    LimitHolds
    GaugeCountsClients
    DrainComplete
    ServerInv

PROPERTY
    RejectOnlyAtCapacity
