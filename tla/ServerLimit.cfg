CONSTANTS
    relay = relay
    twin = twin
    check = check
    r1 = r1
    r2 = r2
    r3 = r3
    t1 = t1
    h1 = h1
    Listeners <- TwinListeners
    Conns <- TwinConns
    Site <- TwinSites
    ServerOf <- OneServer
    MaxClients <- OneClientEach
    Default <- TwinDefaults
    Routes <- TwinRoutes
    Signals = {"SIGTERM"}
    FdLimit = 2
    TransientErrors = FALSE

SPECIFICATION SafetySpec

INVARIANT
    ServerLimitHolds
