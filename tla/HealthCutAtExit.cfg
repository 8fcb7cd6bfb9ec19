CONSTANTS
    relay = relay
    twin = twin
    check = check
    r1 = r1
    r2 = r2
    r3 = r3
    t1 = t1
    h1 = h1
    Listeners <- BothListeners
    Conns <- FewConns
    Site <- FewSites
    ServerOf <- BothServers
    MaxClients <- OneClient
    Default <- BothDefaults
    Routes <- BothRoutes
    Signals = {"SIGTERM"}
    FdLimit = 2
    TransientErrors = FALSE

SPECIFICATION SafetySpec

INVARIANT
    ExitCutsNothing
