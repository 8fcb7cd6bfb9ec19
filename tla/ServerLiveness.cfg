CONSTANTS
    relay = relay
    twin = twin
    check = check
    r1 = r1
    r2 = r2
    r3 = r3
    t1 = t1
    h1 = h1
    Listeners <- RelayAlone
    Conns <- RelayConns
    Site <- RelaySite
    ServerOf <- RelayServer
    MaxClients <- RelayClients
    Default <- RelayDefault
    Routes <- RelayRoutes
    Signals = {"SIGTERM"}
    FdLimit = 2
    TransientErrors = FALSE
    Tls <- RelayAlone
    Via <- EitherVia

SPECIFICATION GatewaySpec

INVARIANTS
    OutboundOwned

PROPERTIES
    BacklogAnswered
    TaskHeldOnlyByPeers
    DrainHeldOnlyByPeers
    ImplementsService
    ImplementsServer
    ImplementsSession
    DrainShrinks
