CONSTANTS
    Uses <- QuietUses
    ConnectTimeout = 1
    MaxElapsed = 2
    Chunks <- TwoEach
    Window = 1
    RequestParts = 2
    ReplyParts = 2

SPECIFICATION Spec

INVARIANTS
    TypeOK
    InOrder
    NothingBeforeTunnel
    HalfClose

PROPERTIES
    RelayReturns
    DirectionsIndependent
    HeldOnlyByPeers
    CopyKeepsTurn
    WorkShrinks
    ImplementsPipe
    ImplementsSession
