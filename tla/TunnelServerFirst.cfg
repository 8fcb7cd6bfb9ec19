CONSTANTS
    Uses <- ServerFirstUse
    ConnectTimeout = 1
    MaxElapsed = 2
    Chunks <- TwoEach
    Window = 1
    RequestParts = 2
    ReplyParts = 2

SPECIFICATION SafetySpec

INVARIANT
    InOrder
