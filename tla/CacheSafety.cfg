CONSTANTS
    c1 = c1
    c2 = c2
    a4 = a4
    b4 = b4
    a6 = a6
    None = None
    Callers = {c1, c2}
    V4 = {a4, b4}
    V6 = {a6}
    Zones <- MovingZones
    Mode = "tcp4"
    GoodTtl = 2
    BadTtl = 1
    LookupsFail = TRUE

SPECIFICATION Spec

INVARIANTS
    TypeOK
    StampsKnown

PROPERTIES
    ServedWithinTtl
    OvertakenOnlySpent
    Reresolved
