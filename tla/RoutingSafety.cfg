CONSTANTS
    a = a
    b = b
    invalid = invalid
    h1 = h1
    h2 = h2
    garbled = garbled
    addrA = addrA
    addrB = addrB
    None = None
    Absent = Absent
    NotYaml = NotYaml
    Configs <- MCAllConfigs
    Addr <- MCAddr
    Hellos <- MCHellos
    Split = TRUE
    Garbled = garbled
    Starts <- MCStarts
    Deployed <- MCDeployed
    MaxDeploys = 2

SPECIFICATION StartSpec

INVARIANTS
    TypeOK
    VerdictOfFile
    NeverFallsBack
    NoForeignRoute
    FirstOfOrder
    ExitTellsWhy

PROPERTY
    ImplementsRouting
