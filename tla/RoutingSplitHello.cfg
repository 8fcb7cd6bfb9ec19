CONSTANTS
    a = a
    b = b
    invalid = invalid
    h1 = h1
    h2 = h2
    garbled = garbled
    addrA = addrA
    addrB = addrB
    None = None
    Configs <- MCConfigs
    Addr <- MCAddr
    Hellos <- MCHellos
    Split = TRUE
    Garbled = garbled

SPECIFICATION Spec

INVARIANT
    RoutedByName
