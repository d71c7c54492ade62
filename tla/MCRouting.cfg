SPECIFICATION RoutingSpec
CONSTANTS
    Configs <- MCConfigs
    Capacity = 1
    h1 = h1
    h2 = h2
    Clients <- MCClients
SYMMETRY Symmetry
CHECK_DEADLOCK FALSE
INVARIANTS
    RoutingTypeOK
    RoutedAsConfigured
    ChoosesOpenLeastLoaded
