SPECIFICATION Spec
CONSTANTS
    p1 = p1
    p2 = p2
    p3 = p3
    g1 = g1
    g2 = g2
    Ports <- MCPorts
    Configs <- MCConfigs
    Initial <- MCInitial
    MaxSaves = 1
CHECK_DEADLOCK FALSE
INVARIANTS
    SavedIsAlwaysApplied
