SPECIFICATION Spec
CONSTANTS
    a1 = a1
    a2 = a2
    g1 = g1
    g2 = g2
    n1 = n1
    n2 = n2
    Adders <- MCAdders
    Reloaders = {}
    Gateways <- MCGateways
    Names <- MCNames
    MaxEdits = 1
    None = None
SYMMETRY Symmetry
CHECK_DEADLOCK FALSE
INVARIANTS
    UsersKept
    EndpointOwned
    NoCommandStuck
