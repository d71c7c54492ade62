CONSTANTS
    g1 = g1  g2 = g2  u1 = u1  u2 = u2  n1 = n1  n2 = n2
    ip1 = ip1  ip2 = ip2  p1 = p1  p2 = p2  main = main  moved = moved
    NoIP = NoIP  NoPort = NoPort  NoToken = NoToken  SharedName = SharedName
    Tokens = {g1, g2, u1, u2}
    Names = {n1, n2}
    Sections = {main, moved}
    IPs = {}
    Ports = {p1}
    Instances = {i1, i2}
    SessionIds = {s1, s2, s3}
    StreamIds = {}
    Configs <- RegistryConfigs
    MaxOrder = 3
SYMMETRY RegistrySymmetry
SPECIFICATION Spec
CHECK_DEADLOCK FALSE
INVARIANTS
    LiveCredentialCurrent
    SingleAccess
    TakeoverIsFinal
PROPERTIES
    TakesOver
    CancellationFinal
    ReplacedByNewer
