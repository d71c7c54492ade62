CONSTANTS
    g1 = g1  g2 = g2  u1 = u1  u2 = u2  n1 = n1  n2 = n2
    ip1 = ip1  ip2 = ip2  p1 = p1  p2 = p2  main = main  moved = moved
    NoIP = NoIP  NoPort = NoPort  NoToken = NoToken  SharedName = SharedName
    Tokens = {g1, u1}
    Names = {n1, n2}
    Sections = {main, moved}
    IPs = {ip1, ip2}
    Ports = {p1, p2}
    Instances = {i1, i2}
    SessionIds = {s1, s2}
    StreamIds = {1}
    Configs <- RuleConfigs
    MaxOrder = 2
SPECIFICATION FairSpec
INVARIANTS StreamsAuthorized HoldersRegistered
PROPERTIES CancelledReleased
CHECK_DEADLOCK FALSE
