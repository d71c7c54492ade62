SPECIFICATION Spec
CONSTANTS
    Adders = {a1}
    Reloaders = {}
    Gateways = {g1}
    Names = {n1, n2}
    MaxEdits = 0
    None = None
CHECK_DEADLOCK FALSE
PROPERTIES
    RefusedOnlyByGateway
