CONSTANTS
    Plains = {p, q}
    Receivers = {r1, r2}
    MaxSequence = 3
SPECIFICATION CipherSpec
CHECK_DEADLOCK FALSE
INVARIANTS
    NonceUnique
PROPERTIES
    DirectionsOrdered
