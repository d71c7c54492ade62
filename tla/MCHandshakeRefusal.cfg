SPECIFICATION Spec
CONSTANTS
    Tokens = {t1, t2}
    UserTokens = {u1, u2}
    Kinds = {"this"}
    None = None
    MaxReloads = 1
    MaxLosses = 0
CHECK_DEADLOCK FALSE
INVARIANTS
    RefusalIsTrue
