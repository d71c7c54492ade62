SPECIFICATION FairSpec
CONSTANTS
    Tokens = {t1, t2}
    UserTokens = {u1, u2}
    Kinds = {"this", "v3", "v2"}
    None = None
    MaxReloads = 2
    MaxLosses = 1
CHECK_DEADLOCK FALSE
INVARIANTS
    RegisteredIsValid
    ReplyUnderstood
    NoDowngrade
PROPERTIES
    Settles
