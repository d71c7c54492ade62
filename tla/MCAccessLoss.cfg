SPECIFICATION FairSpec
CONSTANTS
    h1 = h1
    h2 = h2
    Handlers <- TwoHandlers
    QueueCapacity = 1
    MaxSessions = 2
PROPERTY
    LossEndsSession
CHECK_DEADLOCK FALSE
