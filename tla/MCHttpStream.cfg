\* Two chunks each way with full queues and body channels.
SPECIFICATION FairSpec
CONSTANTS
    MaxUp = 2
    MaxDown = 2
    QueueCapacity = 2
    BodyCapacity = 1
CHECK_DEADLOCK FALSE
INVARIANTS
    TypeOK
    BodiesComplete
    NoEntryLeft
PROPERTIES
    BodiesRefine
    LossEndsRequest
