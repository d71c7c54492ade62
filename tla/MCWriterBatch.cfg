SPECIFICATION FairSpec
CONSTANTS
    Streams = {s1, s2}
    Control = Control
    MaxPayload = 2
    MaxBytes = 5
    MaxMessages = 3
    HeaderLen = 1
    QueueCapacity = 3
    WireCapacity = 2
    MaxPosted = 6
CHECK_DEADLOCK FALSE
INVARIANTS
    TypeOK
    InPostedOrder
PROPERTIES
    CancelledEnds
    EverythingReceived
