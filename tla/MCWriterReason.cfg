SPECIFICATION Spec
CONSTANTS
    Streams = {s1}
    Control = Control
    MaxPayload = 2
    MaxBytes = 6
    MaxMessages = 3
    HeaderLen = 1
    QueueCapacity = 3
    WireCapacity = 2
    MaxPosted = 6
INVARIANT ReasonUnderstood
CHECK_DEADLOCK FALSE
