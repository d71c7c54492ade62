\* An answer that fails while the client is slower than the target.
SPECIFICATION Spec
CONSTANTS
    MaxUp = 1
    MaxDown = 2
    QueueCapacity = 3
    BodyCapacity = 1
INVARIANT
    ResponseHonest
CHECK_DEADLOCK FALSE
