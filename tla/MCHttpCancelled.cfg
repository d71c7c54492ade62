\* A client whose request body breaks off.
SPECIFICATION Spec
CONSTANTS
    MaxUp = 1
    MaxDown = 1
    QueueCapacity = 3
    BodyCapacity = 1
INVARIANT
    RequestHonest
CHECK_DEADLOCK FALSE
