\* The smallest instance in which the client sends after the target has ended.
SPECIFICATION Spec
CONSTANTS
    MaxUp = 1
    MaxDown = 1
    QueueCapacity = 2
    StreamCapacity = 1
INVARIANT
    CleanCloseDelivers
CHECK_DEADLOCK FALSE
