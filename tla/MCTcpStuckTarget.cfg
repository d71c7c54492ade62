\* The same instance without the assumption that the target reads.
SPECIFICATION FairSpec
CONSTANTS
    MaxUp = 2
    MaxDown = 1
    QueueCapacity = 6
    StreamCapacity = 1
PROPERTY
    StreamReleased
CHECK_DEADLOCK FALSE
