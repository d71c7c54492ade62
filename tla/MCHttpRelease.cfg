\* A target that answers once it has seen the whole request.
SPECIFICATION ServingSpec
CONSTANTS
    MaxUp = 1
    MaxDown = 1
    QueueCapacity = 6
    BodyCapacity = 1
PROPERTY
    RequestReleased
CHECK_DEADLOCK FALSE
