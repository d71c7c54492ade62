\* A target that ends its answer once it has seen the whole request, but may begin it before.
SPECIFICATION ServingSpec
CONSTANTS
    MaxUp = 1
    MaxDown = 1
    QueueCapacity = 6
    BodyCapacity = 1
PROPERTY
    ResponseEnds
CHECK_DEADLOCK FALSE
