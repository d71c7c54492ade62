\* One chunk each way: the outbound queue of the access can be full.
SPECIFICATION FairSpec
CONSTANTS
    MaxUp = 1
    MaxDown = 1
    QueueCapacity = 2
    BodyCapacity = 1
PROPERTY
    LossAnswersClient
CHECK_DEADLOCK FALSE
