\* Three frames up and two down, queues of two and a stream channel of one, so that
\* every queue can be full while something is still to be sent.
SPECIFICATION TargetReadsSpec
CONSTANTS
    MaxUp = 3
    MaxDown = 2
    QueueCapacity = 2
    StreamCapacity = 1
CHECK_DEADLOCK FALSE
INVARIANTS
    EndsComplete
PROPERTIES
    EndToEnd
    StreamReleased
