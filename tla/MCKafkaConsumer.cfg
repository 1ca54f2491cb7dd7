SPECIFICATION ConsumerFairSpec
CONSTANTS
    e1 = e1
    e2 = e2
    Executors = {e1, e2}
    MaxMessages = 4
    MaxCrashes = 2
INVARIANTS
    LossBound
PROPERTIES
    StopEnds
    EveryMessage
\* Stop ends the consumer.
CHECK_DEADLOCK FALSE
