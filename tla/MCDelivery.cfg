SPECIFICATION Spec
CONSTANTS
    Messages <- MCMessages
    Prefetch = 2
    RetryPattern <- MCRetryPattern
    RedeliveryPattern <- MCRedeliveryPattern
    Plugin = TRUE
    MaxCrashes = 1
CHECK_DEADLOCK FALSE
INVARIANTS
    TypeOK
    WorkBounded
    NothingLost
    OneOutcome
PROPERTIES
    QueueDrains
