SPECIFICATION Spec
CONSTANTS
    Messages <- MCMessages
    Prefetch = 2
    RetryPattern <- MCRetryPattern
    RedeliveryPattern <- NoPattern
    Plugin = TRUE
    MaxCrashes = 1
CHECK_DEADLOCK FALSE
INVARIANT FailedIsParked
