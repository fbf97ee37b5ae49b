SPECIFICATION Spec
CONSTANTS
    Activities <- MCActivities
    Subscribers <- MCSubscribers
    Unregistered <- MCUnregistered
    Compensatable <- MCCompensatable
    Throwing <- NoThrowing
INVARIANT FailureIsUndone
