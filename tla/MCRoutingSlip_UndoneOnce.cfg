SPECIFICATION Spec
CONSTANTS
    Activities <- MCActivities
    Subscribers <- MCSubscribers
    Unregistered <- AllRegistered
    Compensatable <- MCCompensatable
    Throwing <- NoThrowing
INVARIANT UndoneOnce
