SPECIFICATION Spec
CONSTANTS
    Activities <- MCActivities
    Subscribers <- MCSubscribers
    Unregistered <- MCUnregistered
    Compensatable <- MCCompensatable
    Throwing <- MCThrowing
INVARIANTS
    TypeOK
    UndoIsLifo
    AtMostTwoPasses
    FaultedMeansUndone
    ResolvedMeansKept
    CompletedIsFinal
PROPERTIES
    ImplementsContract
