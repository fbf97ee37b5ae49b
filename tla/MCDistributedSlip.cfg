SPECIFICATION Spec
CONSTANTS
    Activities <- MCActivities
    Discoveries <- MCDiscoveries
    Unregistered <- Itinerary
    Compensatable <- MCCompensatable
    Endpoints <- MCEndpoints
    Throwing <- EventNames
    MaxLosses = 1
INVARIANTS
    TypeOK
    FaultedMeansUndone
    ResolvedHasOneEnding
    RunsBounded
PROPERTIES
    EveryMessageRuns
    ImplementsContract
