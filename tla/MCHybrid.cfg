SPECIFICATION HybridSpec
CONSTANTS
    Events <- MCEvents
    Commands <- MCCommands
    Starting <- MCStarting
    Previous <- MCPrevious
    Target <- MCTarget
    CommandOf <- MCCommandOf
    FinalEvents <- MCFinalEvents
    Outcomes <- MCOutcomes
    Fallback <- MCFallback
    Success <- MCSuccess
    Processes <- Services
    Submissions = 1
    Activities = 2
    ExecutionMode = "Distributed"
    Durable = FALSE
    Archives = FALSE
    Prefetch = 3
    MaxTries = 0
    MaxCrashes = 1
    MaxFaults = 1
    MaxTroubles = 1
CHECK_DEADLOCK FALSE
INVARIANTS
    HybridTypeOK
    ReportsAreTrue
    WorkBounded
PROPERTIES
    OrderIsReleased
