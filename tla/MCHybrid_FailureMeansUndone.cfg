SPECIFICATION HybridSpec
CONSTANTS
    Events <- MCEvents
    Commands <- MCCommands
    Starting <- MCStarting
    Previous <- MCPrevious
    Target <- MCTarget
    CommandOf <- MCCommandOf
    FinalEvents <- MCFinalEvents
    Outcomes <- MCOutcomes
    Fallback <- MCFallback
    Success <- MCSuccess
    Processes <- Services
    Submissions = 1
    Activities = 2
    ExecutionMode = "InProcess"
    Durable = FALSE
    Archives = FALSE
    Prefetch = 3
    MaxTries = 0
    MaxCrashes = 0
    MaxFaults = 1
    MaxTroubles = 1
CHECK_DEADLOCK FALSE
INVARIANT FailureMeansUndone
