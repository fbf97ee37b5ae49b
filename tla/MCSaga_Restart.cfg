SPECIFICATION Spec
CONSTANTS
    Events <- MCEvents
    Commands <- MCCommands
    Starting <- MCStarting
    Previous <- MCPrevious
    Target <- MCTarget
    CommandOf <- MCCommandOf
    FinalEvents <- MCFinalEvents
    Outcomes <- MCOutcomes
    Fallback <- MCFallback
    Processes <- OneProcess
    Submissions = 1
    Durable = TRUE
    Archives = TRUE
    Prefetch = 3
    MaxTries = 0
    MaxCrashes = 1
    MaxFaults = 0
    MaxTroubles = 1
CHECK_DEADLOCK FALSE
PROPERTY SagaFinishes
