SPECIFICATION Spec
CONSTANTS
    Events <- MCEvents
    Commands <- MCCommands
    Starting <- MCStarting
    Previous <- MCPrevious
    Target <- MCTarget
    CommandOf <- MCCommandOf
    FinalEvents <- MCFinalEvents
    Outcomes <- MCOutcomes
    Fallback <- MCFallback
    Processes <- Services
    Submissions = 2
    Durable = TRUE
    Archives = TRUE
    Prefetch = 3
    MaxTries = 0
    MaxCrashes = 1
    MaxFaults = 1
    MaxTroubles = 2
CHECK_DEADLOCK FALSE
INVARIANTS
    TypeOK
    CommandsSentOnce
    OneEnding
    SavedBeforeSent
PROPERTIES
    WorkflowRespected
    ArchivedIsFrozen
    HandlersEnd
    SagaFinishesUndisturbed
