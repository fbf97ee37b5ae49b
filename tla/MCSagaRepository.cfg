SPECIFICATION Spec
CONSTANTS
    c1 = c1
    c2 = c2
    Clients <- MCClients
    Attempts <- MCAttempts
    Archives = TRUE
    MaxFaults <- MCMaxFaults
    MaxCalls <- MCMaxCalls
CHECK_DEADLOCK FALSE
INVARIANTS
    TypeOK
    SaveTakesEffectOnce
PROPERTIES
    NoLostUpdate
    RemovedIsNotFound
    CallsSettle
