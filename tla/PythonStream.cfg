SPECIFICATION FairPSSpec
CONSTANTS
    main = main
    other = other
    worker = worker
    Callers <- MCCallers
    Main = main
    Nobody = Nobody
    Exported = Exported
    Workers <- MCWorkers
    BatchCount = 1
    MaxCalls = 3
    MaxHandlers = 1
INVARIANTS
    ReaderDestroyedOnce
    FailureNeverLooksLikeEnd
PROPERTIES
    CallsReturn
CHECK_DEADLOCK FALSE
