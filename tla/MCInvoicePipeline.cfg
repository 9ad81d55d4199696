SPECIFICATION FairSpec
CONSTANTS
    MaxWorkers = 1
    MaxLoops = 1
    MaxFaults = 1
CHECK_DEADLOCK FALSE
INVARIANTS
    TypeOK
    RunnableHasJob
    ExportedWasConfirmed
    ExportWaitsForHuman
PROPERTIES
    ImplementsLifecycle
    EveryRunRests
