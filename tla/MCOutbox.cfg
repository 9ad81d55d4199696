SPECIFICATION FairSpec
CONSTANTS
    d1 = d1
    d2 = d2
    Dispatchers = {d1, d2}
    OwnerOf <- DistinctOwners
    NoOwner = "NULL"
    NEntries = 2
    BatchSize = 2
    MaxAttempts = 2
    MaxFaults = 2
CHECK_DEADLOCK FALSE
INVARIANTS
    TypeOK
    OneJobPerClaim
    FailedOnlyExhausted
PROPERTIES
    Fenced
    ImplementsHandoff
    EverySettles
