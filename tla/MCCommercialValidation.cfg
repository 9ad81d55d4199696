SPECIFICATION FairSpec
CONSTANTS
    w1 = w1
    w2 = w2
    f1 = f1
    Workers = {w1, w2}
    Findings = {f1}
    MaxReruns = 1
    MaxChanges = 1
    MaxFaults = 1
CHECK_DEADLOCK FALSE
INVARIANTS
    TypeOK
    ValidatedHasBasis
    CorrectionsAreSeen
    ValidationHasJob
PROPERTIES
    ImplementsLifecycle
    ValidationEnds
