SPECIFICATION FairSpec
CONSTANTS
    i1 = i1
    i2 = i2
    c1 = c1
    c2 = c2
    Invoices = {i1, i2}
    Contracts = {c1, c2}
    NoContract = NoContract
    NoInvoice = NoInvoice
    Cases <- PassCases
    MaxFaults = 1
CHECK_DEADLOCK FALSE
INVARIANTS
    TypeOK
    AssociationHasEvidence
PROPERTIES
    ImplementsLifecycle
    NeverBackward
    FanOutMissesNone
    FanOutEnds
