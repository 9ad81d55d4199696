SPECIFICATION FairSpec
CONSTANTS
    w1 = w1
    w2 = w2
    h1 = h1
    h2 = h2
    Workers = {w1, w2}
    Accountants = {h1, h2}
    MaxRetries = 1
    MaxFaults = 2
CHECK_DEADLOCK FALSE
INVARIANTS
    TypeOK
    AttemptsFollowDocument
    ConfirmedAsReviewed
    ExtractionNotForgotten
PROPERTIES
    IngestionEnds
