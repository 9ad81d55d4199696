SPECIFICATION FairSpec
CONSTANTS
    d1 = d1
    d2 = d2
    w1 = w1
    w2 = w2
    Docs = {d1, d2}
    GoodCases = {{d1, d2}, {d1}}
    Identity <- OneInvoice
    Workers = {w1, w2}
    Owner <- Processes
    MaxHumans = 1
    MaxEvents = 1
CHECK_DEADLOCK FALSE
INVARIANTS TypeOK DisconnectHolds
PROPERTIES EveryDeliverySettled ImplementsDeliveries
