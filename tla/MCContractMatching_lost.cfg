SPECIFICATION Spec
CONSTANTS
    i1 = i1
    i2 = i2
    c1 = c1
    c2 = c2
    Invoices = {i1, i2}
    Contracts = {c1, c2}
    NoContract = NoContract
    NoInvoice = NoInvoice
    Cases <- LostCases
    MaxFaults = 0
CHECK_DEADLOCK FALSE
INVARIANT NoInvoiceLeftBehind
