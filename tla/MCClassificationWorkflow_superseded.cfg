SPECIFICATION Spec
CONSTANTS
    d1 = d1
    d2 = d2
    Dims = {d1, d2}
    MaxLoops = 1
    MaxRequests = 1
    MaxFaults = 1
    Cases <- SupersededCases
CHECK_DEADLOCK FALSE
INVARIANT SupersededStaysClosed
