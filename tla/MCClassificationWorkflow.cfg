SPECIFICATION FairSpec
CONSTANTS
    d1 = d1
    d2 = d2
    Dims = {d1, d2}
    MaxLoops = 1
    MaxRequests = 1
    MaxFaults = 1
    Cases <- PassCases
CHECK_DEADLOCK FALSE
INVARIANTS TypeOK ReadyIsFinal ClassifiedIsAttended
PROPERTIES AcceptedStays AnalysisEndsOnce AnalysisHandsOver ImplementsLifecycle
