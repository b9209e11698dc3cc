SPECIFICATION Spec
CONSTANTS
    None = None
    MaxCalls = 3
    MaxProcs = 2
    MaxAsks = 5
INVARIANTS ReachableAlone ReportsWhatIs OneWorker
PROPERTIES CallReturns TerminateEnds
CHECK_DEADLOCK FALSE
