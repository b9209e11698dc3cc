SPECIFICATION Spec
CONSTANTS
    Endpoints = {e1, e2}
    Nodes = {n1, n2, n3}
    IoThreads = {i1}
    RecordThreads = {r1, r2}
    TimerThreads = {}
    Nobody = Nobody
    QueueCap = 1
INVARIANTS AtMostOneCopy
SYMMETRY Symmetry
CHECK_DEADLOCK FALSE
