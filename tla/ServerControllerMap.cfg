SPECIFICATION Spec
CONSTANTS
    Endpoints = {e1}
    Nodes = {n1, n2}
    IoThreads = {i1, i2}
    RecordThreads = {r1}
    TimerThreads = {tm}
    Nobody = Nobody
    QueueCap = 1
INVARIANTS TypeOK OneNodePerEndpoint NoWaitCycle OneInProtocol
SYMMETRY Symmetry
CHECK_DEADLOCK FALSE
