SPECIFICATION Spec
CONSTANTS
    Endpoints = {e1}
    Nodes = {n1, n2}
    IoThreads = {i1}
    RecordThreads = {r1}
    TimerThreads = {}
    Nobody = Nobody
    QueueCap = 1
PROPERTIES SilentGoes
CHECK_DEADLOCK FALSE
