SPECIFICATION Spec
CONSTANTS
    None = None
    IoThreads = {t1}
    MaxStarts = 2
INVARIANTS NeverStuck NothingAfterStop ReturnedIsAlive WaitIsAnswered
PROPERTIES ClientStopEnds Reconnects
CHECK_DEADLOCK FALSE
