SPECIFICATION TimerSpec
CONSTANTS
    Calls = {c1, c2, c3}
    Slack = 1
    MaxTime = 3
    NoTime = NoTime
INVARIANTS NoLostWakeup NeverEarly EmittedOnce
PROPERTIES EventuallyEmitted StopEnds
CHECK_DEADLOCK FALSE
