SPECIFICATION Spec
CONSTANTS
    Msgs = {m1}
    Large = {m1}
    Medium = {m1}
    IdCount = 2
    NoId = NoId
    Lifetime = 3
    ResendTimeout = 2
    PopSlack = 1
    TimerSlack = 1
    MaxParts = 0
    MaxEmits = 1
    PromptIo = TRUE
PROPERTIES EventuallyCalledBack
CHECK_DEADLOCK FALSE
