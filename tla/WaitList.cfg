SPECIFICATION Spec
CONSTANTS
    Msgs = {m1, m2}
    Large = {}
    Medium = {m1}
    IdCount = 1
    NoId = NoId
    Lifetime = 4
    ResendTimeout = 2
    PopSlack = 1
    TimerSlack = 1
    MaxParts = 2
    MaxEmits = 2
    PromptIo = FALSE
INVARIANTS OneHome AnswerIsMine OneOutcome NoneVanishes
PROPERTIES EventuallyReleased
CHECK_DEADLOCK FALSE
