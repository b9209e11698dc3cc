SPECIFICATION Spec
CONSTANTS
    IdCount = 11
    Window = 2
    LostTtl = 2
    Long = {7}
    Rate = 2
    RepeatSpan = 4
    MaxGap = 3
    Start = 3
    ChannelCap = 1
    MaxSent = 13
    MaxTime = 4
INVARIANTS AtMostOnce
PROPERTIES ExpectsNext SkippedIsExpected
