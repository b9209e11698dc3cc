SPECIFICATION Spec
CONSTANTS
    FullSize = 5
    FirstSizes = {2, 5}
    MinTx = 1
    MinRx = 1
    MaxData = 3
    MaxPacket = 6
    NetCap = 2
    ShortRoundTrip = TRUE
    Outages = TRUE
INVARIANTS DeliveredOnce
PROPERTIES EventuallyDelivered
CHECK_DEADLOCK FALSE
