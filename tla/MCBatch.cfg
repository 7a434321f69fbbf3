SPECIFICATION BatchSpec
CONSTANTS
    b1 = b1
    b2 = b2
    n1 = n1
    MaxFaults = 2
    Notifications = {b1, b2, n1}
    SupportedChannels <- OneChannel
    Keys = {k}
    NoKey = NoKey
    RequestedSchedules <- AnyTime
    BatchItems <- TwoItems
    ChunkSize = 1
INVARIANTS BatchTypeOK CompletedIsHandedOver LossIsReported FailedItemsAreNotSent
