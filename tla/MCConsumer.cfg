SPECIFICATION FairConsumerSpec
CONSTANTS
    MaxFaults = 2
    Consumers = {c1, c2}
    Messages = {m1, bad}
    Malformed = {bad}
    ReconnectBackoff = 2
    MaxBackoff = 3
    None = None
CHECK_DEADLOCK FALSE
INVARIANTS ConsumerTypeOK NothingVanishes RedeliveryNeedsFailure OneLiveDelivery NothingHeldAfterReturn
PROPERTIES QueueMovesOn StopEndsConsume
