SPECIFICATION Spec
CONSTANTS
    MaxFaults = 1
    Notifications = {n1, n2}
    SupportedChannels <- OneChannel
    Keys = {k1}
    NoKey = NoKey
    None = None
    WorkerConcurrency = 1
    DefaultMaxRetries = 1
    RequestedRetries = {0}
    RequestedSchedules <- AtOnce
    SchedulerLimit = 1
    RetryLimit = 1
SYMMETRY NotificationSymmetry
INVARIANT OneDeliveryPerKey
