SPECIFICATION Spec
CONSTANTS
    MaxFaults = 0
    Notifications = {n1}
    SupportedChannels <- OneChannel
    Keys = {}
    NoKey = NoKey
    None = None
    WorkerConcurrency = 2
    DefaultMaxRetries = 1
    RequestedRetries = {0}
    RequestedSchedules <- AnyTime
    SchedulerLimit = 1
    RetryLimit = 1
INVARIANT NoConcurrentSending
