SPECIFICATION FairSpec
CONSTANTS
    MaxFaults = 2
    Notifications = {n1}
    SupportedChannels <- OneChannel
    Keys = {}
    NoKey = NoKey
    None = None
    WorkerConcurrency = 1
    DefaultMaxRetries = 3
    RequestedRetries = {0}
    RequestedSchedules <- Later
    SchedulerLimit = 1
    RetryLimit = 1
PROPERTY DeferredSettles
