SPECIFICATION FairSpec
CONSTANTS
    MaxFaults = 1
    Notifications = {n1}
    SupportedChannels <- TwoChannels
    Keys = {}
    NoKey = NoKey
    None = None
    WorkerConcurrency = 2
    DefaultMaxRetries = 2
    RequestedRetries = {0, 1}
    RequestedSchedules <- AnyTime
    SchedulerLimit = 1
    RetryLimit = 1
PROPERTY QueuesDrain
