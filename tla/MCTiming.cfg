SPECIFICATION TimedSpec
CONSTANTS
    MaxFaults = 0
    Notifications = {n1}
    SupportedChannels <- OneChannel
    Keys = {}
    NoKey = NoKey
    None = None
    WorkerConcurrency = 2
    DefaultMaxRetries = 3
    RequestedRetries = {0}
    RequestedSchedules <- AnyTime
    SchedulerLimit = 1
    RetryLimit = 1
    BaseRetryDelay = 2
    MaxRetryDelay = 3
    MaxRetryJitter = 1
INVARIANT TimingTypeOK
PROPERTY BackoffRespected
