SPECIFICATION Spec
CONSTANTS
    MaxFaults = 1
    Notifications = {n1}
    SupportedChannels <- OneChannel
    Keys = {}
    NoKey = NoKey
    None = None
    WorkerConcurrency = 2
    DefaultMaxRetries = 2
    RequestedRetries = {0, 1}
    RequestedSchedules <- AnyTime
    SchedulerLimit = 1
    RetryLimit = 1
INVARIANTS TypeOK ExclusiveSend AttemptBudget OverwriteCost AttemptLogInOrder SentIsRecorded AcceptedOnce CancelHolds NothingLostBeforeFirstSend
PROPERTIES FollowsLifecycle SendingIsOwned
