\* One worker process with two goroutines, no failures, a batch of two.
SPECIFICATION FairSpec
CONSTANTS
    n1 = n1  n2 = n2  w1 = w1  w2 = w2  w3 = w3  h1 = h1  h2 = h2
    Notification <- TwoNotifications
    Batched <- OneNotification
    Worker <- TwoWorkers
    Host = {h1}
    HostOf <- OneProcess
    MaxRetries = 3
    RowMaxRetries = 3
    Faults <- NoFaults
    NoMsg = NoMsg
CHECK_DEADLOCK FALSE
INVARIANTS
    RestIsAccountedFor
    AttemptsInOrder
    NothingLeftProcessing
PROPERTIES
    EventuallyAtRest
