\* One batched notification, one worker, no failures: a cancellation that comes late.
SPECIFICATION Spec
CONSTANTS
    n1 = n1  n2 = n2  w1 = w1  w2 = w2  w3 = w3  h1 = h1  h2 = h2
    Notification <- OneNotification
    Batched <- OneNotification
    Worker <- OneWorker
    Host = {h1}
    HostOf <- OneProcess
    MaxRetries = 3
    RowMaxRetries = 3
    Faults <- NoFaults
    NoMsg = NoMsg
CHECK_DEADLOCK FALSE
PROPERTIES
    CancelledStaysCancelled
