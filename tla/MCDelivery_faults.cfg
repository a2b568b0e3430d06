\* Two worker processes, every kind of failure, one notification.
SPECIFICATION Spec
CONSTANTS
    n1 = n1  n2 = n2  w1 = w1  w2 = w2  w3 = w3  h1 = h1  h2 = h2
    Notification <- OneNotification
    Batched = {}
    Worker <- ThreeWorkers
    Host = {h1, h2}
    HostOf <- Replicas
    MaxRetries = 3
    RowMaxRetries = 3
    Faults <- AllButResend
    NoMsg = NoMsg
CHECK_DEADLOCK FALSE
INVARIANTS
    TypeOK
    SoleCustodian
    OneOutcome
PROPERTIES
    FinalUnlessInFlight
    KeepsPromise
