\* Three messages of two priorities; two sends in a window of three.
SPECIFICATION Spec
CONSTANTS
    m1 = m1  m2 = m2  m3 = m3
    Message <- Messages
    PriorityOf <- Priorities
    Weight = 20
    MaxTime = 5
    Limit = 2
    Window = 3
    Lag = 1
    Lead = 1
CHECK_DEADLOCK FALSE
INVARIANTS
    TypeOK
    WindowBound
    RefusalIsDue
PROPERTIES
    ServedInOrder
