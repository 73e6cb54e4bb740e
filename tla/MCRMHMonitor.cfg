CONSTANTS
    c1 = c1
    e1 = e1
    e2 = e2
    Callback <- MCCallback
    Event <- MCEvent
    NoEvent = NoEvent
    CanValidate = TRUE
    MaxFailures = 13
SPECIFICATION FairSpec
CHECK_DEADLOCK FALSE
INVARIANTS
    TypeOK
    ThreadOwnsHandle
    BackoffCountsFailures
PROPERTIES
    QueueSpec
    Recovers
