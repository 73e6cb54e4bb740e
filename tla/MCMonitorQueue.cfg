CONSTANTS
    c1 = c1
    c2 = c2
    e1 = e1
    e2 = e2
    e3 = e3
    Callback <- MCCallback
    Event <- MCEvent
    NoEvent = NoEvent
SPECIFICATION FairSpec
INVARIANTS
    TypeOK
    RecordLive
    LossMatchedByRepeat
    NoMissedWakeup
PROPERTIES
    ImplementsBuffer
    Drained
