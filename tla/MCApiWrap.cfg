CONSTANTS
    off = off
    on = on
    Value <- MCValue
    Support <- MCSupport
    NoHandle = NoHandle
    MaxLeaks = 1
SPECIFICATION Spec
CHECK_DEADLOCK FALSE
INVARIANTS
    TypeOK
    DepthBalanced
    AckedMasksAgree
    LinkStatusTrue
    DestroySaysFreed
PROPERTY
    CallReturns
