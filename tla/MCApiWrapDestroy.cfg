CONSTANTS
    off = off
    on = on
    Value <- MCValue
    Support <- MCSupport
    NoHandle = NoHandle
    MaxLeaks = 1
SPECIFICATION Spec
INVARIANT DestroyFrees
