CONSTANTS
    f1 = f1
    f2 = f2
    Name <- MCName
    None = None
    SetMacFromProc = TRUE
    MaxStreams = 3
    MaxFailed = 2
SPECIFICATION Spec
INVARIANT NullMeansLog
