CONSTANTS
    v10 = v10
    v20 = v20
    Node <- MCNode
    Self = 1
    Version <- MCVersion
    NoValue = NoValue
    MaxEvents = 3
    MaxQueue = 2
    MaxSessions = 2
SPECIFICATION Spec
INVARIANTS
    TypeOK
    DownIsEmpty
    SnapshotAccurate
