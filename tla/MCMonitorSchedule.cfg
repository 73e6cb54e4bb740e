CONSTANTS
    Stable = 2
    Ping = 4
    Dump = 9
    Period = 1
    Horizon = 11
SPECIFICATION FairSpec
INVARIANTS
    TypeOK
    NeverSilent
    PrefixMeansOwed
    OwedWhileBusy
PROPERTIES
    DumpsSpaced
    OwedDumpComes
