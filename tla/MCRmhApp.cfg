SPECIFICATION Spec
CONSTANTS
    Words <- MCWords
    NoWord = NoWord
    OptionSets <- MCOptionSets
    SocExports <- MCSocExports
    StartLevels <- MCStartLevels
    OtherLevels <- MCOtherLevels
    MaxOthers = 1
    RMH_MAX_MOCA_NODES = 4
    TopBandwidth = 3
INVARIANTS
    TypeOK
    HandlersRegistered
    AnswersTrue
    ViewerRestores
    HandleUsable
    FailureReported
    SwitchTrue
PROPERTY
    CommandEnds
