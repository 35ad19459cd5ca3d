SPECIFICATION FairSpec
CONSTANTS
    QDepth = 3
    Large = 3
    Config <- MCConfig
INVARIANTS
    WithinLimit
    TruthfulResult
PROPERTIES
    FillEnds
CHECK_DEADLOCK FALSE
