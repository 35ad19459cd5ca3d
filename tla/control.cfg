SPECIFICATION FairSpec
CONSTANTS
    M = 2
    W = 3
    ManagerOf <- MCManagerOf
    Role = {"io", "idle", "none", "benched"}
    MayFail = {3}
    Granted = {TRUE, FALSE}
    Prompt = TRUE
INVARIANTS
    TargetsUnused
    BegunMeansOpened
    ReportsAgree
    FinalResultsSettled
PROPERTIES
    RoundsEnd
