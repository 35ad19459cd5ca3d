SPECIFICATION FairSpec
CONSTANTS
    Target = {1, 2}
    N = 2
    TargetOf <- MCTargetOf2
    ConnRate = {2}
    TransPerConn <- MCOnePerConn
    Reply = {0}
    Delays = FALSE
    Opened = {TRUE}
    Result = {"pending", "error"}
    Ending = {"full", "abort"}
    PartialResult = {}
    Platform = "windows"
PROPERTIES
    StopTerminates
    EveryTargetServed
