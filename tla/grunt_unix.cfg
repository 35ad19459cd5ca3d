SPECIFICATION Spec
CONSTANTS
    Target = {1, 2}
    N = 3
    TargetOf <- MCTargetOf3
    ConnRate = {1, 2}
    TransPerConn <- MCNonePerConn
    Reply = {0, 1}
    Delays = TRUE
    Opened = {TRUE, FALSE}
    Result = {"pending", "success", "retry", "error"}
    Ending = {"full", "partial"}
    PartialResult = {"pending", "error"}
    Platform = "posix"
INVARIANTS
    SlotConservation
    ClosedMeansQuiet
    StoppedMeansGone
PROPERTIES
    ClockKept
    PipelineSpec
