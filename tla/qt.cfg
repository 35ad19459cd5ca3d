SPECIFICATION FairSpec
CONSTANTS
    m1 = m1
    m2 = m2
    Managers = {m1, m2}
    Processors <- TwoAndOne
    Disks = {m1, m2}
    Queue = 1
    Batch = 0
    MaxWorkers = 2
    MaxEvents = 1
    MaxLogins = 1
INVARIANTS
    InStep
    Attributed
    FinalsShown
CHECK_DEADLOCK FALSE
PROPERTIES
    StopEnds
