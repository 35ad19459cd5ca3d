\* Two managers of up to three workers, loopback pairs and pairs across.
SPECIFICATION Spec
CONSTANTS
    Managers = {m1, m2}
    MaxWorkers = 3
    MaxPresent = 2
    MaxUnread = 1
    Defaults <- MCDefaults
    None = None
SYMMETRY Symmetry
INVARIANTS
    PairsWhole
    InStep
CHECK_DEADLOCK FALSE
