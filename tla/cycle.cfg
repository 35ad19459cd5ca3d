\* The sequence of tests for every test type, on uneven workers.
SPECIFICATION CycleSpec
CONSTANTS
    Setups <- MCSetups
    Layouts <- MCLayouts
    Newcomers <- MCNewcomers
    MaxWorkers = 4
    MaxRuns = 40
INVARIANTS
    AsDocumented
    DepthsRestored
PROPERTY
    SeriesEnds
CHECK_DEADLOCK FALSE
