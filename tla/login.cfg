\* Two Dynamos of this version and one of another, with mishaps and resets.
SPECIFICATION Spec
CONSTANTS
    d1 = d1
    d2 = d2
    d3 = d3
    None = None
    Dynamos = {d1, d2, d3}
    Incompatible = {d3}
    Units = 4
    Backlog = 1
    MaxRemovals = 1
    MaxMishaps = 1
INVARIANTS
    ListIsTrue
PROPERTY
    EveryoneServed
CHECK_DEADLOCK FALSE
