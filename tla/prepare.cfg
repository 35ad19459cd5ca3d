SPECIFICATION FairSpec
CONSTANTS
    M = 2
    W = 3
    ManagerOf <- MCManagerOf
    Logical = {"a", "b", "c"}
    Raw = {"raw"}
    Assignment <- MCAssignment
    MayFail = {1, 3}
    Fallible = {"c"}
INVARIANTS
    RepliesInStep
    NoStrayThread
    ReadyMeansFilled
PROPERTIES
    AbortEnds
