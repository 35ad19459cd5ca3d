SPECIFICATION Spec
CONSTANTS
    Configs <- MCConfigs
    Room = 1
INVARIANTS InSynch NothingLost
PROPERTIES Flows StopEnds
CHECK_DEADLOCK FALSE
