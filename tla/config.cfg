\* Two managers of one machine, or of two with different disks.
SPECIFICATION ConfigSpec
CONSTANTS
    m1 = m1
    m2 = m2
    d1 = d1
    d2 = d2
    Managers = {m1, m2}
    MaxWorkers = 6
    MaxPresent = 4
    MaxUnread = 1
    Defaults <- MCDefaults
    None = None
    Bad = Bad
    Namings <- MCNamings
    ComputerName = "A"
    Drives <- MCDrives
    SpecNames = {"S"}
    Assignments = {"disk"}
    Sections <- MCSections
    MaxEdits = 3
    MaxOpens = 1
INVARIANTS
    TreeWhole
    WaitingAgrees
PROPERTY Loads
CHECK_DEADLOCK FALSE
