SPECIFICATION FairSpec
CONSTANTS
    N = 3
    Builds = {"posix", "libaio"}
    Refusals = {"posix"}
    Uses = {"completion", "event"}
    Outcome = {"full", "short", "failed", "nospace"}
INVARIANTS
    ElementPerRequest
PROPERTIES
    ToldOfItsOwn
    PortSpec
