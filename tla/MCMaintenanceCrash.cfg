SPECIFICATION Spec
CONSTANTS
    Requests = {r1}
    OneAtATime = TRUE
    PutBack = FALSE
    RestartsFirst = TRUE
    InstallWaits = TRUE
    SameSecond = FALSE
    Retries = 2
    MaxOps = 3
    MaxVersion = 3
    MaxPackage = 2
    MaxPanel = 2
    MaxContent = 3
    MaxNews = 2
    MaxPlaces = 1
    Faults = {}
    MaxFaults = 0
    MaxCrashes = 1
INVARIANTS
    PkiKept
CHECK_DEADLOCK FALSE
