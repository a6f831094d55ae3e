SPECIFICATION Spec
CONSTANTS
    Requests = {r1}
    OneAtATime = TRUE
    PutBack = TRUE
    RestartsFirst = TRUE
    InstallWaits = TRUE
    SameSecond = FALSE
    Retries = 2
    MaxOps = 3
    MaxVersion = 3
    MaxPackage = 2
    MaxPanel = 2
    MaxContent = 3
    MaxNews = 2
    MaxPlaces = 1
    Faults = {"extract", "rename", "marker", "copy", "upload", "unpack", "move", "read", "apt", "status", "restart"}
    MaxFaults = 1
    MaxCrashes = 2
INVARIANTS
    TypeOK
    PkiKept
    FilesKept
    MarkerTrue
    BinaryKept
    AnswersTrue
CHECK_DEADLOCK FALSE
