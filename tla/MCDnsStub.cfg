SPECIFICATION Spec
CONSTANTS
    Requests = {r1}
    OneAtATime = TRUE
    FreshPage = TRUE
    Faults = {"write", "unlink", "restart", "clear", "cancel"}
    MaxFaults = 1
    MaxCrashes = 2
INVARIANTS
    TypeOK
    Recoverable
PROPERTIES
    RestoreReturns
    FailedDisableClean
    Resolves
CHECK_DEADLOCK FALSE
