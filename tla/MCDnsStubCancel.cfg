SPECIFICATION Spec
CONSTANTS
    Requests = {r1}
    OneAtATime = TRUE
    FreshPage = TRUE
    Faults = {"cancel"}
    MaxFaults = 1
    MaxCrashes = 0
PROPERTIES
    RevertRestarts
CHECK_DEADLOCK FALSE
