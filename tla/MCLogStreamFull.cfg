SPECIFICATION FairSpec
CONSTANTS
    Pages = {p1}
    Settled = TRUE
    Cap = 1
    Window = 1
    MaxAsks = 2
    MaxJobs = 1
    MaxEvents = 2
    MaxFaults = 0
PROPERTIES
    Prompt
CHECK_DEADLOCK FALSE
