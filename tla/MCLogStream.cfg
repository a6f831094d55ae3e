SPECIFICATION FairSpec
CONSTANTS
    Pages = {p1}
    Settled = TRUE
    Cap = 2
    Window = 2
    MaxAsks = 2
    MaxJobs = 2
    MaxEvents = 3
    MaxFaults = 2
INVARIANTS
    TypeOK
    NoGaps
    Complete
PROPERTIES
    JobEnds
    Finishes
CHECK_DEADLOCK FALSE
