SPECIFICATION FairSpec
CONSTANTS
    Resources <- MCResources
    Rules <- MCRules
    Plan <- SelfPlan
    Origins <- AllHosts
    RuleOrigins <- AnyRules
    Requests = {q1}
    AdminWaits = TRUE
    Faults = {"step", "record", "crash"}
    MaxCrashes = 2
    MaxRule = 3
PROPERTIES
    JobEnds
    ResidueClears
    RolledBackRules
