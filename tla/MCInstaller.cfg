SPECIFICATION Spec
CONSTANTS
    Resources <- MCResources
    Rules <- MCRules
    Plan <- Port53Plan
    Origins <- AllHosts
    RuleOrigins <- NoRules
    Requests = {q1}
    AdminWaits = TRUE
    Faults = {"step", "record", "undo", "unlink", "save", "crash"}
    MaxCrashes = 1
    MaxRule = 3
INVARIANTS
    TypeOK
    WriteAhead
    RecoveryInv
PROPERTIES
    ResidueGoesClean
    CommittedStays
    ImplementsAtomic
