SPECIFICATION Spec
CONSTANTS
    Resources <- MCResources
    Rules <- MCRules
    Plan <- Port53Plan
    Origins <- FreshHosts
    RuleOrigins <- NoRules
    Requests = {q1}
    AdminWaits = TRUE
    Faults = {"crash"}
    MaxCrashes = 1
    MaxRule = 3
INVARIANTS
    ResidueHasEntries
