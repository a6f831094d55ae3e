SPECIFICATION Spec
CONSTANTS
    Users = {u1}
    CNs = {c1, c2}
    Requests = {r1, r2}
    CertLimit = 1
    RevokeAlone = TRUE
    UserOps = {"create", "revoke", "profile", "share"}
    AdminOps = {"create", "revoke"}
    Faults = {"build", "script", "copy", "owners", "expiry", "crash"}
    MaxSerial = 2
    MaxTokens = 1
    MaxCrashes = 1
SYMMETRY Symmetry
INVARIANTS
    TypeOK
    QuotaHolds
    AckedEnforced
    OwnersKept
    OwnNames
    OneShot
CHECK_DEADLOCK FALSE
