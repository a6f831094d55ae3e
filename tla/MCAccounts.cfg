SPECIFICATION Spec
CONSTANTS
    Users = {u1}
    Passwords = {p1, p2}
    Requests = {r1, r2}
    Faults = {"save", "reload", "restore", "write", "move"}
    MaxFaults = 1
    MaxCrashes = 1
    MaxBorn = 2
    RestoreAlone = TRUE
    TokenRace = FALSE
SYMMETRY Symmetry
INVARIANTS
    TypeOK
    AckedKept
    SetupOnce
CHECK_DEADLOCK FALSE
