SPECIFICATION Spec
CONSTANTS
    Hosts = {h1, h2}
    Names = {n1, n2}
    Codes = {c1, c2}
    Joiners = {j1, j2}
    Faults = {"dial", "limit", "lost", "url", "ping", "save", "timeout", "killed", "restart"}
    MaxFaults = 1
    MaxTokens = 2
    MaxEdits = 1
SYMMETRY Symmetry
INVARIANTS
    TypeOK
    CodeOnce
    UniqueEntries
    BoundStays
    EntriesAnswer
CHECK_DEADLOCK FALSE
