CONSTANTS
    Threads = {t1, t2}
    Window = 2
    MaxCalls = 5
    MaxFaults = 3
SPECIFICATION AuditSpec
SYMMETRY Symmetry
INVARIANTS StoredIsChain HoleIsSeen
CHECK_DEADLOCK FALSE
