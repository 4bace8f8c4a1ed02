CONSTANTS
    Workers = {w1, w2}
    Entities = {e1, e2}
    Payloads = {p1, p2}
    NoRecord = NoRecord
    NoCore = NoCore
    LoadLimit = 2
    MayFail = TRUE
    MaxSaves = 4
SPECIFICATION Spec
INVARIANTS Anchored BrokenIffForked EverySaveAccounted
PROPERTY ImplementsChainedLog
CHECK_DEADLOCK FALSE
