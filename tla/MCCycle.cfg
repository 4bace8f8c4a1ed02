CONSTANTS
    Workers = {w1, w2}
    MaxSaves = 4
    NoRecord = NoRecord
    NoOp = NoOp
    o1 = o1
    o2 = o2
    n1 = n1
    k1 = k1
    OldDefs = {o1, o2}
    NewDefs = {n1}
    Internal = {k1}
    Uid <- UidOf
    DisplayCode <- CodeOf
    Body <- BodyOf
    Asks <- SomeAsks
    Bases = {b1}
    ByHand <- PreviousCycle
    Given <- MCGiven
SPECIFICATION Spec
SYMMETRY Symmetry
INVARIANTS HistoryReplays MigrationAgreesWithDiff
PROPERTIES MigrationComplete PastIsKept
CHECK_DEADLOCK FALSE
