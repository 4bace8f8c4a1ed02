CONSTANTS
    Workers = {w1, w2}
    Gaps = {g1, g2}
    NoGap = NoGap
    NoOp = NoOp
    NoDate = NoDate
    DueDays = {1}
    Window = 1
    SoonDays = 0
    MaxMoves = 4
    MaxTime = 4
SPECIFICATION Spec
SYMMETRY Symmetry
INVARIANT HistoryIsPath
PROPERTIES DecisionsKept DeadlinesAdvance
CHECK_DEADLOCK FALSE
