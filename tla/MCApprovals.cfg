CONSTANTS
    Workers = {w1, w2}
    Ids = {e1}
    Bodies = {b1, b2}
    NoOp = NoOp
    MaxRows = 4
SPECIFICATION Spec
SYMMETRY Symmetry
INVARIANTS ApprovedWasReviewed ApprovalCoversWritten OneInForce RevocationHolds
