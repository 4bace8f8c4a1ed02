CONSTANTS
    Workers = {w1}
    Ids = {e1, e2}
    Bodies = {b1, b2}
    NoOp = NoOp
    MaxRows = 3
SPECIFICATION Spec
INVARIANT ApprovalCoversEvidence
