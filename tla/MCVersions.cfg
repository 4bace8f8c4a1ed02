CONSTANTS
    Workers = {w1, w2}
    Versions = {v1, v2}
    Controls = {c1}
    Actors = {ann, bob}
    Requests = {"create", "activate", "retire", "control", "import"}
    SoD = TRUE
    UniqueIndex = TRUE
    MayFail = FALSE
    MaxSaves = 4
    LoadLimit = 10
    v1 = v1
    c1 = c1
    NoRecord = NoRecord
    NoCore = NoCore
    NoOp = NoOp
    Nobody = Nobody
    FrameworkOf <- OneFramework
    VersionOf <- ControlOfV1
SPECIFICATION Spec
SYMMETRY Symmetry
INVARIANTS OneActive NoSelfApproval LifecycleIsPath
PROPERTY ImplementsLifecycle
CHECK_DEADLOCK FALSE
