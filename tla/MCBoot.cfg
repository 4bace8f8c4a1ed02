CONSTANTS
    Procs = {p1, p2}
    base = base
    gov = gov
    framework = framework
    version = version
    fw = fw
    fv = fv
    Files <- MCFiles
    Kinds <- MCKinds
    TableOf <- MCTableOf
    Records = {fw, fv}
    KindOf <- MCKindOf
    Parent <- MCParent
    None = None
    MaxEdits = 1
    MaxReleases = 1
    MaxFailures = 1
    MaxCrashes = 1
SPECIFICATION Spec
INVARIANTS NoRecordLost
PROPERTIES NewerKept GateHolds BootSettles
CHECK_DEADLOCK FALSE
