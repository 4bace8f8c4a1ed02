SPECIFICATION Spec
CONSTANTS
    Workers = {w1, w2}
    Pollers = {q1}
    Alerts = {a1}
    Incidents = {i1}
    Approvals = {p1}
    Evidence = {e1}
    Tokens = {t1}
    host = h1
    Hosts = {h1}
    Vulns = {v1}
    Nameless = {}
    base = c1
    custom = c2
    BaseControls = {c1}
    CustomControls = {c2}
    user = u1
    Users = {u1}
    Grants <- MCGrants
    Inventories <- MCInventories
    DirStatus <- MCDirStatus
    OwnerForms <- MCOwnerForms
    Imports <- MCImports
    Absent = Absent
    None = None
    MaxOps = 3
INVARIANTS ShownIsStored GoneIsGone ExceptionIsAudited SuppressedIsGranted ZabbixIsBacked
