CONSTANTS
    Workers = {w1, w2}
    r1 = r1
    r2 = r2
    r1again = r1again
    flow = flow
    report = report
    envelope = envelope
    one = one
    item = item
    host = host
    env = env
    Pushes <- MCPushes
    KindOf <- MCKindOf
    RunOf <- MCRunOf
    SourceOf <- MCSourceOf
    Found <- MCFound
    Signed <- MCSigned
    ManualRows = {m1}
    Controls = {c1}
    None = None
    MaxOps = 3
SPECIFICATION ScanSpec
SYMMETRY Symmetry
INVARIANTS AnswerIsTrue EvidenceMatchesScan ConfirmedWasSeen
PROPERTIES ManualKept
CHECK_DEADLOCK FALSE
