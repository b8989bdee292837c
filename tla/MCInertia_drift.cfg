SPECIFICATION Spec
CONSTANTS
    c1 = c1
    c2 = c2
    t1 = t1
    t2 = t2
    Caller = {c1, c2}
    OffRuntime = {}
    Ops = {"mutate", "restart", "ready"}
    Edges = 2
    MaxCommits = 2
    MaxUpdates = 0
    Task = {t1, t2}
    Creator = {}
    NoTarget = NoTarget
SYMMETRY Symmetry
INVARIANTS
    QuiescentTruth
    RecheckHasDriver
    ReadyAnswersTruth
