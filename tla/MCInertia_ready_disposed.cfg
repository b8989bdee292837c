SPECIFICATION FairSpec
CONSTANTS
    c1 = c1
    c2 = c2
    t1 = t1
    Caller = {c1, c2}
    OffRuntime = {}
    Ops = {"mutate", "dispose", "ready"}
    Edges = 1
    MaxCommits = 1
    MaxUpdates = 0
    Task = {t1}
    Creator = {}
    NoTarget = NoTarget
PROPERTY ReadyReturnsOnDisposed
