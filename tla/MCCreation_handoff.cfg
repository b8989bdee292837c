SPECIFICATION SpawnSpec
CONSTANTS
    m1 = m1
    s1 = s1
    t1 = t1
    t2 = t2
    Caller = {m1}
    OffRuntime = {}
    Ops = {"mutate"}
    Edges = 1
    MaxCommits = 1
    MaxUpdates = 0
    Task = {t1, t2}
    Creator = {s1}
    NoTarget = NoTarget
INVARIANT RecheckHasDriver
CHECK_DEADLOCK FALSE
