SPECIFICATION FairSpawnSpec
CONSTANTS
    c1 = c1
    m1 = m1
    s1 = s1
    t1 = t1
    Caller = {c1, m1}
    OffRuntime = {m1}
    Ops = {"mutate", "remove", "restart"}
    Edges = 1
    MaxCommits = 1
    MaxUpdates = 0
    Task = {t1}
    Creator = {s1}
    NoTarget = NoTarget
INVARIANTS
    FirstFailureIsTheCreations
PROPERTY SpawnEnds
CHECK_DEADLOCK FALSE
