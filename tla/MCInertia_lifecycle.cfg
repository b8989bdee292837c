SPECIFICATION FairSpec
CONSTANTS
    c1 = c1
    c2 = c2
    t1 = t1
    Caller = {c1, c2}
    OffRuntime = {}
    Ops = {"mutate", "restart", "update", "dispose", "ready"}
    Edges = 1
    MaxCommits = 1
    MaxUpdates = 1
    Task = {t1}
    Creator = {}
    NoTarget = NoTarget
INVARIANTS
    SlotExclusive
    ProtocolAssertionsHold
    DisposalBarrier
    GenerationGateReopens
PROPERTIES
    DeathIsFinal
    ReplacementBarrier
    DriftIsSettled
    ReadyReturns
    DisposeCompletes
