CONSTANTS
    c1 = c1
    c2 = c2
    Dependent = Dependent
    None = None
    Caller = {c1, c2}
    MaxFibers = 3
    MaxOps = 3
    HostedCleanups = FALSE
SPECIFICATION FairSpec
INVARIANTS
    ResidencyIsExact
    EraBarrier
    NobodyIsOrphaned
PROPERTIES
    BarriersConverge
    OperationsEnd
CHECK_DEADLOCK FALSE
