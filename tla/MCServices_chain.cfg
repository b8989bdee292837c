SPECIFICATION FairSpec
CONSTANTS
    a = a
    b = b
    s = s
    t = t
    k1 = k1
    k2 = k2
    RootFiber = RootFiber
    NoTarget = NoTarget
    Fiber = {a, b}
    Name = {s, t}
    Contract = {k1, k2}
    Isolable = {t}
    Requires <- MCRequires
    Publishes <- MCPublishes
    MaxRealms = 1
    MaxViews = 2
    MaxOccurrences = 4
    MaxCalls = 3
INVARIANTS
    RestIsTruth
    LookupsAreTyped
    NoPublicationOutlivesItsGeneration
PROPERTIES
    SlotsAreNotStolen
    Converges
CHECK_DEADLOCK FALSE
