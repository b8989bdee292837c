SPECIFICATION Spec
CONSTANTS
    Caller = {"c1", "c2"}
    MaxListeners = 2
    Event = {"E", "Q"}
    Contract = {"k1", "k2"}
    Scope <- MCScope
    Parent <- MCParent
    Shape <- MCShape
    Request <- MCRequest
    Sparse = 1
INVARIANTS
    NoLayerBypassed
    FailuresAreAttributed
PROPERTIES
    OccurrencesAreExact
    SnapshotsAreEffective
CHECK_DEADLOCK FALSE
