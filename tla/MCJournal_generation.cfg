SPECIFICATION FairSpec
CONSTANTS
    Registrar = {r1}
    MaxPush = 2
INVARIANTS
    NothingStranded
    TasksJoined
    ReverseCommitOrder
PROPERTIES
    FreshGeneration
    TeardownReclaimsAll
CHECK_DEADLOCK FALSE
