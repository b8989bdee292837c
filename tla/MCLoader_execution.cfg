CONSTANTS
    e1 = e1
    e2 = e2
    db = db
    http = http
    known = known
    unknown = unknown
    anon = anon
    label = label
    private = private
    Load = {e1, e2}
    Service = {db, http}
    Label = {label}
    Private = private
    Key = {known, unknown}
    Known = {known}
    NoKey = anon
    Row <- MCRow
    MaxEntries = 3
    Removed = {2}
SPECIFICATION FairSpec
INVARIANTS
    OutcomesAreFaithful
    RealmsRendezvous
    HandlesAreOwned
PROPERTIES
    RollbackEnds
CHECK_DEADLOCK FALSE
