SPECIFICATION FairSpec
CONSTANTS
    w1 = w1
    w2 = w2
    k1 = k1
    never = never
    Waiter = {w1, w2}
    Timeout = {0, 1, 2, never}
    Never = never
    MaxTime = 0
    MaxPublish = 1
    MaxLosses = 1
    Timers = {k1}
    Kind = {"sleep", "timeout", "interval"}
    Delay = {0, 1, 2}
    Grace = 1
    MaxClock = 5
INVARIANTS
    WaitsAnswerTruth
    TimersAreExact
PROPERTIES
    NobodyOversleeps
CHECK_DEADLOCK FALSE
