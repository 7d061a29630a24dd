SPECIFICATION Spec
CONSTANTS
    r1 = r1
    r2 = r2
    Events = {e1}
    Regulars = {r1}
    Interval <- MCInterval
    MainEvents = {m1}
    Blocking = {m1}
    None = None
    MaxPromised = 1
    MaxTime = 1
INVARIANT LoopRunsUntilDone
CHECK_DEADLOCK FALSE
