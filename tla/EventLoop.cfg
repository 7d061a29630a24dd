SPECIFICATION LiveSpec
CONSTANTS
    r1 = r1
    r2 = r2
    Events = {e1, e2}
    Regulars = {r1}
    Interval <- MCInterval
    MainEvents = {m1, m2}
    Blocking = {m1}
    None = None
    MaxPromised = 1
    MaxTime = 2
INVARIANTS
    InOrderOnce
    NeverOversleeps
PROPERTIES
    EventsRun
    LoopEnds
CHECK_DEADLOCK FALSE
