SPECIFICATION Spec
CONSTANTS
    Clients = {c1, c2}
    Workers = {w1, w2}
    Tasks = {t1, t2, t3}
    Failing = {t1, t2}
    Pill = Pill
    None = None
INVARIANTS
    EveryTaskSomewhere
PROPERTIES
    EarlyTasksRun
    ShutdownEndsWorkers
CHECK_DEADLOCK FALSE
