\* One worker, three tasks of which one throws; two threads, so that a worker is
\* restarted.
SPECIFICATION FairSpec
CONSTANTS
    Clients = {c1, c2}
    Tasks = {x1, x2, x3}
    Throwing = {x2}
    MaxThreads = 1
    Threads = {t1, t2}
    None = None
INVARIANTS
    OneThreadPerWorker
    NoTaskVanishes
    HandedTaskIsAwaited
    DeathDecisionStands
PROPERTIES
    HandedTaskRuns
    ShutdownStopsWorkers
