SPECIFICATION Spec
CONSTANTS
    Clients = {c1, c2}
    Tasks = {x1, x2, x3}
    Throwing = {x3}
    MaxThreads = 2
    Threads = {t1, t2, t3}
    None = None
SYMMETRY Symmetry
INVARIANTS
    TypeOK
    OneThreadPerWorker
    NoTaskVanishes
    HandedTaskIsAwaited
    DeathDecisionStands
