SPECIFICATION Spec
CONSTANTS
    Clients = {c1}
    Tasks = {x1, x2}
    Throwing = {}
    MaxThreads = 1
    Threads = {t1, t2}
    None = None
INVARIANT SubmittedTasksExecuted
