SPECIFICATION Spec
CONSTANTS
    Clients = {c1, c2}
    Workers = {w1}
    Tasks = {t1}
    Failing = {}
    Pill = Pill
    None = None
PROPERTY AcceptedTasksRun
CHECK_DEADLOCK FALSE
