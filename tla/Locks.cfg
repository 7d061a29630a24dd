SPECIFICATION Spec
CONSTANTS
    Threads = {t1, t2, t3}
    MaxWaits = 4
    MaxReleases = 3
PROPERTY IsALock
CHECK_DEADLOCK FALSE
