\* Properties the documentation states and the code does not keep; one at a time.
SPECIFICATION Spec
CONSTANTS
    Threads = {t1, t2}
    MaxWaits = 3
    MaxReleases = 2
INVARIANT OneWaitPerRelease
\* INVARIANT NoLostRelease
CHECK_DEADLOCK FALSE
