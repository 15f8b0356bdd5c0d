SPECIFICATION Spec
CONSTANTS
    Threads = {t1}
    MaxStarts = 2
    MaxServed = 1
    None = None
INVARIANT
    FailedRestoreKeepsData
CHECK_DEADLOCK FALSE
