SPECIFICATION Spec
CONSTANTS
    Threads = {t1, t2}
    MaxStarts = 3
    MaxServed = 1
    None = None
INVARIANTS
    TypeOK
    UserDataKept
    RestoredIsWhole
    LocksAreLive
    GuardFollowsUpdate
PROPERTY
    PendingIsSettled
CHECK_DEADLOCK FALSE
