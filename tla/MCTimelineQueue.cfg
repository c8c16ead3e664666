SPECIFICATION Spec
CONSTANTS
    Tweets = {t1, t2, t3}
    Limits = {2}
    Batch = 1
    QueueSize = 1
    MaxSize = 2
    Requests = {r1, r2}
    Jobs = {j1, j2}
    Attempts = 2
    None = None
CONSTRAINT Bounds
SYMMETRY Symmetry
INVARIANTS
    NothingSkipped
    TooLongForNow
    StuckForAReason
CHECK_DEADLOCK FALSE
