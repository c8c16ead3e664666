SPECIFICATION Spec
CONSTANTS
    a = a
    b = b
    t1 = t1
    t2 = t2
    t3 = t3
    Tags = {a, b}
    Tweets = {t1, t2, t3}
    TagsOf <- MCTagsOf
    Topics = {"Sports"}
    TopicsOf <- MCTopicsOf
    Requests = {r1, r2}
    Jobs = {j1, j2}
    Runs = {k1, k2}
    Attempts = 2
    Window = 0
    TopN = 1
    MaxTime = 2
    MaxCount = 2
CONSTRAINT Bounds
SYMMETRY Symmetry
INVARIANTS
    UsageExact
    CountsExact
    ListedWasActive
CHECK_DEADLOCK FALSE
