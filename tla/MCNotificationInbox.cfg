SPECIFICATION Spec
CONSTANTS
    t1 = t1
    t2 = t2
    r1 = r1
    r2 = r2
    a = a
    b = b
    j1 = j1
    j2 = j2
    j3 = j3
    NoTweet = NoTweet
    NoJob = NoJob
    Tweets = {t1, t2}
    Posts = {r1, r2}
    Actors = {a, b}
    Jobs = {j1, j2, j3}
    Events <- MCEvents
    Tries = 2
    Cap = 2
    MaxDay = 1
CONSTRAINT Bounds
SYMMETRY JobSymmetry
INVARIANTS
    OnlyWhatHappened
    ExactWhenQuiet
    KeptUntilRetracted
CHECK_DEADLOCK FALSE
