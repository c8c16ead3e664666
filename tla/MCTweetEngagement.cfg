SPECIFICATION Spec
CONSTANTS
    Users = {u1, u2}
    t1 = t1
    Tweets = {t1, t2, t3}
    Requests = {r1, r2, r3, r4}
    Seed <- MCSeed
    NoTweet = NoTweet
SYMMETRY Symmetry
INVARIANTS
    CountersExact
    RacesOnlyUnderstate
    NoOrphans
CHECK_DEADLOCK FALSE
