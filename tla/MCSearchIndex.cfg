SPECIFICATION MCSpec
CONSTANTS
    t1 = t1
    t2 = t2
    Tweets = {t1, t2}
    Parent <- MCParent
    Indexed = {t1}
    Owned = {t1}
    MaxHandlers = 2
    MaxJobs = 2
    Attempts = 2
    BatchSize = 2
    MaxVersion = 3
    NoTweet = NoTweet
    Users = {u1}
    Requests = {r1}
    Seed = {}
INVARIANTS
    IndexCaughtUp
PROPERTIES
    IndexFollows
CHECK_DEADLOCK FALSE
