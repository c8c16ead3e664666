SPECIFICATION MCSpec
CONSTANTS
    a = a
    b = b
    s = s
    t = t
    Actors = {a, b}
    Tweets = {s, t}
    Happenings <- MCHappenings
    Documents <- MCDocuments
    Posts = {}
    Events = {}
    Cap = 1
    MaxDay = 0
    NoTweet = NoTweet
    NoJob = NoJob
    j1 = j1
    j2 = j2
    j3 = j3
    Jobs = {j1, j2, j3}
    Tries = 2
    c1 = c1
    c2 = c2
    Sockets = {c1, c2}
    PageSize = 1
    MaxChanges = 1
    None = None
CONSTRAINT Bounds
INVARIANTS
    LastWord
    HeardOnce
    ListFaithful
CHECK_DEADLOCK FALSE
