SPECIFICATION MCSpec
CONSTANTS
    t1 = t1
    t2 = t2
    t3 = t3
    Rated = {t1, t2, t3}
    Percent <- MCPercent
    MaxScore = 2
    MaxSize = 1
    BatchSize = 1
    MaxTouches = 2
    u1 = u1
    u2 = u2
    u3 = u3
    Users = {u1, u2, u3}
    Me = Me
    Wanted = 4
    Share <- MCShare
    Appeals <- MCAppeals
    ByFollowers <- MCByFollowers
    Shapes <- MCShapes
    Tweets = {root, middle, last}
    Ids = {1}
    MaxKey = 1
    Millis <- MCMillis
    Limit = 1
    MaxChanges = 0
    Multiplier = 3
    root = root
    middle = middle
    last = last
    None = None
    MaxMeanwhile = 1
CONSTRAINT Bounds
SYMMETRY Symmetry
INVARIANTS
    ListsSound
    MissesOnePerMove
    AdviceSound
    SilencedHidden
    FoundWhole
    FlagsAgree
CHECK_DEADLOCK FALSE
