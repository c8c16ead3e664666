SPECIFICATION MCSpec
CONSTANTS
    Tokens = {j1, j2, j3}
    Codes = {c1}
    Requests = {h1, h2, h3, h4}
    j1 = j1
    j2 = j2
    j3 = j3
    h1 = h1
    h2 = h2
    h3 = h3
    h4 = h4
    Emails = {e1, e2, e3}
    NewEmails = {e1}
    e1 = e1
    e2 = e2
    e3 = e3
    Users = {u1, u2}
    u1 = u1
    u2 = u2
    Registered <- MCRegistered
    Profiles = {p1, p2}
    Calls = {r1, r2}
    MaxCodes = 2
    None = None
CONSTRAINT Bounds
SYMMETRY Symmetry
INVARIANTS
    LiveTokensAreListed
    RevokedStaysRevoked
    OwnersOnly
    NotMeHolds
PROPERTIES
    FollowsLifecycle
CHECK_DEADLOCK FALSE
