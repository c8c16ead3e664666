SPECIFICATION MCSpec
CONSTANTS
    a = a
    b = b
    c = c
    Users = {a, b, c}
    Follows <- MCFollows
    Blocks <- MCBlocks
    Leavers = {c}
    Requests = {r1, r2}
    Jobs = {j1, j2}
    x = x
    Texts = {x, y}
    Avatars = {f1, f2}
    Covers = {g1}
    Null = Null
    Edits <- MCEdits
    Tries = 1
    i1 = i1
    i2 = i2
    i3 = i3
    Ids = {i1, i2, i3}
    ProviderOf <- MCProviderOf
    Photo <- MCPhoto
    e1 = e1
    e2 = e2
    Emails = {e1, e2}
    u1 = u1
    u2 = u2
    Accounts = {u1, u2}
    g = g
    Photos = {g, h}
    None = None
CONSTRAINT Bounds
SYMMETRY Symmetry
INVARIANTS
    BlockedDoNotFollow
    ProfileSound
    SignInsSound
CHECK_DEADLOCK FALSE
