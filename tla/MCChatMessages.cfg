SPECIFICATION MCSpec
CONSTANTS
    User1 = u1
    User2 = u2
    s1 = s1
    s2 = s2
    Sockets = {s1, s2}
    Owner <- MCOwner
    Requests = {r1, r2, r3, r4}
    MaxMessages = 2
    NoSocket = NoSocket
    c1 = c1
    c2 = c2
    Chats = {c1, c2}
    Emojis = {e1, e2}
    None = None
    MaxTold = 1
CONSTRAINT Bounds
SYMMETRY Symmetry
INVARIANTS
    UnreadExact
    MessagesSound
    OneChat
    Announced
    EventsTell
CHECK_DEADLOCK FALSE
