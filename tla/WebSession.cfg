SPECIFICATION FairSpec
CONSTANTS
    c1 = c1
    c2 = c2
    o = o
    p1 = p1
    p2 = p2
    Conns = {c1, c2}
    Others = {o}
    Rooms = {a}
    Pollers = {p1, p2}
    MaxTalk = 1
    Bounds <- MCBounds
    NoConn = NoConn
    NoRoom = NoRoom
INVARIANTS
    OneOpenConnection
    ToldIsMember
    EventsOnce
PROPERTIES
    EventsHandedOut
    ClosedIsForgotten
CHECK_DEADLOCK FALSE
