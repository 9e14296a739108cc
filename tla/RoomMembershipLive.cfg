SPECIFICATION FairSpec

CONSTANTS
    c1 = c1
    Conns = {c1, c2}
    Users = {c1, c2}
    Rooms = {r1, r2}
    Uses = {{"leave", "kick", "auth"}}
    UserOf <- MCUserOf
    OwnerOf <- MCOwnerOf
    NoRoom = NoRoom
    NoThread = NoThread

CHECK_DEADLOCK FALSE

PROPERTY HandlerReturns
