SPECIFICATION Spec

CONSTANTS
    c1 = c1
    Conns = {c1, c2, c3}
    Users = {c1, c2, c3}
    Rooms = {r1, r2}
    Uses = {{}, {"leave"}, {"kick"}, {"auth"}}
    UserOf <- MCUserOf
    OwnerOf <- MCOwnerOf
    NoRoom = NoRoom
    NoThread = NoThread

SYMMETRY Symmetry
CHECK_DEADLOCK FALSE

INVARIANT MembershipMatchesRecord
INVARIANT RecordedIsMember
INVARIANT MembersAreClients
PROPERTY HandlersSurvive
PROPERTY ImplementsAtomicRooms
