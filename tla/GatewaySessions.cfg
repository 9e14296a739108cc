SPECIFICATION Spec

CONSTANTS
    Users = {u1}
    Conns = {c1, c2}
    Tokens = {t1, t2}
    Backends = {b1}
    Rooms = {r1}
    NoToken = NoToken
    NoSession = NoSession
    NoUpdate = NoUpdate
    NoThread = NoThread
    NoRow = NoRow
    NoConn = NoConn
    NoMsg = NoMsg
    NoUser = NoUser

SYMMETRY Symmetry
CHECK_DEADLOCK FALSE

INVARIANT IndexConsistent
PROPERTY EndsOnlyByOwner
PROPERTY ImplementsRegistry
