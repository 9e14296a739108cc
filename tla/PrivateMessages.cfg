SPECIFICATION PFairSpec

CONSTANTS
    Users = {u1}
    Conns = {c1, c2}
    Tokens = {t1, t2}
    Backends = {}
    Rooms = {r1}
    NoToken = NoToken
    NoSession = NoSession
    NoUpdate = NoUpdate
    NoThread = NoThread
    NoRow = NoRow
    NoConn = NoConn
    NoMsg = NoMsg
    NoUser = NoUser
    Types <- MCTypes
    c1 = c1
    Messages = {n1}
    NoMessage = NoMessage

CHECK_DEADLOCK FALSE

INVARIANT PresenceMatchesSession
INVARIANT ReceivedWhereIssued
INVARIANT LostOnlyByEnd
PROPERTY NoSessionLeak
PROPERTY PacketHandled
