---------------------------- MODULE RoomMembership ----------------------------
(***************************************************************************)
(* Rooms of a process server (server/main.py): the dictionaries clients    *)
(* and rooms, the one lock that is meant to protect them, and one handler  *)
(* thread per client connection running AUTH_BACKEND, JOIN_ROOM_BACKEND,   *)
(* LEAVE_ROOM, the requests that broadcast to the room, ROOM_KICK_USER and *)
(* the clean-up of a connection.                                           *)
(*                                                                         *)
(* LEAVE_ROOM runs _leave_room_logic without the lock, the other callers   *)
(* with it, so that helper is modelled statement by statement.  A          *)
(* broadcast holds the lock while it sends to one member after another;    *)
(* its first and its last moment are two steps.                            *)
(***************************************************************************)
EXTENDS Naturals, FiniteSets

CONSTANTS
    Conns,      \* client connections, each with its handler thread
    Rooms,      \* room names
    Users,      \* user names
    UserOf,     \* Conns -> Users: whose token the connection presents
    OwnerOf,    \* Rooms -> Users: rooms.created_by
    Uses,       \* what clients may do besides joining, speaking and ending: "leave",
                \* "kick", "auth" (authenticate again); one of these sets
    NoRoom, NoThread

ASSUME RoomsAssumption ==
    /\ UserOf \in [Conns -> Users] /\ OwnerOf \in [Rooms -> Users]
    /\ Uses \subseteq SUBSET {"leave", "kick", "auth"}
    /\ NoRoom \notin Rooms /\ NoThread \notin Conns

VARIABLES
    uses,    \* the member of Uses this behaviour is about, chosen at the start
    lock,    \* holder of self.lock
    clients, \* keys of self.clients
    current, \* current_room of the connection's client record; the record
             \* outlives its entry in clients in the threads that hold it
    open,    \* keys of self.rooms
    rooms,   \* self.rooms[r], {} when r is no key
    closed,  \* connections whose socket the server has closed
    pc,      \* where each handler thread is
    task,    \* which handler it runs
    room,    \* the handler's room_name
    old,     \* the room_name of _leave_room_logic and of _cleanup_client
    who,     \* the connection they are about: c itself, or the one c kicks
    seen     \* the members a broadcast started with

registry == <<clients, current, open, rooms>>
locals   == <<task, room, old, who>>
vars     == <<uses, lock, registry, closed, pc, locals, seen>>

Labels == {"recv", "join", "join_add", "check", "discard", "empty", "del", "reset",
           "left", "members", "bcast", "sending", "reply", "notice", "clean",
           "forget", "close", "dead"}

TypeOK ==
    /\ uses \in Uses
    /\ lock \in Conns \cup {NoThread}
    /\ clients \subseteq Conns
    /\ current \in [Conns -> Rooms \cup {NoRoom}]
    /\ open \subseteq Rooms
    /\ rooms \in [Rooms -> SUBSET Conns]
    /\ \A r \in Rooms \ open : rooms[r] = {}
    /\ closed \subseteq Conns
    /\ pc \in [Conns -> Labels]
    /\ task \in [Conns -> {"none", "join", "leave", "chat", "kick", "kicked", "final"}]
    /\ room \in [Conns -> Rooms \cup {NoRoom}]
    /\ old \in [Conns -> Rooms \cup {NoRoom}]
    /\ who \in [Conns -> Conns]
    /\ seen \in [Conns -> SUBSET Conns]

Init ==
    /\ uses \in Uses
    /\ lock = NoThread
    /\ clients = {} /\ current = [c \in Conns |-> NoRoom]
    /\ open = {} /\ rooms = [r \in Rooms |-> {}]
    /\ closed = {}
    /\ pc = [c \in Conns |-> "recv"]
    /\ task = [c \in Conns |-> "none"]
    /\ room = [c \in Conns |-> NoRoom]
    /\ old = [c \in Conns |-> NoRoom]
    /\ who = [c \in Conns |-> c]
    /\ seen = [c \in Conns |-> {}]

-----------------------------------------------------------------------------
(* Control *)

LockFree == lock = NoThread

Goto(c, label) == pc' = [pc EXCEPT ![c] = label] /\ UNCHANGED locals

\* The handler returns to the receive loop, or the thread ends.
Return(c, label) ==
    /\ pc' = [pc EXCEPT ![c] = label]
    /\ task' = [task EXCEPT ![c] = "none"]
    /\ room' = [room EXCEPT ![c] = NoRoom]
    /\ old' = [old EXCEPT ![c] = NoRoom]
    /\ who' = [who EXCEPT ![c] = c]

Release(c) == lock' = IF lock = c THEN NoThread ELSE lock

\* The handler is left for the finally clause: `with conn` has closed the
\* socket, and _cleanup_client(conn) comes next.
ToFinally(c) ==
    /\ pc' = [pc EXCEPT ![c] = "clean"]
    /\ task' = [task EXCEPT ![c] = "final"]
    /\ room' = [room EXCEPT ![c] = NoRoom]
    /\ old' = [old EXCEPT ![c] = NoRoom]
    /\ who' = [who EXCEPT ![c] = c]
    /\ closed' = closed \cup {c}

\* A variant with a bug: the lock stays taken.
RaiseKeepsLock(c) ==
    /\ UNCHANGED lock
    /\ IF task[c] = "final" THEN Return(c, "dead") /\ UNCHANGED closed
                            ELSE ToFinally(c)

\* An exception: a `with self.lock` on the way is released, the handler is
\* left; in the finally clause itself the thread ends.
Raise(c) ==
    /\ Release(c)
    /\ IF task[c] = "final" THEN Return(c, "dead") /\ UNCHANGED closed
                            ELSE ToFinally(c)

-----------------------------------------------------------------------------
(* Requests: the receive loop, up to the first access to shared state *)

CanServe(c) == pc[c] = "recv" /\ c \notin closed

Begin(c, t, r, w, label) ==
    /\ pc' = [pc EXCEPT ![c] = label]
    /\ task' = [task EXCEPT ![c] = t]
    /\ room' = [room EXCEPT ![c] = r]
    /\ who' = [who EXCEPT ![c] = w]
    /\ UNCHANGED <<lock, registry, closed, old, seen>>

\* _handle_auth_backend, for a token the Gateway finds valid.  A new record
\* replaces the one a client has, but the room it was in keeps it.
Auth(c) ==
    /\ c \in clients => "auth" \in uses
    /\ CanServe(c) /\ LockFree
    /\ clients' = clients \cup {c}
    /\ current' = [current EXCEPT ![c] = NoRoom]
    /\ UNCHANGED <<lock, open, rooms, closed, pc, locals, seen>>

\* _handle_join_room up to the lock: the client record is looked up without it.
Join(c, r) ==
    /\ CanServe(c) /\ c \in clients
    /\ Begin(c, "join", r, c, "join")

\* _handle_leave_room: NOT_IN_ROOM unless the record names a room.
Leave(c) ==
    /\ "leave" \in uses
    /\ CanServe(c) /\ c \in clients /\ current[c] # NoRoom
    /\ Begin(c, "leave", current[c], c, "check")

\* _handle_room_chat_send, _handle_room_message_reaction, the typing indicator
\* and the file events: a member broadcasts to its current room.
Chat(c) ==
    /\ CanServe(c) /\ c \in clients /\ current[c] # NoRoom
    /\ Begin(c, "chat", current[c], c, "bcast")

\* _handle_room_kick_user up to the end of its search, which holds the lock.
Kick(c, d) ==
    /\ "kick" \in uses
    /\ CanServe(c) /\ c \in clients
    /\ current[c] # NoRoom /\ OwnerOf[current[c]] = UserOf[c]
    /\ LockFree
    /\ d \in clients /\ current[d] = current[c]
    /\ Begin(c, "kick", current[c], d, "notice")

\* The peer closes the connection, or the socket was closed under the thread.
Disconnect(c) ==
    /\ pc[c] = "recv"
    /\ ToFinally(c)
    /\ UNCHANGED <<lock, registry, seen>>

-----------------------------------------------------------------------------
(* _leave_room_logic, about who[c]; locked or not, depending on the caller *)

AfterLeave(c) ==
    CASE task[c] = "join"  -> "join_add"
      [] task[c] = "leave" -> "left"
      [] OTHER             -> "forget"

\* self.clients[conn] raises KeyError for a connection a kick has removed.
\* Nothing happens, and current_room is not reset, if the room is no key.
LeaveCheck(c) ==
    LET w == who[c] IN
    /\ pc[c] = "check"
    /\ \/ /\ w \notin clients
          /\ Raise(c)
          /\ UNCHANGED <<registry, seen>>
       \/ /\ w \in clients
          /\ old' = [old EXCEPT ![c] = IF current[w] = NoRoom THEN @ ELSE current[w]]
          /\ pc' = [pc EXCEPT ![c] =
                      IF current[w] # NoRoom /\ current[w] \in open
                      THEN "discard" ELSE AfterLeave(c)]
          /\ UNCHANGED <<lock, registry, closed, task, room, who, seen>>

\* self.rooms[room_name].discard(conn): KeyError if the room is gone by now.
LeaveDiscard(c) ==
    /\ pc[c] = "discard"
    /\ IF old[c] \in open
       THEN /\ rooms' = [rooms EXCEPT ![old[c]] = @ \ {who[c]}]
            /\ Goto(c, "empty")
            /\ UNCHANGED <<lock, clients, current, open, closed, seen>>
       ELSE Raise(c) /\ UNCHANGED <<registry, seen>>

LeaveEmpty(c) ==
    /\ pc[c] = "empty"
    /\ IF old[c] \in open
       THEN /\ Goto(c, IF rooms[old[c]] = {} THEN "del" ELSE "reset")
            /\ UNCHANGED <<lock, registry, closed, seen>>
       ELSE Raise(c) /\ UNCHANGED <<registry, seen>>

\* del self.rooms[room_name], whoever is in it by now.
LeaveDel(c) ==
    /\ pc[c] = "del"
    /\ IF old[c] \in open
       THEN /\ open' = open \ {old[c]}
            /\ rooms' = [rooms EXCEPT ![old[c]] = {}]
            /\ Goto(c, "reset")
            /\ UNCHANGED <<lock, clients, current, closed, seen>>
       ELSE Raise(c) /\ UNCHANGED <<registry, seen>>

LeaveReset(c) ==
    /\ pc[c] = "reset"
    /\ current' = [current EXCEPT ![who[c]] = NoRoom]
    /\ Goto(c, AfterLeave(c))
    /\ UNCHANGED <<lock, clients, open, rooms, closed, seen>>

-----------------------------------------------------------------------------
(* The rest of _handle_join_room and _handle_leave_room *)

\* Variants with a bug: the previous room is not left; it is left without the
\* lock.
JoinLockStays(c) ==
    /\ pc[c] = "join" /\ LockFree
    /\ lock' = c
    /\ Goto(c, "join_add")
    /\ UNCHANGED <<registry, closed, seen>>

JoinUnlocked(c) ==
    /\ pc[c] = "join"
    /\ Goto(c, IF current[c] # NoRoom THEN "check" ELSE "join_add")
    /\ UNCHANGED <<lock, registry, closed, seen>>

\* The lock is taken; the previous room is left first.
JoinLock(c) ==
    /\ pc[c] = "join" /\ LockFree
    /\ lock' = c
    /\ Goto(c, IF current[c] # NoRoom THEN "check" ELSE "join_add")
    /\ UNCHANGED <<registry, closed, seen>>

\* The connection enters the room and the record, whether or not it still is
\* in clients; the lock is released.
JoinAdd(c) ==
    /\ pc[c] = "join_add"
    /\ open' = open \cup {room[c]}
    /\ rooms' = [rooms EXCEPT ![room[c]] = @ \cup {c}]
    /\ current' = [current EXCEPT ![c] = room[c]]
    /\ lock' = NoThread
    /\ Goto(c, "members")
    /\ UNCHANGED <<clients, closed, seen>>

\* LEAVE_ROOM_OK is sent before the others are told.
LeaveOK(c) ==
    /\ pc[c] = "left"
    /\ IF c \in closed THEN Raise(c) ELSE Goto(c, "members") /\ UNCHANGED <<lock, closed>>
    /\ UNCHANGED <<registry, seen>>

\* JOIN_ROOM_OK and KICK_USER_OK.
Reply(c) ==
    /\ pc[c] = "reply"
    /\ IF c \in closed THEN Raise(c) ELSE Return(c, "recv") /\ UNCHANGED <<lock, closed>>
    /\ UNCHANGED <<registry, seen>>

-----------------------------------------------------------------------------
(* _get_room_members and _broadcast_to_room *)

\* _cleanup_client tells the room it found in the record, every other handler
\* its own room_name.
BcastRoom(c) == IF task[c] \in {"kick", "final"} THEN old[c] ELSE room[c]

AfterBcast(c) ==
    CASE task[c] \in {"join", "kicked"} -> Goto(c, "reply")
      [] task[c] = "kick"               -> Goto(c, "close")
      [] task[c] = "final"              -> Return(c, "dead")
      [] OTHER                          -> Return(c, "recv")

\* self.clients[c] for every c in the room: KeyError if one is no client.
Members(c) ==
    /\ pc[c] = "members" /\ LockFree
    /\ IF rooms[BcastRoom(c)] \subseteq clients
       THEN Goto(c, "bcast") /\ UNCHANGED <<lock, closed>>
       ELSE Raise(c)
    /\ UNCHANGED <<registry, seen>>

\* The lock is taken and the iteration over the room's set begins.
BcastStart(c) ==
    /\ pc[c] = "bcast" /\ LockFree
    /\ IF BcastRoom(c) \in open
       THEN /\ lock' = c
            /\ seen' = [seen EXCEPT ![c] = rooms[BcastRoom(c)]]
            /\ Goto(c, "sending")
       ELSE AfterBcast(c) /\ UNCHANGED <<lock, seen>>
    /\ UNCHANGED <<registry, closed>>

\* The iteration ends.  If the set has changed its size since it began, the
\* iterator raises RuntimeError, unless the change came after its last step.
BcastEnd(c) ==
    /\ pc[c] = "sending"
    /\ seen' = [seen EXCEPT ![c] = {}]
    /\ UNCHANGED registry
    /\ \/ lock' = NoThread /\ AfterBcast(c) /\ UNCHANGED closed
       \/ Cardinality(rooms[BcastRoom(c)]) # Cardinality(seen[c]) /\ Raise(c)

-----------------------------------------------------------------------------
(* The rest of _handle_room_kick_user, and _cleanup_client *)

\* The "kicked" event goes to the target's socket; sending to a socket the
\* target's own thread has closed raises in the owner's handler.
KickNotice(c) ==
    /\ pc[c] = "notice"
    /\ IF who[c] \in closed THEN Raise(c) ELSE Goto(c, "clean") /\ UNCHANGED <<lock, closed>>
    /\ UNCHANGED <<registry, seen>>

AfterCleanup(c) ==
    IF task[c] = "final" THEN Return(c, "dead") ELSE Goto(c, "close")

\* Variants with a bug: the room is not left; a connection outside any room is
\* not removed.
CleanLockStays(c) ==
    LET w == who[c] IN
    /\ pc[c] = "clean" /\ LockFree
    /\ IF w \in clients THEN lock' = c /\ Goto(c, "forget")
                        ELSE AfterCleanup(c) /\ UNCHANGED lock
    /\ UNCHANGED <<registry, closed, seen>>

\* _cleanup_client(who[c]): the lock is taken; a connection in a room leaves it.
CleanLock(c) ==
    LET w == who[c] IN
    /\ pc[c] = "clean" /\ LockFree
    /\ IF w \in clients
       THEN /\ lock' = c
            /\ old' = [old EXCEPT ![c] = current[w]]
            /\ pc' = [pc EXCEPT ![c] = IF current[w] # NoRoom THEN "check" ELSE "forget"]
            /\ UNCHANGED <<task, room, who>>
       ELSE AfterCleanup(c) /\ UNCHANGED lock
    /\ UNCHANGED <<registry, closed, seen>>

\* del self.clients[conn]; the lock is released; the room, if any, is told.
Forget(c) ==
    /\ pc[c] = "forget"
    /\ clients' = clients \ {who[c]}
    /\ lock' = NoThread
    /\ IF old[c] # NoRoom THEN Goto(c, "members") ELSE AfterCleanup(c)
    /\ UNCHANGED <<current, open, rooms, closed, seen>>

\* The target's socket is closed; the owner's room hears of the kick.
KickClose(c) ==
    /\ pc[c] = "close"
    /\ closed' = closed \cup {who[c]}
    /\ pc' = [pc EXCEPT ![c] = "members"]
    /\ task' = [task EXCEPT ![c] = "kicked"]
    /\ UNCHANGED <<lock, registry, room, old, who, seen>>

-----------------------------------------------------------------------------
Handler(c) ==
    \/ LeaveCheck(c) \/ LeaveDiscard(c) \/ LeaveEmpty(c) \/ LeaveDel(c) \/ LeaveReset(c)
    \/ JoinLock(c) \/ JoinAdd(c) \/ LeaveOK(c) \/ Reply(c)
    \/ Members(c) \/ BcastStart(c) \/ BcastEnd(c)
    \/ KickNotice(c) \/ CleanLock(c) \/ Forget(c) \/ KickClose(c)

Request(c) ==
    \/ Auth(c) \/ Leave(c) \/ Chat(c) \/ Disconnect(c)
    \/ \E r \in Rooms : Join(c, r)
    \/ \E d \in Conns : Kick(c, d)

HandlerStep(c) == Handler(c) /\ UNCHANGED uses
RequestStep(c) == Request(c) /\ UNCHANGED uses

Next == \E c \in Conns : HandlerStep(c) \/ RequestStep(c)

Spec == Init /\ [][Next]_vars

\* A thread in a handler goes on, and one that waits for the lock gets it in
\* the end: strong fairness, since others take the lock in between.
FairSpec == Spec /\ \A c \in Conns : SF_vars(HandlerStep(c))

-----------------------------------------------------------------------------
(* Safety *)

\* Whoever is in a room's set has that room in its client record, at every
\* moment and under every interleaving of joins, leaves, kicks, broadcasts and
\* clean-ups, so nobody is in two rooms: neither a switch of rooms, nor a kick in
\* the middle of one, leaves a connection in the set of a room its record no
\* longer names.  A client that authenticates again gets an empty record.
MembershipMatchesRecord ==
    "auth" \notin uses => \A r \in Rooms : \A c \in rooms[r] : current[c] = r

\* The converse, between two critical sections and as long as nobody sends
\* LEAVE_ROOM: a client whose record names a room is in its set, and so receives
\* what is sent to the room, whoever kicks, switches rooms, disconnects or
\* authenticates again.  A LEAVE_ROOM, which takes no lock, may delete the set of a room somebody has
\* joined since it was found empty.
RecordedIsMember ==
    ("leave" \notin uses /\ LockFree) =>
        \A c \in clients : current[c] # NoRoom => c \in rooms[current[c]]

\* The kick of a connection that is between its look-up and its entry into a
\* room: the handler of that JOIN_ROOM_BACKEND has the member list still to
\* compute, or has ended.
KickedWhileJoining(c, r) ==
    /\ "kick" \in uses
    /\ \/ pc[c] = "members" /\ task[c] = "join" /\ room[c] = r
       \/ task[c] = "final" \/ pc[c] = "dead"

\* Between two critical sections the members of a room are known clients, so
\* that the member list can be computed, but for a connection that was kicked
\* during its own JOIN_ROOM_BACKEND, as long as nobody authenticates again; and
\* when the thread of a connection has ended, the connection is forgotten, as
\* long as nobody leaves, since an unlocked LEAVE_ROOM may empty the room under
\* the hands of a clean-up, which then ends before it forgets the client.  The
\* variables have their types.
MembersAreClients ==
    /\ TypeOK
    /\ ("auth" \notin uses /\ LockFree) =>
           \A r \in Rooms : \A c \in rooms[r] \ clients : KickedWhileJoining(c, r)
    /\ "leave" \notin uses => \A c \in Conns : pc[c] = "dead" => c \notin clients

\* As long as nobody leaves, is kicked or authenticates again, a handler ends
\* with an exception only on a connection that is being closed: what other
\* connections do at the same time (join, switch rooms, broadcast, disconnect)
\* does not cost a client its connection.
HandlersSurvive ==
    [][\A c \in Conns :
          (uses = {} /\ task[c] \notin {"none", "final"} /\ task'[c] = "final")
              => c \in closed]_vars

\* Every handler returns to its loop or ends: nobody waits for ever for a lock
\* that an exception, a broadcast or a clean-up has left behind.
HandlerReturns ==
    \A c \in Conns : pc[c] \notin {"recv", "dead"} ~> pc[c] \in {"recv", "dead"}

-----------------------------------------------------------------------------
(* The implementation of AtomicRooms *)

\* A connection that switches rooms is in its old room until it is in the new
\* one, and one that ends until it is forgotten.
RoomOf(c) ==
    IF pc[c] \in {"empty", "del", "reset", "join_add", "forget"} THEN old[c] ELSE current[c]

Atomic == INSTANCE AtomicRooms WITH at <- [c \in Conns |-> RoomOf(c)], hearing <- seen

\* As long as nobody leaves, is kicked or authenticates again, the handlers
\* implement AtomicRooms: a switch of rooms (_handle_join_room) and the end of a
\* connection (_cleanup_client) are one step to everybody else, and a broadcast
\* reaches exactly those who are members while it lasts (_broadcast_to_room).
ImplementsAtomicRooms ==
    /\ uses = {} => Atomic!Init
    /\ [][uses = {} => [Atomic!Next]_(Atomic!vars)]_vars
=============================================================================
