----------------------------- MODULE WebSession -----------------------------
(***************************************************************************)
(* A web session of the bridge: the join and leave routes                  *)
(* (web/api/routes.py 135-163), the RoomConnection they replace and the    *)
(* receiver thread of each (client/room_connection.py), the handler thread *)
(* each has in the process server (server/main.py), and the event queue    *)
(* that browsers poll (web/api/session.py 60-72, routes.py 91-94).         *)
(*                                                                         *)
(* The browser sends one join or leave request at a time, and a connection *)
(* authenticates once and joins one room.  disconnect() closes the socket, *)
(* but a receiver that is inside recv() keeps the connection alive until   *)
(* the next packet: till then the process server has the client in its old *)
(* room.  The same goes for the handler of a client that is kicked.        *)
(*                                                                         *)
(* RoomMembership has the handlers of a server for clients of any kind;    *)
(* here they serve those of the bridge, which join one room each.          *)
(***************************************************************************)
EXTENDS Naturals, Sequences

CONSTANTS
    Conns,   \* bound: the RoomConnections the session creates
    Others,  \* connections of other users, which are in a room at the start
    Rooms,
    Pollers, \* threads serving /api/events; each belongs to a load of the page
    MaxTalk, \* bound: what others say in the rooms
    Bounds,  \* bound: the connections and pollers a behaviour may use, which of
             \* the connections may break, and how much is said in it
    NoConn, NoRoom

Everyone == Conns \cup Others

ASSUME BoundsAssumption ==
    /\ Bounds \subseteq [conns : SUBSET Conns, others : SUBSET Others,
                         pollers : (SUBSET Pollers) \ {{}}, breaks : SUBSET Everyone,
                         talk : 0..MaxTalk]
    /\ MaxTalk \in Nat
ASSUME NamesAssumption == Conns \cap Others = {} /\ NoConn \notin Everyone /\ NoRoom \notin Rooms

VARIABLES
    pc, want,             \* the thread of the join route, and the room asked for
    answer,               \* res_container of _sync_request
    room_conn,            \* session.room_conn
    told,                 \* the room of the last join, when it was answered with success
    running, closed,      \* per connection: the flag, and whether close() was called
    rx,                   \* its receiver: none, recv or ended
    toServer, toClient,
    peer,                 \* the server's end: none, open or closed
    shut,                 \* connections the server has closed for a kick
    at, target,           \* where each handler thread is, and whom it kicks
    lock,                 \* holder of self.lock
    clients,              \* keys of self.clients
    current,              \* current_room of each client's record
    home,                 \* the room a connection has asked to join
    open, rooms,          \* keys of self.rooms, and self.rooms[r], {} when r is no key
    talked, breaks,       \* what was said, and the connections that may break
    events, pushed,       \* the queue, numbers for events, and the last number
    handed,               \* what get_events has returned so far
    poll,                 \* per poller: idle, waiting, woken or done
    page,                 \* the poller of the page as it is loaded now
    kicked,               \* for the properties: connections that were kicked, ...
    wiped,                \* ... that were in a room when a LEAVE_ROOM deleted it, ...
    stuck                 \* ... and whose clean-up has raised

route   == <<pc, want, answer, room_conn, told>>
link    == <<running, closed, rx>>
wires   == <<toServer, toClient>>
thread  == <<peer, shut, at, target, lock>>
tables  == <<clients, current, home, open, rooms>>
limits  == <<talked, breaks>>
fate    == <<kicked, wiped, stuck>>
server  == <<thread, tables, limits, fate>>
queue   == <<events, pushed, handed, poll, page>>
vars    == <<route, link, wires, server, queue>>

\* A packet of the server: the answer to a request, or an event.
Packets == [type : {"AUTH_BACKEND", "JOIN_ROOM_BACKEND", "LEAVE_ROOM"}, ok : BOOLEAN]
             \cup {[type |-> "SYSTEM_EVENT", ok |-> TRUE]}
Event == [type |-> "SYSTEM_EVENT", ok |-> TRUE]

Labels == {"recv", "join", "greet", "check", "discard", "empty", "del", "reset", "part",
           "notice", "clean", "forget", "mourn", "shut", "ended"}

Init ==
    /\ pc = "idle" /\ want = NoRoom /\ answer = "none"
    /\ room_conn = NoConn /\ told = NoRoom
    /\ running = [c \in Conns |-> FALSE] /\ closed = [c \in Conns |-> FALSE]
    /\ rx = [c \in Conns |-> "none"]
    /\ toServer = [c \in Conns |-> <<>>] /\ toClient = [c \in Conns |-> <<>>]
    /\ events = <<>> /\ pushed = 0 /\ handed = <<>>
    /\ shut = {} /\ target = [o \in Others |-> NoConn] /\ lock = NoConn
    /\ kicked = {} /\ wiped = {} /\ stuck = {}
    /\ \E bound \in Bounds, r \in Rooms :
          /\ peer = [e \in Everyone |-> IF e \in bound.conns THEN "none"
                                       ELSE IF e \in bound.others THEN "open" ELSE "closed"]
          /\ at = [e \in Everyone |-> IF e \in bound.others THEN "recv" ELSE "ended"]
          /\ clients = bound.others
          /\ current = [e \in Everyone |-> IF e \in bound.others THEN r ELSE NoRoom]
          /\ home = current
          /\ open = IF bound.others = {} THEN {} ELSE {r}
          /\ rooms = [q \in Rooms |-> IF q = r THEN bound.others ELSE {}]
          /\ poll = [p \in Pollers |-> IF p \in bound.pollers THEN "idle" ELSE "done"]
          /\ talked = MaxTalk - bound.talk /\ breaks = bound.breaks
    /\ page = CHOOSE p \in Pollers : poll[p] = "idle"

TypeOK ==
    /\ pc \in {"idle", "connect", "auth", "auth_wait", "join", "join_wait"}
    /\ want \in Rooms \cup {NoRoom} /\ told \in Rooms \cup {NoRoom}
    /\ answer \in {"none", "ok", "error"}
    /\ room_conn \in Conns \cup {NoConn}
    /\ running \in [Conns -> BOOLEAN] /\ closed \in [Conns -> BOOLEAN]
    /\ rx \in [Conns -> {"none", "recv", "ended"}]
    /\ \A c \in Conns : toClient[c] \in Seq(Packets)
    /\ peer \in [Everyone -> {"none", "open", "closed"}] /\ shut \subseteq Conns
    /\ at \in [Everyone -> Labels] /\ target \in [Others -> Conns \cup {NoConn}]
    /\ lock \in Everyone \cup {NoConn}
    /\ clients \subseteq Everyone
    /\ current \in [Everyone -> Rooms \cup {NoRoom}]
    /\ home \in [Everyone -> Rooms \cup {NoRoom}]
    /\ open \subseteq Rooms /\ rooms \in [Rooms -> SUBSET Everyone]
    /\ talked \in 0..MaxTalk /\ breaks \subseteq Everyone
    /\ poll \in [Pollers -> {"idle", "waiting", "woken", "done"}] /\ page \in Pollers
    /\ kicked \subseteq Conns /\ wiped \subseteq Everyone /\ stuck \subseteq Everyone

-----------------------------------------------------------------------------
(* The event queue *)

\* A variant with a bug: the event is appended without notify_all.
PushSilently(k) ==
    /\ pushed' = pushed + k
    /\ events' = events \o [n \in 1..k |-> pushed + n]
    /\ UNCHANGED <<poll, handed, page>>

\* push_event, k times: append and notify_all.
Push(k) ==
    /\ pushed' = pushed + k
    /\ events' = events \o [n \in 1..k |-> pushed + n]
    /\ poll' = [p \in Pollers |-> IF poll[p] = "waiting" THEN "woken" ELSE poll[p]]
    /\ UNCHANGED <<handed, page>>

\* A variant with a bug: the queue is emptied by the next caller.
TakeKeeps(p) ==
    /\ handed' = handed \o events
    /\ UNCHANGED events
    /\ poll' = [poll EXCEPT ![p] = IF p = page THEN "idle" ELSE "done"]

\* get_events returns what there is and empties the queue; the page that asked
\* polls again, a poller of a page that is gone does not.
Take(p) ==
    /\ handed' = handed \o events
    /\ events' = <<>>
    /\ poll' = [poll EXCEPT ![p] = IF p = page THEN "idle" ELSE "done"]

\* get_events: it waits only if the queue is empty, ...
Poll(p) ==
    /\ p = page /\ poll[p] = "idle"
    /\ \/ events # <<>> /\ Take(p)
       \/ events = <<>> /\ poll' = [poll EXCEPT ![p] = "waiting"] /\ UNCHANGED <<events, handed>>
    /\ UNCHANGED <<route, link, wires, server, pushed, page>>

\* ... and returns whatever is there when it is woken up, or after 25 seconds.
PollWakes(p) ==
    /\ poll[p] = "woken"
    /\ Take(p)
    /\ UNCHANGED <<route, link, wires, server, pushed, page>>

PollTimeout(p) ==
    /\ poll[p] = "waiting"
    /\ Take(p)
    /\ UNCHANGED <<route, link, wires, server, pushed, page>>

\* The page is loaded again: its poller changes, and the old one, if it waits,
\* goes on waiting.
Reload(p) ==
    /\ p # page /\ poll[p] = "idle"
    /\ page' = p
    /\ poll' = [poll EXCEPT ![page] = IF poll[page] = "idle" THEN "done" ELSE @]
    /\ UNCHANGED <<route, link, wires, server, events, pushed, handed>>

-----------------------------------------------------------------------------
(* The join and leave routes *)

Fail == pc' = "idle" /\ UNCHANGED <<want, room_conn, told>>

\* The RoomConnections that are still to be created.
Fresh == {c \in Conns : c # room_conn /\ peer[c] = "none" /\ ~closed[c]}

\* A variant with a bug: the old connection is just forgotten.
JoinWithoutDisconnect(r) ==
    /\ pc = "idle"
    /\ Fresh # {} /\ room_conn' = CHOOSE c \in Fresh : TRUE
    /\ want' = r /\ told' = NoRoom
    /\ pc' = "connect"
    /\ UNCHANGED <<answer, link, wires, server, queue>>

\* POST /api/rooms/join, after the Gateway has named the server: the old
\* connection is closed, and an object that is not yet connected replaces it.
Join(r) ==
    /\ pc = "idle"
    /\ Fresh # {} /\ room_conn' = CHOOSE c \in Fresh : TRUE
    /\ running' = [c \in Conns |-> running[c] /\ c # room_conn]
    /\ closed' = [c \in Conns |-> closed[c] \/ c = room_conn]
    /\ want' = r /\ told' = NoRoom
    /\ pc' = "connect"
    /\ UNCHANGED <<answer, rx, wires, server, queue>>

\* connect() starts the receiver, or fails and leaves the object in its place.
Connect ==
    /\ pc = "connect"
    /\ \/ /\ running' = [running EXCEPT ![room_conn] = TRUE]
          /\ rx' = [rx EXCEPT ![room_conn] = "recv"]
          /\ peer' = [peer EXCEPT ![room_conn] = "open"]
          /\ at' = [at EXCEPT ![room_conn] = "recv"]
          /\ pc' = "auth"
          /\ UNCHANGED <<want, room_conn, told>>
       \/ Fail /\ UNCHANGED <<running, rx, peer, at>>
    /\ UNCHANGED <<answer, closed, wires, shut, target, lock, tables, limits, fate, queue>>

\* send_request: refused once the connection is known to be down, and it may
\* find out by itself.
Request(type, wait) ==
    /\ \/ /\ running[room_conn]
          /\ toServer' = [toServer EXCEPT ![room_conn] = Append(@, [type |-> type, room |-> want])]
          /\ pc' = wait
          /\ UNCHANGED <<want, room_conn, told, running>>
       \/ /\ ~running[room_conn] \/ peer[room_conn] = "closed"
          /\ running' = [running EXCEPT ![room_conn] = FALSE]
          /\ Fail /\ UNCHANGED toServer
    /\ UNCHANGED <<answer, closed, rx, toClient, server, queue>>

SendAuth == pc = "auth" /\ Request("AUTH_BACKEND", "auth_wait")
SendJoin == pc = "join" /\ Request("JOIN_ROOM_BACKEND", "join_wait")

Authenticated ==
    /\ pc = "auth_wait" /\ answer # "none"
    /\ \/ answer = "ok" /\ pc' = "join" /\ UNCHANGED <<want, room_conn, told>>
       \/ answer = "error" /\ Fail
    /\ answer' = "none"
    /\ UNCHANGED <<link, wires, server, queue>>

Joined ==
    /\ pc = "join_wait" /\ answer # "none"
    /\ \/ answer = "ok" /\ pc' = "idle" /\ told' = want /\ UNCHANGED <<want, room_conn>>
       \/ answer = "error" /\ Fail
    /\ answer' = "none"
    /\ UNCHANGED <<link, wires, server, queue>>

\* Five seconds without an answer.
RouteTimeout ==
    /\ pc \in {"auth_wait", "join_wait"} /\ answer = "none"
    /\ Fail
    /\ UNCHANGED <<answer, link, wires, server, queue>>

\* POST /api/rooms/leave: LEAVE_ROOM is sent, and nobody waits for the answer.
Leave ==
    /\ pc = "idle" /\ room_conn # NoConn
    /\ toServer' = [toServer EXCEPT ![room_conn] =
                       IF running[room_conn] THEN Append(@, [type |-> "LEAVE_ROOM", room |-> NoRoom])
                       ELSE @]
    /\ running' = [running EXCEPT ![room_conn] = FALSE]
    /\ closed' = [closed EXCEPT ![room_conn] = TRUE]
    /\ room_conn' = NoConn /\ told' = NoRoom
    /\ UNCHANGED <<pc, want, answer, rx, toClient, server, queue>>

-----------------------------------------------------------------------------
(* The receiver threads *)

\* A variant with a bug: the connections share one table of callbacks.
WaitsAnywhere(c, type) ==
    \/ pc = "auth_wait" /\ type = "AUTH_BACKEND"
    \/ pc = "join_wait" /\ type = "JOIN_ROOM_BACKEND"

\* The answer to a request goes to the callback the connection has for it; the
\* callback of a request that has timed out does nothing.
Waits(c, type) ==
    /\ c = room_conn
    /\ \/ pc = "auth_wait" /\ type = "AUTH_BACKEND"
       \/ pc = "join_wait" /\ type = "JOIN_ROOM_BACKEND"

\* A receiver inside recv() gets its packet, whether or not disconnect() has
\* been called in the meantime, and then looks at running; the end of its loop
\* is an event too.
Receive(c) ==
    /\ rx[c] = "recv" /\ toClient[c] # <<>>
    /\ rx' = [rx EXCEPT ![c] = IF running[c] THEN "recv" ELSE "ended"]
    /\ toClient' = [toClient EXCEPT ![c] = IF running[c] THEN Tail(@) ELSE <<>>]
    /\ LET p == Head(toClient[c])
       IN /\ answer' = IF Waits(c, p.type) THEN (IF p.ok THEN "ok" ELSE "error") ELSE answer
          /\ Push((IF p = Event THEN 1 ELSE 0) + (IF running[c] THEN 0 ELSE 1))
    /\ UNCHANGED <<pc, want, room_conn, told, running, closed, toServer, server>>

\* The receiver ends: the loop is left, and that is an event.
Ends(c) ==
    /\ rx' = [rx EXCEPT ![c] = "ended"]
    /\ running' = [running EXCEPT ![c] = FALSE]
    /\ toClient' = [toClient EXCEPT ![c] = <<>>]
    /\ Push(1)
    /\ UNCHANGED <<route, closed, toServer, server>>

\* The server has ended the connection.
ReceiveEnds(c) == rx[c] = "recv" /\ peer[c] = "closed" /\ toClient[c] = <<>> /\ Ends(c)

\* The socket was closed before recv() was called.
ReceiveFails(c) == rx[c] = "recv" /\ closed[c] /\ Ends(c)

-----------------------------------------------------------------------------
(* The handler threads of the process server *)

LockFree == lock = NoConn

Goto(t, label) == at' = [at EXCEPT ![t] = label]

\* The client it is about: the handler's own, or the one it kicks.
About(t) == IF t \in Others /\ target[t] # NoConn THEN target[t] ELSE t

\* The handler is left for the finally clause: `with conn` has closed the socket,
\* and _cleanup_client(conn) comes next.  What was not read is lost.
ToFinally(t) ==
    /\ peer' = [peer EXCEPT ![t] = "closed"]
    /\ Goto(t, "clean")
    /\ target' = [o \in Others |-> IF o = t THEN NoConn ELSE target[o]]
    /\ toServer' = [c \in Conns |-> IF c = t THEN <<>> ELSE toServer[c]]
    /\ UNCHANGED stuck

\* An exception: a `with self.lock` on the way is released, and the handler left;
\* in the finally clause itself the thread ends.
Raise(t) ==
    /\ lock' = IF lock = t THEN NoConn ELSE lock
    /\ IF peer[t] # "closed" THEN ToFinally(t)
       ELSE /\ Goto(t, "ended")
            /\ stuck' = stuck \cup {t}
            /\ UNCHANGED <<peer, target, toServer>>

\* A packet to each of the connections; a receiver that has ended reads none.
Send(ds, p, sent) ==
    [c \in Conns |-> IF c \in ds /\ rx[c] = "recv" THEN Append(sent[c], p) ELSE sent[c]]

\* _broadcast_to_room: the members whose socket is open get it.
Broadcast(r, sent) == Send({c \in rooms[r] : peer[c] = "open" /\ c \notin shut}, Event, sent)

Reply(c, type, ok) == Send({c}, [type |-> type, ok |-> ok], toClient)

Asked(c, type) == at[c] = "recv" /\ toServer[c] # <<>> /\ Head(toServer[c]).type = type

\* The request is read, and what it asks for is begun.
Begin(c, label) ==
    /\ toServer' = [toServer EXCEPT ![c] = Tail(@)]
    /\ Goto(c, label)

\* A request that is refused; nothing can be sent on a socket that was closed.
Refuse(c, type) ==
    IF c \in shut THEN Raise(c) /\ UNCHANGED toClient
    ELSE /\ Begin(c, "recv")
         /\ toClient' = Reply(c, type, FALSE)
         /\ UNCHANGED <<peer, target, lock, stuck>>

\* _handle_auth_backend: the token is validated by the Gateway, which may refuse
\* it.
HandleAuth(c) ==
    /\ Asked(c, "AUTH_BACKEND")
    /\ \/ Refuse(c, "AUTH_BACKEND") /\ UNCHANGED tables
       \/ /\ LockFree /\ c \notin shut
          /\ clients' = clients \cup {c}
          /\ current' = [current EXCEPT ![c] = NoRoom]
          /\ Begin(c, "recv")
          /\ toClient' = Reply(c, "AUTH_BACKEND", TRUE)
          /\ UNCHANGED <<peer, target, lock, home, open, rooms, stuck>>
    /\ UNCHANGED <<route, link, queue, shut, limits, kicked, wiped>>

\* _handle_join_room takes the lock, and the room has a set ...
HandleJoin(c) ==
    /\ Asked(c, "JOIN_ROOM_BACKEND")
    /\ \/ c \notin clients /\ Refuse(c, "JOIN_ROOM_BACKEND") /\ UNCHANGED <<home, open>>
       \/ /\ c \in clients /\ LockFree
          /\ lock' = c
          /\ home' = [home EXCEPT ![c] = Head(toServer[c]).room]
          /\ open' = open \cup {home'[c]}
          /\ Begin(c, "join")
          /\ UNCHANGED <<toClient, peer, target, stuck>>
    /\ UNCHANGED <<route, link, queue, shut, clients, current, rooms, limits, kicked, wiped>>

\* ... which the connection joins, unless a LEAVE_ROOM has deleted it again.
JoinAdd(c) ==
    /\ at[c] = "join"
    /\ IF home[c] \in open
       THEN /\ rooms' = [rooms EXCEPT ![home[c]] = @ \cup {c}]
            /\ current' = [current EXCEPT ![c] = home[c]]
            /\ lock' = NoConn
            /\ Goto(c, "greet")
            /\ UNCHANGED <<peer, target, toServer, stuck>>
       ELSE Raise(c) /\ UNCHANGED <<rooms, current>>
    /\ UNCHANGED <<route, link, queue, toClient, shut, clients, home, open, limits, kicked, wiped>>

\* The room is told, and the client last.
Greet(c) ==
    /\ at[c] = "greet" /\ LockFree
    /\ LET told_room == Broadcast(home[c], toClient)
       IN IF c \in shut THEN toClient' = told_room /\ Raise(c)
          ELSE /\ toClient' = Send({c}, [type |-> "JOIN_ROOM_BACKEND", ok |-> TRUE], told_room)
               /\ Goto(c, "recv")
               /\ UNCHANGED <<peer, target, lock, toServer, stuck>>
    /\ UNCHANGED <<route, link, queue, shut, tables, limits, kicked, wiped>>

\* _handle_leave_room: the record is read without the lock, as is all that
\* follows.
HandleLeave(c) ==
    /\ Asked(c, "LEAVE_ROOM")
    /\ \/ /\ c \notin clients \/ current[c] = NoRoom
          /\ Refuse(c, "LEAVE_ROOM")
       \/ /\ c \in clients /\ current[c] # NoRoom
          /\ Begin(c, "check")
          /\ UNCHANGED <<toClient, peer, target, lock, stuck>>
    /\ UNCHANGED <<route, link, queue, shut, tables, limits, kicked, wiped>>

\* What _leave_room_logic is followed by: in _cleanup_client, which holds the
\* lock, by `del self.clients[conn]`.
AfterLeave(t) == IF lock = t THEN "forget" ELSE "part"

\* A statement of _leave_room_logic that looks the room up, which does `what` or
\* raises KeyError if the room was deleted by then.
Leaving(t, label, what) ==
    /\ at[t] = label
    /\ IF home[About(t)] \in open THEN what /\ UNCHANGED <<lock, peer, target, toServer, stuck>>
       ELSE Raise(t) /\ UNCHANGED <<open, rooms, wiped>>
    /\ UNCHANGED <<route, link, queue, toClient, shut, clients, current, home, limits, kicked>>

\* `if room_name and room_name in self.rooms`, after self.clients[conn].
LeaveCheck(t) ==
    LET w == About(t) IN
    /\ at[t] = "check"
    /\ \/ w \notin clients /\ Raise(t)
       \/ /\ w \in clients
          /\ Goto(t, IF current[w] # NoRoom /\ home[w] \in open THEN "discard" ELSE AfterLeave(t))
          /\ UNCHANGED <<lock, peer, target, toServer, stuck>>
    /\ UNCHANGED <<route, link, queue, toClient, shut, tables, limits, kicked, wiped>>

LeaveDiscard(t) ==
    Leaving(t, "discard", /\ rooms' = [rooms EXCEPT ![home[About(t)]] = @ \ {About(t)}]
                          /\ Goto(t, "empty")
                          /\ UNCHANGED <<open, wiped>>)

LeaveEmpty(t) ==
    Leaving(t, "empty", /\ Goto(t, IF rooms[home[About(t)]] = {} THEN "del" ELSE "reset")
                        /\ UNCHANGED <<open, rooms, wiped>>)

\* del self.rooms[room_name], whoever is in it by now.
LeaveDel(t) ==
    Leaving(t, "del", LET r == home[About(t)] IN
                      /\ open' = open \ {r}
                      /\ rooms' = [rooms EXCEPT ![r] = {}]
                      /\ wiped' = IF lock = t THEN wiped ELSE wiped \cup rooms[r]
                      /\ Goto(t, "reset"))

LeaveReset(t) ==
    /\ at[t] = "reset"
    /\ current' = [current EXCEPT ![About(t)] = NoRoom]
    /\ Goto(t, AfterLeave(t))
    /\ UNCHANGED <<route, link, queue, wires, peer, shut, target, lock, clients, home, open, rooms,
                   limits, fate>>

\* LEAVE_ROOM_OK is sent before the room is told.
Part(t) ==
    /\ at[t] = "part" /\ LockFree
    /\ IF t \in shut THEN Raise(t) /\ UNCHANGED toClient
       ELSE /\ toClient' = Broadcast(home[t], Reply(t, "LEAVE_ROOM", TRUE))
            /\ Goto(t, "recv")
            /\ UNCHANGED <<peer, target, lock, toServer, stuck>>
    /\ UNCHANGED <<route, link, queue, shut, tables, limits, kicked, wiped>>

\* Another user leaves the room, or, if it is the owner, kicks a member: the
\* member is looked up under the lock, ...
OtherLeaves(o) ==
    /\ at[o] = "recv" /\ o \in clients /\ current[o] # NoRoom
    /\ Goto(o, "check")
    /\ UNCHANGED <<route, link, queue, wires, peer, shut, target, lock, tables, limits, fate>>

Kick(o, d) ==
    /\ at[o] = "recv" /\ o \in clients /\ current[o] # NoRoom /\ LockFree
    /\ d \in clients /\ current[d] = current[o]
    /\ target' = [target EXCEPT ![o] = d]
    /\ Goto(o, "notice")
    /\ UNCHANGED <<route, link, queue, wires, peer, shut, lock, tables, limits, fate>>

\* ... told, and then cleaned up after.
Notice(o) ==
    /\ at[o] = "notice"
    /\ IF peer[target[o]] = "closed" THEN Raise(o) /\ UNCHANGED toClient
       ELSE /\ toClient' = Send({target[o]}, Event, toClient)
            /\ Goto(o, "clean")
            /\ UNCHANGED <<peer, target, lock, toServer, stuck>>
    /\ UNCHANGED <<route, link, queue, shut, tables, limits, kicked, wiped>>

AfterCleanup(t) == IF peer[t] = "closed" THEN "ended" ELSE "shut"

Kicked(t) == kicked' = kicked \cup ({About(t)} \ {t})

\* A variant with a bug: `del self.clients[conn]` is indented too far.
CleanMembersOnly(t) ==
    LET w == About(t) IN
    /\ at[t] = "clean" /\ LockFree
    /\ IF w \in clients /\ current[w] # NoRoom
       THEN lock' = t /\ Goto(t, "check")
       ELSE Goto(t, AfterCleanup(t)) /\ UNCHANGED lock
    /\ Kicked(t)
    /\ UNCHANGED <<route, link, queue, wires, peer, shut, target, tables, limits, wiped, stuck>>

\* _cleanup_client: a client that is in no room is removed at once.
Clean(t) ==
    LET w == About(t) IN
    /\ at[t] = "clean" /\ LockFree
    /\ IF w \in clients /\ current[w] # NoRoom
       THEN lock' = t /\ Goto(t, "check") /\ UNCHANGED clients
       ELSE clients' = clients \ {w} /\ Goto(t, AfterCleanup(t)) /\ UNCHANGED lock
    /\ Kicked(t)
    /\ UNCHANGED <<route, link, queue, wires, peer, shut, target, current, home, open, rooms, limits,
                   wiped, stuck>>

Forget(t) ==
    /\ at[t] = "forget"
    /\ clients' = clients \ {About(t)}
    /\ lock' = NoConn
    /\ Goto(t, "mourn")
    /\ UNCHANGED <<route, link, queue, wires, peer, shut, target, current, home, open, rooms, limits, fate>>

Mourn(t) ==
    /\ at[t] = "mourn" /\ LockFree
    /\ toClient' = Broadcast(home[About(t)], toClient)
    /\ Goto(t, AfterCleanup(t))
    /\ UNCHANGED <<route, link, queue, toServer, peer, shut, target, lock, tables, limits, fate>>

\* The socket of the target is closed, and its room told once more.
Shut(o) ==
    /\ at[o] = "shut" /\ LockFree
    /\ shut' = shut \cup {target[o]}
    /\ toClient' = [c \in Conns |-> IF c = target[o] THEN toClient[c]
                                     ELSE Broadcast(home[o], toClient)[c]]
    /\ target' = [target EXCEPT ![o] = NoConn]
    /\ Goto(o, "recv")
    /\ UNCHANGED <<route, link, queue, toServer, peer, lock, tables, limits, fate>>

\* The handler sees the end once the client's socket is closed and nobody is
\* inside recv() on it; what it has not read by then may be lost.
SeeEnd(c) ==
    /\ at[c] = "recv" /\ closed[c] /\ rx[c] # "recv"
    /\ ToFinally(c)
    /\ UNCHANGED <<route, link, queue, toClient, shut, lock, tables, limits, kicked, wiped>>

\* The connection breaks, or was closed by a kick before recv() was called.
Break(t) ==
    /\ at[t] = "recv" /\ t \in breaks
    /\ ToFinally(t)
    /\ UNCHANGED <<route, link, queue, toClient, shut, lock, tables, limits, kicked, wiped>>

\* Somebody says something in a room.
Talk(r) ==
    /\ talked < MaxTalk /\ rooms[r] # {} /\ LockFree
    /\ talked' = talked + 1
    /\ toClient' = Broadcast(r, toClient)
    /\ UNCHANGED <<route, link, queue, toServer, thread, tables, breaks, fate>>

-----------------------------------------------------------------------------
RouteStep       == Connect \/ SendAuth \/ SendJoin \/ Authenticated \/ Joined \/ RouteTimeout
ReceiverStep(c) == Receive(c) \/ ReceiveEnds(c)
HandlerStep(c)  == HandleAuth(c) \/ HandleJoin(c) \/ JoinAdd(c) \/ Greet(c) \/ HandleLeave(c) \/ SeeEnd(c)
ThreadStep(t)   == \/ LeaveCheck(t) \/ LeaveDiscard(t) \/ LeaveEmpty(t) \/ LeaveDel(t) \/ LeaveReset(t)
                   \/ Part(t) \/ Clean(t) \/ Forget(t) \/ Mourn(t)
KickStep(o)     == Notice(o) \/ Shut(o)
PollerStep(p)   == Poll(p) \/ PollWakes(p)

Next ==
    \/ RouteStep \/ Leave \/ \E r \in Rooms : Join(r) \/ Talk(r)
    \/ \E c \in Conns : ReceiverStep(c) \/ ReceiveFails(c) \/ HandlerStep(c)
    \/ \E o \in Others : KickStep(o) \/ OtherLeaves(o) \/ \E d \in Conns : Kick(o, d)
    \/ \E t \in Everyone : ThreadStep(t) \/ Break(t)
    \/ \E p \in Pollers : PollerStep(p) \/ PollTimeout(p) \/ Reload(p)

Spec == Init /\ [][Next]_vars

\* Threads go on and the page polls; nobody has to join, leave, kick, talk or
\* reload, and no connection to break.
FairSpec ==
    /\ Spec
    /\ WF_vars(RouteStep)
    /\ \A c \in Conns : WF_vars(ReceiverStep(c)) /\ WF_vars(HandlerStep(c) \/ ThreadStep(c))
    /\ \A o \in Others : WF_vars(KickStep(o) \/ ThreadStep(o))
    /\ \A p \in Pollers : WF_vars(PollerStep(p))

-----------------------------------------------------------------------------
(* Properties *)

\* As long as its requests come one after the other, a session has one running
\* connection at most, the one it uses: joins, leaves and failed joins disconnect
\* every other one (routes.py 140-147, 157-162).
OneOpenConnection == \A c \in Conns : running[c] => c = room_conn

\* A room the browser was told it is in is a room the server has it in, in its
\* record and in the set of members, by the connection the session uses, until the
\* connection ends or is kicked: late answers to earlier joins are not taken for
\* the last one's (routes.py 146-152), and a kick, a LEAVE_ROOM or a clean-up of
\* another connection takes nobody else out, but for a LEAVE_ROOM that found the
\* room empty before this one joined it (server/main.py:424-426).
ToldIsMember ==
    pc = "idle" /\ told # NoRoom /\ peer[room_conn] = "open" /\ room_conn \notin kicked =>
        /\ room_conn \in clients /\ current[room_conn] = told
        /\ room_conn \in rooms[told] \cup wiped

\* Every event is handed out once and in order, whoever polls: several threads
\* may wait at once, of pages that are gone and of the one that is there
\* (session.py 60-72).  The variables have their types.
EventsOnce == TypeOK /\ handed \o events = [n \in 1..pushed |-> n]

\* An event does not stay in the queue while the page polls.
EventsHandedOut == events # <<>> ~> events = <<>>

\* The server forgets a connection the session has closed once its receiver has
\* ended, for which one more packet is enough, and so a room its user has left for
\* another (client/room_connection.py 38-45, 76-87, server/main.py:1171); unless the
\* clean-up raises, which takes a LEAVE_ROOM at the same time (server/main.py:1183).
ClosedIsForgotten ==
    \A c \in Conns :
        closed[c] /\ (toClient[c] # <<>> \/ rx[c] = "ended") ~> c \notin clients \/ c \in stuck
=============================================================================
