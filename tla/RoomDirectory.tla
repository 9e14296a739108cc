---------------------------- MODULE RoomDirectory ----------------------------
(***************************************************************************)
(* CREATE_ROOM and JOIN_ROOM at the Gateway (gateway/room_directory.py),   *)
(* served by one thread per connection over the tables rooms and           *)
(* room_mapping of one SQLite file, and the choice of a process server for *)
(* a new room (gateway/load_balancer.py).                                  *)
(*                                                                         *)
(* A transaction begins with its first INSERT, which takes the write lock  *)
(* of the database; what it has written shows with its commit, and is      *)
(* rolled back when the connection is closed before.  The choice copies    *)
(* the dictionary of servers under the lock, but not their entries, whose  *)
(* fields it reads one by one while heartbeats update them in place.       *)
(***************************************************************************)
EXTENDS Naturals

CONSTANTS
    Handlers, \* threads of the Gateway, each of one user
    Names,    \* room names
    N,        \* number of process servers; their ids are ordered like 1..N
    Loads,    \* bound: what a heartbeat may report
    Bounds,   \* bound: the handlers, servers and loads of a behaviour, one of these
    NoHandler, NoName, NoServer, NoLoad

Servers == 1..N

\* The load of a server that has just registered.
Zero == [active_rooms |-> 0, active_clients |-> 0, active_transfers |-> 0]

ASSUME DirectoryAssumption ==
    /\ N \in Nat
    /\ Loads \subseteq [active_rooms : Nat, active_clients : Nat, active_transfers : Nat]
    /\ Zero \in Loads /\ NoLoad \notin Loads
    /\ Bounds \subseteq [handlers : SUBSET Handlers, servers : SUBSET Servers, loads : SUBSET Loads]
    /\ NoHandler \notin Handlers /\ NoName \notin Names /\ NoServer \notin Servers

VARIABLES
    bounds,         \* the member of Bounds this behaviour is about
    alive, load,    \* backends: the servers alive in memory, and their loads
    table,          \* backend_servers: those alive in the table
    rooms, mapping, \* per name, the server_id of its committed row
    writer,         \* who has the write lock
    pc, name, server_id, \* per handler: where it is, and its locals; server_id is
                         \* also best_server_id of select_backend
    todo,           \* select_backend: the servers its loop has still to read,
    asked,          \* the one it is reading,
    score, min_score, \* its locals of these names,
    old,            \* and the entry it still has of a server that registered again
    since,          \* auxiliary: per handler and server, the loads its entry had
                    \* from the copy of the dictionary until it was read
    told            \* what users have been told: the answers that were sent

backends == <<alive, load, table>>
tables   == <<rooms, mapping>>
loop     == <<todo, asked, score, min_score, old, since>>
locals   == <<name, server_id, loop>>
vars     == <<bounds, backends, tables, writer, pc, locals, told>>

Answers == [user : Handlers, type : {"ROOM_ASSIGNED", "ROOM_LOCATION"}, name : Names,
            server : Servers]

Labels == {"idle", "select", "turn", "clients", "transfers", "insert", "map", "commit",
           "created", "joined"}

TypeOK ==
    /\ bounds \in Bounds
    /\ alive \subseteq Servers /\ table \subseteq Servers
    /\ load \in [Servers -> Loads]
    /\ rooms \in [Names -> Servers \cup {NoServer}]
    /\ mapping \in [Names -> Servers \cup {NoServer}]
    /\ writer \in Handlers \cup {NoHandler}
    /\ pc \in [Handlers -> Labels]
    /\ name \in [Handlers -> Names \cup {NoName}]
    /\ server_id \in [Handlers -> Servers \cup {NoServer}]
    /\ todo \in [Handlers -> SUBSET Servers]
    /\ asked \in [Handlers -> Servers \cup {NoServer}]
    /\ score \in [Handlers -> Nat] /\ min_score \in [Handlers -> Nat]
    /\ old \in [Handlers -> [Servers -> Loads \cup {NoLoad}]]
    /\ since \in [Handlers -> [Servers -> SUBSET Loads]]
    /\ told \subseteq Answers
    /\ \A h \in Handlers :
          pc[h] \in {"insert", "map", "commit", "created", "joined"} => server_id[h] \in Servers

Init ==
    /\ bounds \in Bounds
    /\ alive = {} /\ table = {} /\ load = [s \in Servers |-> Zero]
    /\ rooms = [n \in Names |-> NoServer] /\ mapping = [n \in Names |-> NoServer]
    /\ writer = NoHandler
    /\ pc = [h \in Handlers |-> "idle"]
    /\ name = [h \in Handlers |-> NoName] /\ server_id = [h \in Handlers |-> NoServer]
    /\ todo = [h \in Handlers |-> {}] /\ asked = [h \in Handlers |-> NoServer]
    /\ score = [h \in Handlers |-> 0] /\ min_score = [h \in Handlers |-> 0]
    /\ old = [h \in Handlers |-> [s \in Servers |-> NoLoad]]
    /\ since = [h \in Handlers |-> [s \in Servers |-> {}]]
    /\ told = {}

Goto(h, label) == pc' = [pc EXCEPT ![h] = label]

\* Nobody's choice: the locals of select_backend are gone.
Forgotten(h) ==
    /\ todo' = [todo EXCEPT ![h] = {}]
    /\ asked' = [asked EXCEPT ![h] = NoServer]
    /\ score' = [score EXCEPT ![h] = 0]
    /\ min_score' = [min_score EXCEPT ![h] = 0]
    /\ old' = [old EXCEPT ![h] = [s \in Servers |-> NoLoad]]
    /\ since' = [since EXCEPT ![h] = [s \in Servers |-> {}]]

\* Done, and the connection to the database is closed: an ERROR is sent, or
\* nothing could be.
Return(h) ==
    /\ Goto(h, "idle")
    /\ name' = [name EXCEPT ![h] = NoName]
    /\ server_id' = [server_id EXCEPT ![h] = NoServer]
    /\ Forgotten(h)

-----------------------------------------------------------------------------
(* select_backend *)

Outside == <<bounds, backends, tables, writer, told>>

\* get_alive_backends: a copy of the dictionary, with the entries themselves.
Select(h) ==
    /\ pc[h] = "select"
    /\ IF alive = {}
       THEN Return(h)   \* BACKEND_DOWN
       ELSE /\ Goto(h, "turn")
            /\ todo' = [todo EXCEPT ![h] = alive]
            /\ since' = [since EXCEPT ![h] = [s \in Servers |-> IF s \in alive THEN {load[s]} ELSE {}]]
            /\ UNCHANGED <<name, server_id, asked, score, min_score, old>>
    /\ UNCHANGED Outside

\* The entry of server s in the handler's copy.
Entry(h, s) == IF old[h][s] = NoLoad THEN load[s] ELSE old[h][s]

\* The next server, in the order of registration, which is any; its fields are
\* read one after the other.
AskRooms(h) ==
    /\ pc[h] = "turn"
    /\ \E s \in todo[h] :
          /\ asked' = [asked EXCEPT ![h] = s]
          /\ score' = [score EXCEPT ![h] = Entry(h, s).active_rooms * 10]
    /\ Goto(h, "clients")
    /\ UNCHANGED <<Outside, name, server_id, todo, min_score, old, since>>

AskClients(h) ==
    /\ pc[h] = "clients"
    /\ score' = [score EXCEPT ![h] = @ + Entry(h, asked[h]).active_clients]
    /\ Goto(h, "transfers")
    /\ UNCHANGED <<Outside, name, server_id, todo, asked, min_score, old, since>>

\* A variant with a bug: the last of several equal servers, in the order in
\* which they registered.
BetterOrEqual(h, x) ==
    \/ server_id[h] = NoServer
    \/ x <= min_score[h]

\* A server of score x takes the place of the best one so far.
Better(h, x) ==
    \/ server_id[h] = NoServer
    \/ x < min_score[h]
    \/ x = min_score[h] /\ asked[h] < server_id[h]

\* The score is complete and compared; the loop goes on, or the best is chosen.
AskTransfers(h) ==
    LET x    == score[h] + Entry(h, asked[h]).active_transfers * 2
        rest == todo[h] \ {asked[h]}
    IN
    /\ pc[h] = "transfers"
    /\ IF Better(h, x)
       THEN /\ server_id' = [server_id EXCEPT ![h] = asked[h]]
            /\ min_score' = [min_score EXCEPT ![h] = x]
       ELSE UNCHANGED <<server_id, min_score>>
    /\ todo' = [todo EXCEPT ![h] = rest]
    /\ asked' = [asked EXCEPT ![h] = NoServer]
    /\ score' = [score EXCEPT ![h] = 0]
    /\ old' = [old EXCEPT ![h][asked[h]] = NoLoad]
    /\ Goto(h, IF rest = {} THEN "insert" ELSE "turn")
    /\ UNCHANGED <<Outside, name, since>>

-----------------------------------------------------------------------------
(* create_room *)

\* The name is looked up before anything is locked.
CreateRoom(h, n) ==
    /\ h \in bounds.handlers
    /\ pc[h] = "idle" /\ rooms[n] = NoServer
    /\ Goto(h, "select")
    /\ name' = [name EXCEPT ![h] = n]
    /\ UNCHANGED <<Outside, server_id, loop>>

\* INSERT INTO rooms gets the lock; room_name is UNIQUE.
InsertRoom(h) ==
    /\ pc[h] = "insert" /\ writer = NoHandler
    /\ IF rooms[name[h]] = NoServer
       THEN /\ Goto(h, "map") /\ writer' = h /\ Forgotten(h)
            /\ UNCHANGED <<name, server_id>>
       ELSE Return(h) /\ UNCHANGED writer   \* INTERNAL_ERROR
    /\ UNCHANGED <<bounds, backends, tables, told>>

\* The lock is not free for five seconds: "database is locked".
InsertTimeout(h) ==
    /\ pc[h] = "insert" /\ writer # NoHandler
    /\ Return(h)
    /\ UNCHANGED Outside

\* A variant with a bug: each INSERT is committed by itself.
InsertMappingCommits(h) ==
    /\ pc[h] = "map"
    /\ Goto(h, "commit")
    /\ rooms' = [rooms EXCEPT ![name[h]] = server_id[h]]
    /\ UNCHANGED <<bounds, backends, mapping, writer, locals, told>>

\* INSERT INTO room_mapping, in the same transaction.
InsertMapping(h) ==
    /\ pc[h] = "map"
    /\ Goto(h, "commit")
    /\ UNCHANGED <<Outside, locals>>

Commit(h) ==
    /\ pc[h] = "commit"
    /\ rooms' = [rooms EXCEPT ![name[h]] = server_id[h]]
    /\ mapping' = [mapping EXCEPT ![name[h]] = server_id[h]]
    /\ writer' = NoHandler
    /\ Goto(h, "created")
    /\ UNCHANGED <<bounds, backends, locals, told>>

-----------------------------------------------------------------------------
(* join_room, and the answers *)

\* One SELECT over the mapping and the table of servers; ROOM_NOT_FOUND and
\* BACKEND_DOWN change nothing.
JoinRoom(h, n) ==
    /\ h \in bounds.handlers
    /\ pc[h] = "idle" /\ mapping[n] # NoServer /\ mapping[n] \in table
    /\ Goto(h, "joined")
    /\ name' = [name EXCEPT ![h] = n]
    /\ server_id' = [server_id EXCEPT ![h] = mapping[n]]
    /\ UNCHANGED <<Outside, loop>>

\* A variant with a bug: the server is chosen again for the answer.
AnswerSelectsAgain(h) ==
    [user |-> h, name |-> name[h],
     server |-> IF alive = {} THEN server_id[h] ELSE CHOOSE s \in alive : TRUE,
     type |-> IF pc[h] = "created" THEN "ROOM_ASSIGNED" ELSE "ROOM_LOCATION"]

Answer(h) ==
    [user |-> h, name |-> name[h], server |-> server_id[h],
     type |-> IF pc[h] = "created" THEN "ROOM_ASSIGNED" ELSE "ROOM_LOCATION"]

\* ROOM_ASSIGNED or ROOM_LOCATION reaches the user, or the user has gone.
Reply(h) ==
    /\ pc[h] \in {"created", "joined"}
    /\ told' \in {told, told \cup {Answer(h)}}
    /\ Return(h)
    /\ UNCHANGED <<bounds, backends, tables, writer>>

-----------------------------------------------------------------------------
(* The process servers (gateway/backend_service.py; BackendRegistry says more),
   and a restart of the Gateway *)

\* A heartbeat updates the entry in place, for whoever has it in its copy.
Heartbeat(s, x) ==
    /\ s \in bounds.servers /\ x \in bounds.loads
    /\ load' = [load EXCEPT ![s] = x]
    /\ alive' = alive \cup {s}
    /\ since' = [h \in Handlers |->
                   [since[h] EXCEPT ![s] =
                      IF s \in todo[h] /\ old[h][s] = NoLoad THEN @ \cup {x} ELSE @]]
    /\ UNCHANGED <<old, table>>

\* A registration makes a new entry; a loop under way keeps the old one.
Register(s) ==
    /\ s \in bounds.servers
    /\ load' = [load EXCEPT ![s] = Zero]
    /\ alive' = alive \cup {s}
    /\ old' = [h \in Handlers |->
                 IF s \in todo[h] THEN [old[h] EXCEPT ![s] = Entry(h, s)] ELSE old[h]]
    /\ UNCHANGED <<since, table>>

\* A server is found down; memory and table change one after the other.
MarkDown(s) ==
    /\ alive' = alive \ {s}
    /\ UNCHANGED <<load, old, since, table>>

WriteStatus(s) ==
    /\ s \in bounds.servers
    /\ table' \in {table \cup {s}, table \ {s}}
    /\ UNCHANGED <<load, alive, old, since>>

BackendChange ==
    /\ \E s \in Servers :
          \/ Register(s) \/ MarkDown(s) \/ WriteStatus(s)
          \/ \E x \in Loads : Heartbeat(s, x)
    /\ UNCHANGED <<bounds, tables, writer, pc, name, server_id, todo, asked, score, min_score, told>>

\* Threads and memory are gone, an open transaction is rolled back.
GatewayRestart ==
    /\ alive' = {}
    /\ writer' = NoHandler
    /\ pc' = [h \in Handlers |-> "idle"]
    /\ name' = [h \in Handlers |-> NoName]
    /\ server_id' = [h \in Handlers |-> NoServer]
    /\ todo' = [h \in Handlers |-> {}]
    /\ asked' = [h \in Handlers |-> NoServer]
    /\ score' = [h \in Handlers |-> 0]
    /\ min_score' = [h \in Handlers |-> 0]
    /\ old' = [h \in Handlers |-> [s \in Servers |-> NoLoad]]
    /\ since' = [h \in Handlers |-> [s \in Servers |-> {}]]
    /\ UNCHANGED <<bounds, load, table, tables, told>>

-----------------------------------------------------------------------------
HandlerStep(h) ==
    \/ Select(h) \/ AskRooms(h) \/ AskClients(h) \/ AskTransfers(h)
    \/ InsertRoom(h) \/ InsertMapping(h) \/ Commit(h) \/ Reply(h)

Next ==
    \/ \E h \in Handlers :
          \/ HandlerStep(h) \/ InsertTimeout(h)
          \/ \E n \in Names : CreateRoom(h, n) \/ JoinRoom(h, n)
    \/ BackendChange
    \/ GatewayRestart

Spec == Init /\ [][Next]_vars

-----------------------------------------------------------------------------
(* Properties *)

\* The two tables say the same of every room, whatever transaction was cut off
\* by a restart (create_room).
TablesAgree == rooms = mapping

\* Everybody who was told where a room is, its creator or somebody who joins,
\* was told the server it is on, although servers came and went in between
\* (create_room, join_room).
ToldIsHome == \A t \in told : mapping[t.name] = t.server

\* No two users are told that they created the same room, although both may
\* have found the name free (room_directory.py:36 and 48).
OneCreator ==
    \A t, u \in told :
        t.type = "ROOM_ASSIGNED" /\ u.type = "ROOM_ASSIGNED" /\ t.name = u.name
            => t.user = u.user

\* A room never moves to another server (create_room).
RoomNeverMoves ==
    [][\A n \in Names : rooms[n] # NoServer => rooms'[n] = rooms[n] /\ mapping'[n] = rooms[n]]_vars

\* The scores that can be read of a server whose entry had these loads: its three
\* fields need not be those of one heartbeat.
Scores(L) ==
    {a.active_rooms * 10 + b.active_clients + c.active_transfers * 2 : a \in L, b \in L, c \in L}

\* Whatever order the servers registered in, and whatever heartbeats,
\* registrations and the health check change while the loop reads their loads
\* without the lock: the server that was chosen for a room was alive when the
\* dictionary was copied, and no other that was is better by all the loads the
\* two had until they were read, the smaller id being the better one of equals
\* (load_balancer.py 18-33).  If no load changed, it has the least.  The
\* variables have their types.
ChoiceIsJustified ==
    /\ TypeOK
    /\ \A h \in Handlers : pc[h] = "insert" =>
          LET best == server_id[h]
          IN  /\ since[h][best] # {}
              /\ \A s \in Servers \ {best} : since[h][s] # {} =>
                    \E x \in Scores(since[h][best]), y \in Scores(since[h][s]) :
                        x < y \/ (x = y /\ best < s)

Directory == INSTANCE AtomicDirectory WITH Users <- Handlers, home <- rooms

\* The threads, with the lock of the database and whatever a restart cuts off,
\* implement AtomicDirectory: a room appears with its commit, on one server for
\* good, and every answer that was sent was true and one creator's at most
\* (create_room, join_room).
ImplementsDirectory == Directory!Spec
=============================================================================
