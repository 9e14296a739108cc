------------------------- MODULE RoomDirectoryProofs -------------------------
(***************************************************************************)
(* A room is on one server for good, and whoever is told where it is, or   *)
(* that he created it, is told the truth: for any numbers of handlers,     *)
(* names and servers.                                                      *)
(*                                                                         *)
(* The lock makes it so: a handler that has inserted its row holds it, and *)
(* till it commits nobody else can take the name.  What select_backend     *)
(* chooses follows from an invariant of its loop, which says of the        *)
(* servers that were passed what ChoiceIsJustified says of all.            *)
(***************************************************************************)
EXTENDS RoomDirectory, TLAPS

-----------------------------------------------------------------------------
(* Types *)

\* A request has its name, and the server whose load is read is still to be passed.
Request ==
    \A h \in Handlers :
        /\ pc[h] # "idle" => name[h] \in Names
        /\ pc[h] \in {"clients", "transfers"} => asked[h] \in todo[h]

Typed == TypeOK /\ Request

\* The empty tables and idle handlers of the start have their types.
LEMMA InitTyped == Init => Typed
BY DirectoryAssumption DEF Init, Typed, TypeOK, Request, Labels

\* The entry of a server in a handler's copy is a load.
LEMMA EntryIsLoad ==
    ASSUME TypeOK, NEW h \in Handlers, NEW s \in Servers
    PROVE  /\ Entry(h, s) \in Loads
           /\ Entry(h, s).active_rooms \in Nat
           /\ Entry(h, s).active_clients \in Nat
           /\ Entry(h, s).active_transfers \in Nat
<1>1. Entry(h, s) \in Loads BY DEF Entry, TypeOK
<1> QED BY <1>1, DirectoryAssumption

\* Locals that are forgotten have their types.
LEMMA ForgottenTyped ==
    ASSUME TypeOK, NEW h \in Handlers, Forgotten(h)
    PROVE  /\ todo' \in [Handlers -> SUBSET Servers]
           /\ asked' \in [Handlers -> Servers \cup {NoServer}]
           /\ score' \in [Handlers -> Nat] /\ min_score' \in [Handlers -> Nat]
           /\ old' \in [Handlers -> [Servers -> Loads \cup {NoLoad}]]
           /\ since' \in [Handlers -> [Servers -> SUBSET Loads]]
           /\ \A k \in Handlers \ {h} : asked'[k] = asked[k] /\ todo'[k] = todo[k]
BY DEF Forgotten, TypeOK

\* A step that only ends a request.
LEMMA ReturnTyped ==
    ASSUME Typed, NEW h \in Handlers, Return(h), UNCHANGED <<bounds, backends, tables>>,
           writer' \in Handlers \cup {NoHandler}, told' \subseteq Answers
    PROVE  Typed'
<1>1. TypeOK'
  BY ForgottenTyped DEF Typed, TypeOK, Return, Goto, backends, tables, Labels
<1>2. Request'
  BY ForgottenTyped DEF Typed, TypeOK, Request, Return, Goto, Labels
<1> QED BY <1>1, <1>2 DEF Typed

\* The copy of the dictionary.
LEMMA SelectTyped ==
    ASSUME Typed, NEW h \in Handlers, Select(h)
    PROVE  Typed'
<1>1. CASE alive = {}
  BY <1>1, ReturnTyped DEF Select, Outside, tables, Typed, TypeOK
<1>2. CASE alive # {}
  <2>1. [s \in Servers |-> IF s \in alive THEN {load[s]} ELSE {}] \in [Servers -> SUBSET Loads]
    BY DEF Typed, TypeOK
  <2>2. /\ pc' = [pc EXCEPT ![h] = "turn"] /\ pc[h] = "select"
        /\ todo' = [todo EXCEPT ![h] = alive]
        /\ since' = [since EXCEPT ![h] = [s \in Servers |-> IF s \in alive THEN {load[s]} ELSE {}]]
        /\ UNCHANGED <<bounds, alive, load, table, rooms, mapping, writer, told, name, server_id,
                       asked, score, min_score, old>>
    BY <1>2 DEF Select, Goto, Outside, backends, tables
  <2> QED BY <2>1, <2>2 DEF Typed, TypeOK, Request, Labels
<1> QED BY <1>1, <1>2

\* The reading of the two first fields.
LEMMA AskTyped ==
    ASSUME Typed, NEW h \in Handlers, AskRooms(h) \/ AskClients(h)
    PROVE  Typed'
<1>1. CASE AskRooms(h)
  <2>1. PICK s \in todo[h] : /\ asked' = [asked EXCEPT ![h] = s]
                             /\ score' = [score EXCEPT ![h] = Entry(h, s).active_rooms * 10]
    BY <1>1 DEF AskRooms
  <2>2. s \in Servers BY DEF Typed, TypeOK
  <2>3. Entry(h, s).active_rooms * 10 \in Nat
    <3>1. Entry(h, s).active_rooms \in Nat BY <2>2, EntryIsLoad DEF Typed
    <3> QED BY <3>1
  <2>4. /\ pc' = [pc EXCEPT ![h] = "clients"] /\ pc[h] = "turn"
        /\ UNCHANGED <<bounds, alive, load, table, rooms, mapping, writer, told, name, server_id,
                       todo, min_score, old, since>>
    BY <1>1 DEF AskRooms, Goto, Outside, backends, tables
  <2> QED BY <2>1, <2>2, <2>3, <2>4 DEF Typed, TypeOK, Request, Labels
<1>2. CASE AskClients(h)
  <2>1. asked[h] \in Servers BY <1>2 DEF AskClients, Typed, TypeOK, Request
  <2>2. score[h] + Entry(h, asked[h]).active_clients \in Nat
    <3>1. Entry(h, asked[h]).active_clients \in Nat BY <2>1, EntryIsLoad DEF Typed
    <3> QED BY <3>1 DEF Typed, TypeOK
  <2>3. /\ pc' = [pc EXCEPT ![h] = "transfers"] /\ pc[h] = "clients"
        /\ score' = [score EXCEPT ![h] = score[h] + Entry(h, asked[h]).active_clients]
        /\ UNCHANGED <<bounds, alive, load, table, rooms, mapping, writer, told, name, server_id,
                       todo, asked, min_score, old, since>>
    BY <1>2 DEF AskClients, Goto, Outside, backends, tables
  <2> QED BY <2>2, <2>3 DEF Typed, TypeOK, Request, Labels
<1> QED BY <1>1, <1>2

\* What the end of a turn changes, with the score of the server that was read.
TurnEnds(h, s, x) ==
    /\ s \in todo[h] /\ s \in Servers /\ asked[h] = s
    /\ x = score[h] + Entry(h, s).active_transfers * 2 /\ x \in Nat
    /\ pc[h] = "transfers"
    /\ pc' = [pc EXCEPT ![h] = IF todo[h] \ {s} = {} THEN "insert" ELSE "turn"]
    /\ server_id' = [server_id EXCEPT ![h] = IF Better(h, x) THEN s ELSE @]
    /\ min_score' = [min_score EXCEPT ![h] = IF Better(h, x) THEN x ELSE @]
    /\ todo' = [todo EXCEPT ![h] = @ \ {s}]
    /\ asked' = [asked EXCEPT ![h] = NoServer]
    /\ score' = [score EXCEPT ![h] = 0]
    /\ old' = [old EXCEPT ![h][s] = NoLoad]
    /\ UNCHANGED <<bounds, alive, load, table, rooms, mapping, writer, told, name, since>>

\* A turn ends so.
LEMMA TurnEffect ==
    ASSUME Typed, NEW h \in Handlers, AskTransfers(h)
    PROVE  \E s \in Servers, x \in Nat : TurnEnds(h, s, x)
<1>1. PICK s, x : s = asked[h] /\ x = score[h] + Entry(h, s).active_transfers * 2
  OBVIOUS
<1>2. s \in todo[h] /\ s \in Servers /\ pc[h] = "transfers"
  BY <1>1 DEF AskTransfers, Typed, TypeOK, Request
<1>3. x \in Nat
  <2>1. Entry(h, s).active_transfers \in Nat BY <1>2, EntryIsLoad DEF Typed
  <2> QED BY <1>1, <2>1 DEF Typed, TypeOK
<1>4. /\ server_id' = [server_id EXCEPT ![h] = IF Better(h, x) THEN s ELSE @]
      /\ min_score' = [min_score EXCEPT ![h] = IF Better(h, x) THEN x ELSE @]
  <2>1. CASE Better(h, x)
    BY <1>1, <2>1 DEF AskTransfers
  <2>2. CASE ~Better(h, x)
    BY <1>1, <2>2 DEF AskTransfers, Typed, TypeOK
  <2> QED BY <2>1, <2>2
<1> QED BY <1>1, <1>2, <1>3, <1>4 DEF AskTransfers, TurnEnds, Goto, Outside, backends, tables

\* The end of a turn; after the last one there is a server to insert.
LEMMA TurnTyped ==
    ASSUME Typed, NEW h \in Handlers, AskTransfers(h)
    PROVE  Typed'
<1>1. PICK s \in Servers, x \in Nat : TurnEnds(h, s, x) BY TurnEffect
<1>2. ~Better(h, x) => server_id[h] \in Servers BY DEF Better, Typed, TypeOK
<1>3. old' \in [Handlers -> [Servers -> Loads \cup {NoLoad}]]
  BY <1>1 DEF TurnEnds, Typed, TypeOK
<1>4. TypeOK'
  BY <1>1, <1>2, <1>3 DEF TurnEnds, Typed, TypeOK, Labels
<1>5. Request'
  BY <1>1 DEF TurnEnds, Typed, TypeOK, Request, Labels
<1> QED BY <1>4, <1>5 DEF Typed

\* The steps between the choice of a server and the answer, and those of join_room.
LEMMA RoomTyped ==
    ASSUME Typed, NEW h \in Handlers, NEW n \in Names,
           InsertRoom(h) \/ InsertTimeout(h) \/ InsertMapping(h) \/ Commit(h)
             \/ CreateRoom(h, n) \/ JoinRoom(h, n)
    PROVE  Typed'
<1>1. CASE InsertRoom(h)
  <2>1. CASE rooms[name[h]] = NoServer
    <3>1. /\ pc' = [pc EXCEPT ![h] = "map"] /\ writer' = h /\ Forgotten(h) /\ pc[h] = "insert"
          /\ UNCHANGED <<bounds, alive, load, table, rooms, mapping, told, name, server_id>>
      BY <1>1, <2>1 DEF InsertRoom, Goto, backends, tables
    <3>2. TypeOK' BY <3>1, ForgottenTyped DEF Typed, TypeOK, Labels
    <3>3. Request' BY <3>1, ForgottenTyped DEF Typed, TypeOK, Request
    <3> QED BY <3>2, <3>3 DEF Typed
  <2>2. CASE rooms[name[h]] # NoServer
    BY <1>1, <2>2, ReturnTyped DEF InsertRoom, Typed, TypeOK
  <2> QED BY <2>1, <2>2
<1>2. CASE InsertTimeout(h)
  BY <1>2, ReturnTyped DEF InsertTimeout, Outside, Typed, TypeOK
<1>3. CASE InsertMapping(h)
  BY <1>3 DEF InsertMapping, Goto, Typed, TypeOK, Request, Labels, Outside, backends, tables,
              locals, loop
<1>4. CASE Commit(h)
  BY <1>4 DEF Commit, Goto, Typed, TypeOK, Request, Labels, backends, locals, loop
<1>5. CASE CreateRoom(h, n)
  BY <1>5 DEF CreateRoom, Goto, Typed, TypeOK, Request, Labels, Outside, backends, tables, loop
<1>6. CASE JoinRoom(h, n)
  BY <1>6 DEF JoinRoom, Goto, Typed, TypeOK, Request, Labels, Outside, backends, tables, loop
<1> QED BY <1>1, <1>2, <1>3, <1>4, <1>5, <1>6

\* An answer names the room and the server of a request that has both.
LEMMA ReplyTyped ==
    ASSUME Typed, NEW h \in Handlers, Reply(h)
    PROVE  Typed'
<1>1. Answer(h) \in Answers
  BY DEF Reply, Answer, Answers, Typed, TypeOK, Request
<1>2. told' \subseteq Answers
  BY <1>1 DEF Reply, Typed, TypeOK
<1> QED BY <1>2, ReturnTyped DEF Reply, Typed, TypeOK

\* Whatever the servers do, and a restart of the Gateway.
LEMMA OutsideTyped ==
    ASSUME Typed, BackendChange \/ GatewayRestart
    PROVE  Typed'
<1>1. CASE GatewayRestart
  <2>1. TypeOK'
    BY <1>1 DEF GatewayRestart, Typed, TypeOK, Labels, tables
  <2>2. Request'
    BY <1>1 DEF GatewayRestart, Request
  <2> QED BY <2>1, <2>2 DEF Typed
<1>2. CASE BackendChange
  <2>1. UNCHANGED <<bounds, rooms, mapping, writer, pc, name, server_id, todo, asked, score,
                    min_score, told>>
    BY <1>2 DEF BackendChange, tables
  <2> DEFINE Kept == /\ alive' \subseteq Servers /\ table' \subseteq Servers
                     /\ load' \in [Servers -> Loads]
                     /\ old' \in [Handlers -> [Servers -> Loads \cup {NoLoad}]]
                     /\ since' \in [Handlers -> [Servers -> SUBSET Loads]]
  <2>2. Kept
    <3>1. ASSUME NEW s \in Servers, Register(s) PROVE Kept
      <4>1. \A h \in Handlers : [old[h] EXCEPT ![s] = Entry(h, s)] \in [Servers -> Loads \cup {NoLoad}]
        BY EntryIsLoad DEF Typed, TypeOK
      <4> QED BY <3>1, <4>1, DirectoryAssumption DEF Register, Typed, TypeOK
    <3>2. ASSUME NEW s \in Servers, NEW x \in Loads, Heartbeat(s, x) PROVE Kept
      <4>1. ASSUME NEW h \in Handlers
            PROVE  [since[h] EXCEPT ![s] =
                      IF s \in todo[h] /\ old[h][s] = NoLoad THEN @ \cup {x} ELSE @]
                   \in [Servers -> SUBSET Loads]
        <5>1. since[h] \in [Servers -> SUBSET Loads] /\ since[h][s] \subseteq Loads
          BY DEF Typed, TypeOK
        <5>2. PICK L : L = IF s \in todo[h] /\ old[h][s] = NoLoad THEN since[h][s] \cup {x}
                          ELSE since[h][s]
          OBVIOUS
        <5>3. L \subseteq Loads BY <5>1, <5>2
        <5>4. [since[h] EXCEPT ![s] = L] \in [Servers -> SUBSET Loads] BY <5>1, <5>3
        <5> QED BY <5>2, <5>4
      <4>2. since' \in [Handlers -> [Servers -> SUBSET Loads]]
        BY <3>2, <4>1 DEF Heartbeat
      <4>3. UNCHANGED <<old, table>> /\ alive' \subseteq Servers /\ load' \in [Servers -> Loads]
        BY <3>2 DEF Heartbeat, Typed, TypeOK
      <4> QED BY <4>2, <4>3 DEF Typed, TypeOK
    <3>3. ASSUME NEW s \in Servers, MarkDown(s) \/ WriteStatus(s) PROVE Kept
      BY <3>3 DEF MarkDown, WriteStatus, Typed, TypeOK
    <3> QED BY <1>2, <3>1, <3>2, <3>3 DEF BackendChange
  <2> QED BY <2>1, <2>2 DEF Typed, TypeOK, Request
<1> QED BY <1>1, <1>2

\* Every step keeps the types: the server of a request is one of the servers
\* from its choice on, and only such servers get into the tables.
LEMMA NextTyped == Typed /\ [Next]_vars => Typed'
<1> SUFFICES ASSUME Typed, [Next]_vars PROVE Typed' OBVIOUS
<1>1. CASE \E h \in Handlers : HandlerStep(h)
  <2>1. \A h \in Handlers : InsertRoom(h) \/ InsertMapping(h) \/ Commit(h) => \E n : n \in Names
    BY DEF InsertRoom, InsertMapping, Commit, Typed, Request
  <2> QED BY <1>1, <2>1, SelectTyped, AskTyped, TurnTyped, RoomTyped, ReplyTyped DEF HandlerStep
<1>2. CASE \E h \in Handlers : InsertTimeout(h)
  <2>1. \A h \in Handlers : InsertTimeout(h) => \E n : n \in Names
    BY DEF InsertTimeout, Typed, Request
  <2> QED BY <1>2, <2>1, RoomTyped
<1>3. CASE \E h \in Handlers, n \in Names : CreateRoom(h, n) \/ JoinRoom(h, n)
  BY <1>3, RoomTyped
<1>4. CASE BackendChange \/ GatewayRestart
  BY <1>4, OutsideTyped
<1>5. CASE UNCHANGED vars
  BY <1>5 DEF Typed, TypeOK, Request, vars, backends, tables, locals, loop
<1> QED BY <1>1, <1>2, <1>3, <1>4, <1>5 DEF Next

\* The variables have their types, and a request its server from the choice on.
THEOREM TypeCorrect == Spec => []TypeOK
<1>1. Typed => TypeOK BY DEF Typed
<1> QED BY <1>1, InitTyped, NextTyped, PTL DEF Spec

-----------------------------------------------------------------------------
(* The invariant of the tables and the answers *)

\* What a handler knows at its place in create_room or join_room.
Locals ==
    \A h \in Handlers :
        /\ pc[h] \in {"map", "commit"} => writer = h /\ rooms[name[h]] = NoServer
        /\ pc[h] \in {"created", "joined"} => rooms[name[h]] = server_id[h]

\* What was told is so, of rooms that exist.
ToldIsSo ==
    \A t \in told : rooms[t.name] = t.server /\ t.server # NoServer

\* The creator of a room that is still to be told is the only one there is.
CreatorIsAlone ==
    \A h \in Handlers : pc[h] = "created" =>
        /\ \A k \in Handlers : pc[k] = "created" /\ name[k] = name[h] => k = h
        /\ \A t \in told : t.type = "ROOM_ASSIGNED" => t.name # name[h]

IInv == Typed /\ TablesAgree /\ Locals /\ ToldIsSo /\ CreatorIsAlone /\ OneCreator

\* The empty tables and idle handlers of the start satisfy the invariant.
LEMMA InitIInv == Init => IInv
BY InitTyped DEF Init, IInv, TablesAgree, Locals, ToldIsSo, CreatorIsAlone, OneCreator

\* A step of one handler that neither has written nor will answer.
LEMMA QuietStep ==
    ASSUME IInv, Typed', NEW h \in Handlers, UNCHANGED <<rooms, mapping, writer, told>>,
           pc[h] \notin {"map", "commit"}, pc'[h] \notin {"map", "commit", "created", "joined"},
           \A k \in Handlers \ {h} :
              pc'[k] = pc[k] /\ name'[k] = name[k] /\ server_id'[k] = server_id[k]
    PROVE  IInv'
<1>1. TablesAgree' BY DEF IInv, TablesAgree
<1>2. Locals' BY DEF IInv, Locals
<1>3. ToldIsSo' BY DEF IInv, ToldIsSo
<1>4. CreatorIsAlone' BY DEF IInv, CreatorIsAlone
<1>5. OneCreator' BY DEF IInv, OneCreator
<1> QED BY <1>1, <1>2, <1>3, <1>4, <1>5 DEF IInv

\* Return leaves the other handlers alone.
LEMMA ReturnEffect ==
    ASSUME TypeOK, NEW h \in Handlers, Return(h)
    PROVE  /\ pc'[h] = "idle"
           /\ \A k \in Handlers \ {h} :
                 pc'[k] = pc[k] /\ name'[k] = name[k] /\ server_id'[k] = server_id[k]
BY DEF TypeOK, Return, Goto

\* The requests that change nothing, the choice of a server and the creation
\* up to its transaction are quiet.
LEMMA ChoiceStep ==
    ASSUME IInv, Typed', NEW h \in Handlers,
           \/ Select(h) \/ AskRooms(h) \/ AskClients(h) \/ AskTransfers(h)
           \/ InsertTimeout(h) \/ \E n \in Names : CreateRoom(h, n)
    PROVE  IInv'
<1>1. CASE Select(h)
  <2>1. CASE alive = {}
    BY <1>1, <2>1, ReturnEffect, QuietStep DEF Select, Outside, tables, IInv, Typed
  <2>2. CASE alive # {}
    BY <1>1, <2>2, QuietStep DEF Select, Goto, Outside, tables, IInv, Typed, TypeOK
  <2> QED BY <2>1, <2>2
<1>2. CASE AskRooms(h) \/ AskClients(h)
  BY <1>2, QuietStep DEF AskRooms, AskClients, Goto, Outside, tables, IInv, Typed, TypeOK
<1>3. CASE AskTransfers(h)
  <2>1. PICK s \in Servers, x \in Nat : TurnEnds(h, s, x) BY <1>3, TurnEffect DEF IInv
  <2> QED BY <2>1, QuietStep DEF TurnEnds, IInv, Typed, TypeOK
<1>4. CASE InsertTimeout(h)
  BY <1>4, ReturnEffect, QuietStep DEF InsertTimeout, Outside, tables, IInv, Typed
<1>5. CASE \E n \in Names : CreateRoom(h, n)
  BY <1>5, QuietStep DEF CreateRoom, Goto, Outside, tables, IInv, Typed, TypeOK
<1> QED BY <1>1, <1>2, <1>3, <1>4, <1>5

\* The row is inserted under the lock, into a table that has none of the name.
LEMMA InsertStep ==
    ASSUME IInv, Typed', NEW h \in Handlers, InsertRoom(h)
    PROVE  IInv'
<1>1. CASE rooms[name[h]] = NoServer
  <2>1. /\ pc' = [pc EXCEPT ![h] = "map"] /\ writer' = h /\ writer = NoHandler
        /\ pc[h] = "insert"
        /\ UNCHANGED <<name, server_id, rooms, mapping, told>>
    BY <1>1 DEF InsertRoom, Goto, tables
  <2>2. \A k \in Handlers : pc[k] \notin {"map", "commit"}
    BY <2>1, DirectoryAssumption DEF IInv, Locals
  <2>3. Locals' BY <2>1, <2>2, <1>1 DEF IInv, Locals, Typed, TypeOK
  <2> QED BY <2>1, <2>3 DEF IInv, Typed, TypeOK, TablesAgree, ToldIsSo, CreatorIsAlone, OneCreator
<1>2. CASE rooms[name[h]] # NoServer
  BY <1>2, ReturnEffect, QuietStep DEF InsertRoom, tables, IInv, Typed
<1> QED BY <1>1, <1>2

\* The second INSERT of a transaction only moves on the handler that has the write lock.
LEMMA MappingStep ==
    ASSUME IInv, Typed', NEW h \in Handlers, InsertMapping(h)
    PROVE  IInv'
BY DEF IInv, InsertMapping, Goto, Typed, TypeOK, TablesAgree, Locals, ToldIsSo, CreatorIsAlone,
       OneCreator, Outside, tables, locals

\* The commit puts the room where no room was, and nobody has been told of it.
LEMMA CommitStep ==
    ASSUME IInv, Typed', NEW h \in Handlers, Commit(h)
    PROVE  IInv'
<1> DEFINE n == name[h]
<1>1. /\ pc[h] = "commit" /\ pc' = [pc EXCEPT ![h] = "created"]
      /\ rooms' = [rooms EXCEPT ![n] = server_id[h]]
      /\ mapping' = [mapping EXCEPT ![n] = server_id[h]]
      /\ writer' = NoHandler
      /\ UNCHANGED <<name, server_id, told>>
  BY DEF Commit, Goto, locals
<1>2. n \in Names /\ writer = h /\ rooms[n] = NoServer /\ server_id[h] # NoServer
  BY <1>1, DirectoryAssumption DEF IInv, Locals, Typed, TypeOK, Request
<1>3. \A k \in Handlers \ {h} : pc[k] \notin {"map", "commit"}
  BY <1>2 DEF IInv, Locals
<1>4. /\ \A k \in Handlers : pc[k] \in {"created", "joined"} => name[k] # n
      /\ \A t \in told : t.name # n
  BY <1>2, DirectoryAssumption DEF IInv, Locals, ToldIsSo, Typed, TypeOK
<1>5. TablesAgree' BY <1>1 DEF IInv, TablesAgree
<1>6. Locals' BY <1>1, <1>2, <1>3, <1>4 DEF IInv, Locals, Typed, TypeOK
<1>7. ToldIsSo' BY <1>1, <1>4 DEF IInv, ToldIsSo, Typed, TypeOK, Answers
<1>8. CreatorIsAlone' BY <1>1, <1>4 DEF IInv, CreatorIsAlone, Typed, TypeOK
<1>9. OneCreator' BY <1>1 DEF IInv, OneCreator
<1> QED BY <1>5, <1>6, <1>7, <1>8, <1>9 DEF IInv

\* One who joins carries the server that room_mapping holds, which is the room's own.
LEMMA JoinStep ==
    ASSUME IInv, Typed', NEW h \in Handlers, NEW n \in Names, JoinRoom(h, n)
    PROVE  IInv'
<1>1. /\ pc' = [pc EXCEPT ![h] = "joined"] /\ name' = [name EXCEPT ![h] = n]
      /\ server_id' = [server_id EXCEPT ![h] = mapping[n]]
      /\ pc[h] = "idle" /\ mapping[n] # NoServer
      /\ UNCHANGED <<rooms, mapping, writer, told>>
  BY DEF JoinRoom, Goto, Outside, tables
<1> QED BY <1>1 DEF IInv, Typed, TypeOK, TablesAgree, Locals, ToldIsSo, CreatorIsAlone, OneCreator

\* A creator is told once, and then is the only one who was.
LEMMA ReplyStep ==
    ASSUME IInv, Typed', NEW h \in Handlers, Reply(h)
    PROVE  IInv'
<1>1. /\ pc[h] \in {"created", "joined"} /\ UNCHANGED <<rooms, mapping, writer>>
      /\ pc'[h] = "idle"
      /\ \A k \in Handlers \ {h} :
            pc'[k] = pc[k] /\ name'[k] = name[k] /\ server_id'[k] = server_id[k]
  BY ReturnEffect DEF Reply, tables, IInv, Typed
<1>2. CASE told' = told
  BY <1>1, <1>2, QuietStep
<1>3. CASE told' = told \cup {Answer(h)}
  <2>1. PICK a : a = Answer(h) OBVIOUS
  <2>2. /\ a.user = h /\ a.name = name[h] /\ a.server = server_id[h]
        /\ a.type = "ROOM_ASSIGNED" <=> pc[h] = "created"
    BY <2>1, <1>1 DEF Answer
  <2>3. told' = told \cup {a} BY <1>3, <2>1
  <2>4. server_id[h] # NoServer /\ rooms[name[h]] = server_id[h]
    BY <1>1, DirectoryAssumption DEF IInv, Locals, Typed, TypeOK
  <2>5. TablesAgree' BY <1>1 DEF IInv, TablesAgree
  <2>6. Locals' BY <1>1 DEF IInv, Locals
  <2>7. ToldIsSo' BY <1>1, <2>2, <2>3, <2>4 DEF IInv, ToldIsSo
  <2>8. CreatorIsAlone' BY <1>1, <2>2, <2>3 DEF IInv, CreatorIsAlone
  <2>9. OneCreator' BY <2>2, <2>3 DEF IInv, CreatorIsAlone, OneCreator
  <2> QED BY <2>5, <2>6, <2>7, <2>8, <2>9 DEF IInv
<1> QED BY <1>2, <1>3 DEF Reply

\* A restart of the Gateway ends every handler and drops what was not committed.
LEMMA RestartStep ==
    ASSUME IInv, Typed', GatewayRestart
    PROVE  IInv'
BY DEF IInv, GatewayRestart, TablesAgree, Locals, ToldIsSo, CreatorIsAlone, OneCreator, tables

\* Steps that leave tables, requests and answers alone keep the invariant, whatever the servers do.
LEMMA StutterStep ==
    ASSUME IInv, Typed', UNCHANGED <<tables, writer, pc, name, server_id, told>>
    PROVE  IInv'
BY DEF IInv, TablesAgree, Locals, ToldIsSo, CreatorIsAlone, OneCreator, tables

\* Every step keeps the invariant.
LEMMA NextIInv == IInv /\ [Next]_vars => IInv'
<1> SUFFICES ASSUME IInv, [Next]_vars PROVE IInv' OBVIOUS
<1>1. Typed' BY NextTyped DEF IInv
<1>2. CASE \E h \in Handlers : HandlerStep(h)
  BY <1>1, <1>2, ChoiceStep, InsertStep, MappingStep, CommitStep, ReplyStep DEF HandlerStep
<1>3. CASE \E h \in Handlers : InsertTimeout(h)
  BY <1>1, <1>3, ChoiceStep
<1>4. CASE \E h \in Handlers, n \in Names : CreateRoom(h, n) \/ JoinRoom(h, n)
  BY <1>1, <1>4, ChoiceStep, JoinStep
<1>5. CASE BackendChange
  BY <1>1, <1>5, StutterStep DEF BackendChange
<1>6. CASE GatewayRestart
  BY <1>1, <1>6, RestartStep
<1>7. CASE UNCHANGED vars
  BY <1>1, <1>7, StutterStep DEF vars, locals
<1> QED BY <1>2, <1>3, <1>4, <1>5, <1>6, <1>7 DEF Next

\* The inductive invariant of the directory.
THEOREM Invariance == Spec => []IInv
BY InitIInv, NextIInv, PTL DEF Spec

\* Both tables say the same of every room, in every state between the steps of
\* transactions.
THEOREM TablesAgreeTheorem == Spec => []TablesAgree
<1>1. IInv => TablesAgree BY DEF IInv
<1> QED BY <1>1, Invariance, PTL

\* Whoever was told the server of a room was told the one it is on.
THEOREM ToldIsHomeTheorem == Spec => []ToldIsHome
<1>1. IInv => ToldIsHome BY DEF IInv, TablesAgree, ToldIsSo, ToldIsHome
<1> QED BY <1>1, Invariance, PTL

\* A room has one creator, as far as users are told.
THEOREM OneCreatorTheorem == Spec => []OneCreator
<1>1. IInv => OneCreator BY DEF IInv
<1> QED BY <1>1, Invariance, PTL

\* A room never moves: no step of any thread, server or restart changes the
\* server of a room that exists.
THEOREM RoomNeverMovesTheorem == Spec => RoomNeverMoves
<1> DEFINE Stays == \A n \in Names : rooms[n] # NoServer
                      => rooms'[n] = rooms[n] /\ mapping'[n] = rooms[n]
<1>1. ASSUME IInv, [Next]_vars PROVE [Stays]_vars
  <2>1. CASE UNCHANGED <<rooms, mapping>>
    BY <1>1, <2>1 DEF IInv, TablesAgree
  <2>2. ASSUME NEW h \in Handlers, Commit(h) PROVE Stays
    <3>1. rooms[name[h]] = NoServer BY <2>2, <1>1 DEF Commit, IInv, Locals
    <3> QED BY <3>1, <2>2, <1>1 DEF Commit, IInv, TablesAgree, Typed, TypeOK
  <2>3. CASE Next
    BY <2>1, <2>2, <2>3 DEF Next, HandlerStep, Select, AskRooms, AskClients, AskTransfers,
       InsertRoom, InsertMapping, Reply,
       InsertTimeout, CreateRoom, JoinRoom, BackendChange, GatewayRestart,
       Outside, tables
  <2> QED BY <1>1, <2>1, <2>3 DEF vars, tables
<1> QED BY <1>1, Invariance, PTL DEF Spec, RoomNeverMoves

-----------------------------------------------------------------------------
(* The choice of a server *)

\* The servers the loop has passed.
Passed(h) == {s \in Servers : since[h][s] # {}} \ todo[h]

\* Score x of server b is better than one that could be read of server s.
Beats(h, b, x, s) ==
    \E y \in Scores(since[h][s]) : x < y \/ (x = y /\ b < s)

\* A handler outside the loop has no server and no copy of the dictionary.
NoChoice(h) ==
    /\ server_id[h] = NoServer /\ todo[h] = {}
    /\ \A s \in Servers : old[h][s] = NoLoad

\* In the loop, the entry of a server still to be passed is one of its loads
\* since the copy; the best server has been passed, with the score that was read
\* of it, and no other server that was passed is better by all its loads.
SoFar(h) ==
    /\ \A s \in todo[h] : Entry(h, s) \in since[h][s]
    /\ server_id[h] = NoServer => Passed(h) = {}
    /\ server_id[h] # NoServer =>
          /\ server_id[h] \in Passed(h)
          /\ min_score[h] \in Scores(since[h][server_id[h]])
          /\ \A s \in Passed(h) \ {server_id[h]} : Beats(h, server_id[h], min_score[h], s)

\* What has been added up of a server's score was read of its loads.
ReadSoFar(h) ==
    /\ pc[h] = "clients" =>
          \E a \in since[h][asked[h]] : score[h] = a.active_rooms * 10
    /\ pc[h] = "transfers" =>
          \E a, b \in since[h][asked[h]] : score[h] = a.active_rooms * 10 + b.active_clients

Choosing(h) ==
    /\ pc[h] \in {"idle", "select"} => NoChoice(h)
    /\ pc[h] \in {"turn", "clients", "transfers", "insert"} => SoFar(h)
    /\ pc[h] = "insert" => todo[h] = {}
    /\ ReadSoFar(h)

LoopInv == Typed /\ \A h \in Handlers : Choosing(h)

\* Idle handlers have no server.
LEMMA InitLoop == Init => LoopInv
BY InitTyped DEF Init, LoopInv, Choosing, NoChoice, ReadSoFar

\* A handler whose locals are what they were knows what it knew.
LEMMA LoopStays ==
    ASSUME NEW h \in Handlers, Choosing(h), pc'[h] = pc[h], server_id'[h] = server_id[h],
           todo'[h] = todo[h], asked'[h] = asked[h], score'[h] = score[h],
           min_score'[h] = min_score[h], old'[h] = old[h], since'[h] = since[h], load' = load
    PROVE  Choosing(h)'
<1>1. NoChoice(h) => NoChoice(h)' BY DEF NoChoice
<1>2. SoFar(h) => SoFar(h)'
  <2>1. \A s : Entry(h, s)' = Entry(h, s) BY DEF Entry
  <2>2. Passed(h)' = Passed(h) BY DEF Passed
  <2>3. \A b, x, s : Beats(h, b, x, s)' = Beats(h, b, x, s) BY DEF Beats, Scores
  <2>4. \A b : Scores(since[h][b])' = Scores(since[h][b]) BY DEF Scores
  <2> QED BY <2>1, <2>2, <2>3, <2>4 DEF SoFar
<1>3. ReadSoFar(h) => ReadSoFar(h)' BY DEF ReadSoFar
<1> QED BY <1>1, <1>2, <1>3 DEF Choosing

\* A handler whose request ends, or whose server is in its transaction.
LEMMA LoopLeft ==
    ASSUME TypeOK, NEW h \in Handlers,
           \/ Return(h)
           \/ pc'[h] \in {"map", "commit", "created", "joined"}
    PROVE  Choosing(h)'
<1>1. CASE Return(h)
  <2>1. pc'[h] = "idle" /\ NoChoice(h)'
    BY <1>1 DEF Return, Goto, Forgotten, NoChoice, TypeOK
  <2> QED BY <2>1 DEF Choosing, ReadSoFar
<1>2. CASE pc'[h] \in {"map", "commit", "created", "joined"}
  BY <1>2 DEF Choosing, ReadSoFar
<1> QED BY <1>1, <1>2

\* The copy of the dictionary: nothing is passed yet.
LEMMA SelectLoop ==
    ASSUME LoopInv, NEW h \in Handlers, Select(h), alive # {}
    PROVE  Choosing(h)'
<1>1. /\ pc[h] = "select" /\ pc'[h] = "turn"
      /\ todo'[h] = alive
      /\ since'[h] = [s \in Servers |-> IF s \in alive THEN {load[s]} ELSE {}]
      /\ server_id'[h] = server_id[h] /\ old'[h] = old[h] /\ load' = load
  BY DEF Select, Goto, Outside, backends, LoopInv, Typed, TypeOK
<1>2. NoChoice(h) BY <1>1 DEF LoopInv, Choosing
<1>3. Passed(h)' = {} BY <1>1 DEF Passed
<1>4. \A s \in alive : s \in Servers BY DEF LoopInv, Typed, TypeOK
<1>5. \A s \in alive : Entry(h, s)' \in since'[h][s]
  BY <1>1, <1>2, <1>4 DEF Entry, NoChoice
<1>6. SoFar(h)' BY <1>1, <1>2, <1>3, <1>5 DEF SoFar, NoChoice
<1> QED BY <1>1, <1>6 DEF Choosing, ReadSoFar

\* The reading of a field adds what the server's entry says now.
LEMMA AskLoop ==
    ASSUME LoopInv, NEW h \in Handlers, AskRooms(h) \/ AskClients(h)
    PROVE  Choosing(h)'
<1>1. SoFar(h) /\ SoFar(h)'
  <2>1. /\ pc[h] \in {"turn", "clients"}
        /\ UNCHANGED <<load, server_id, todo, min_score, old, since>>
    BY DEF AskRooms, AskClients, Outside, backends
  <2>2. SoFar(h) BY <2>1 DEF LoopInv, Choosing
  <2> QED BY <2>1, <2>2 DEF SoFar, Passed, Beats, Scores, Entry
<1>2. CASE AskRooms(h)
  <2>1. PICK s \in todo[h] : /\ asked'[h] = s /\ score'[h] = Entry(h, s).active_rooms * 10
                             /\ pc'[h] = "clients" /\ since' = since
    BY <1>2 DEF AskRooms, Goto, LoopInv, Typed, TypeOK
  <2>2. Entry(h, s) \in since[h][s] BY <1>1 DEF SoFar
  <2> QED BY <1>1, <2>1, <2>2 DEF Choosing, ReadSoFar
<1>3. CASE AskClients(h)
  <2>1. /\ pc[h] = "clients" /\ pc'[h] = "transfers" /\ since' = since /\ asked' = asked
        /\ score'[h] = score[h] + Entry(h, asked[h]).active_clients
        /\ asked[h] \in todo[h]
    BY <1>3 DEF AskClients, Goto, LoopInv, Typed, TypeOK, Request
  <2>2. Entry(h, asked[h]) \in since[h][asked[h]] BY <1>1, <2>1 DEF SoFar
  <2>3. PICK a \in since[h][asked[h]] : score[h] = a.active_rooms * 10
    BY <2>1 DEF LoopInv, Choosing, ReadSoFar
  <2>4. score'[h] = a.active_rooms * 10 + Entry(h, asked[h]).active_clients
    BY <2>1, <2>3
  <2> QED BY <1>1, <2>1, <2>2, <2>4 DEF Choosing, ReadSoFar
<1> QED BY <1>2, <1>3

\* The end of a turn: the server that was read is passed, and is the best one or
\* not better than it.
LEMMA TurnLoop ==
    ASSUME LoopInv, NEW h \in Handlers, AskTransfers(h)
    PROVE  Choosing(h)'
<1>1. PICK s \in Servers, x \in Nat : TurnEnds(h, s, x) BY TurnEffect DEF LoopInv
<1>2. /\ s \in todo[h] /\ asked[h] = s /\ pc[h] = "transfers"
      /\ x = score[h] + Entry(h, s).active_transfers * 2
      /\ pc'[h] = IF todo[h] \ {s} = {} THEN "insert" ELSE "turn"
      /\ server_id'[h] = IF Better(h, x) THEN s ELSE server_id[h]
      /\ min_score'[h] = IF Better(h, x) THEN x ELSE min_score[h]
      /\ todo'[h] = todo[h] \ {s}
      /\ since' = since /\ load' = load
      /\ \A r \in Servers \ {s} : old'[h][r] = old[h][r]
  BY <1>1 DEF TurnEnds, LoopInv, Typed, TypeOK
<1>3. SoFar(h) BY <1>2 DEF LoopInv, Choosing
<1>4. todo[h] \subseteq Servers BY DEF LoopInv, Typed, TypeOK
<1>5. \A r \in todo'[h] : Entry(h, r)' \in since'[h][r]
  <2>1. \A r \in todo'[h] : r \in todo[h] /\ r \in Servers \ {s} BY <1>2, <1>4
  <2>2. \A r \in todo'[h] : Entry(h, r)' = Entry(h, r) BY <1>2, <2>1 DEF Entry
  <2> QED BY <1>2, <1>3, <2>1, <2>2 DEF SoFar
<1>6. Entry(h, s) \in since[h][s] BY <1>2, <1>3 DEF SoFar
<1>7. x \in Scores(since[h][s])
  <2>1. PICK a, b \in since[h][s] : score[h] = a.active_rooms * 10 + b.active_clients
    BY <1>2 DEF LoopInv, Choosing, ReadSoFar
  <2>2. x = a.active_rooms * 10 + b.active_clients + Entry(h, s).active_transfers * 2
    BY <1>2, <2>1
  <2> QED BY <1>6, <2>2 DEF Scores
<1>8. Passed(h)' = Passed(h) \cup {s}
  BY <1>2, <1>6 DEF Passed
<1>9. \A b, z, r : Beats(h, b, z, r)' = Beats(h, b, z, r)
  BY <1>2 DEF Beats, Scores
<1>10. \A r \in Servers : Scores(since[h][r])' = Scores(since[h][r])
  BY <1>2 DEF Scores
<1>11. s \in Nat /\ Servers \subseteq Nat /\ NoServer \notin Servers /\ s \notin Passed(h)
  BY <1>2, DirectoryAssumption DEF Servers, Passed
<1>12. \A r \in Servers : Scores(since[h][r]) \subseteq Nat
  <2> TAKE r \in Servers
  <2>1. \A a \in since[h][r] : a.active_rooms \in Nat /\ a.active_clients \in Nat
                              /\ a.active_transfers \in Nat
    BY DirectoryAssumption DEF LoopInv, Typed, TypeOK
  <2> QED BY <2>1 DEF Scores
<1>13. SoFar(h)'
  <2>1. CASE server_id[h] = NoServer
    <3>1. Better(h, x) /\ Passed(h) = {} BY <2>1, <1>3 DEF Better, SoFar
    <3>2. server_id'[h] = s /\ min_score'[h] = x /\ Passed(h)' = {s}
      BY <3>1, <1>2, <1>8
    <3> QED BY <3>2, <1>5, <1>7, <1>10, <1>11 DEF SoFar
  <2>2. CASE server_id[h] # NoServer
    <3>0. PICK b, m : b = server_id[h] /\ m = min_score[h] OBVIOUS
    <3>1. /\ b \in Passed(h) /\ m \in Scores(since[h][b])
          /\ \A r \in Passed(h) \ {b} : Beats(h, b, m, r)
      BY <2>2, <1>3, <3>0 DEF SoFar
    <3>2. b \in Servers /\ b \in Nat /\ b # s /\ m \in Nat
      BY <3>1, <1>11, <1>12 DEF Passed
    <3>3. Passed(h) \subseteq Servers BY DEF Passed
    <3>4. CASE Better(h, x)
      <4>1. server_id'[h] = s /\ min_score'[h] = x BY <3>4, <1>2
      <4>2. x < m \/ (x = m /\ s < b) BY <2>2, <3>0, <3>4, <1>2 DEF Better
      <4>3. Beats(h, s, x, b) BY <3>1, <4>2 DEF Beats
      <4>4. ASSUME NEW r \in Passed(h) \ {b} PROVE Beats(h, s, x, r)
        <5>1. PICK y \in Scores(since[h][r]) : m < y \/ (m = y /\ b < r)
          BY <3>1, <4>4 DEF Beats
        <5>2. r \in Nat /\ y \in Nat BY <3>3, <4>4, <5>1, <1>11, <1>12
        <5>3. x < y \/ (x = y /\ s < r)
          BY <5>1, <5>2, <4>2, <3>2, <1>11
        <5> QED BY <5>3 DEF Beats
      <4>5. \A r \in Passed(h)' \ {s} : Beats(h, s, x, r)'
        BY <4>3, <4>4, <1>8, <1>9
      <4> QED BY <4>1, <4>5, <1>5, <1>7, <1>8, <1>10, <1>11 DEF SoFar
    <3>5. CASE ~Better(h, x)
      <4>1. server_id'[h] = b /\ min_score'[h] = m BY <3>0, <3>5, <1>2
      <4>2. ~(x < m) /\ ~(x = m /\ s < b) BY <3>0, <3>5, <1>2 DEF Better
      <4>3. m < x \/ (m = x /\ b < s)
        BY <4>2, <3>2, <1>11
      <4>4. Beats(h, b, m, s) BY <4>3, <1>7 DEF Beats
      <4>5. \A r \in Passed(h)' \ {b} : Beats(h, b, m, r)'
        BY <3>1, <4>4, <1>8, <1>9
      <4> QED BY <4>1, <4>5, <3>1, <3>2, <1>5, <1>8, <1>10, <1>11 DEF SoFar
    <3> QED BY <3>4, <3>5
  <2> QED BY <2>1, <2>2
<1>14. pc'[h] = "insert" => todo'[h] = {} BY <1>2
<1>15. pc'[h] \in {"insert", "turn"} BY <1>2
<1> QED BY <1>13, <1>14, <1>15 DEF Choosing, ReadSoFar

\* Heartbeats add loads to those of the servers still to be passed; a new
\* registration leaves a loop its old entry.
LEMMA BackendLoop ==
    ASSUME LoopInv, BackendChange, NEW h \in Handlers
    PROVE  Choosing(h)'
<1>1. UNCHANGED <<pc, server_id, todo, asked, score, min_score>>
  BY DEF BackendChange
<1>2. todo[h] \subseteq Servers /\ NoServer \notin Servers
      /\ (pc[h] \in {"clients", "transfers"} => asked[h] \in todo[h])
  BY DirectoryAssumption DEF LoopInv, Typed, TypeOK, Request
<1>3. /\ \A s \in Servers : since[h][s] \subseteq since'[h][s]
      /\ \A s \in Servers \ todo[h] : since'[h][s] = since[h][s] /\ old'[h][s] = old[h][s]
      /\ \A s \in todo[h] : Entry(h, s) \in since[h][s] => Entry(h, s)' \in since'[h][s]
  <2>1. ASSUME NEW s \in Servers, Register(s) PROVE <1>3
    <3>1. since' = since /\ load' = [load EXCEPT ![s] = Zero]
          /\ old'[h] = IF s \in todo[h] THEN [old[h] EXCEPT ![s] = Entry(h, s)] ELSE old[h]
      BY <2>1 DEF Register
    <3>2. Entry(h, s) # NoLoad BY EntryIsLoad, DirectoryAssumption DEF LoopInv, Typed
    <3>3. /\ \A r \in Servers : r # s \/ s \notin todo[h] => old'[h][r] = old[h][r]
          /\ s \in todo[h] => old'[h][s] = Entry(h, s)
      BY <3>1 DEF LoopInv, Typed, TypeOK
    <3>4. \A r \in todo[h] : Entry(h, r)' = Entry(h, r)
      <4> TAKE r \in todo[h]
      <4>1. CASE r = s
        BY <4>1, <3>2, <3>3 DEF Entry
      <4>2. CASE r # s
        <5>1. old'[h][r] = old[h][r] /\ load'[r] = load[r]
          BY <4>2, <3>1, <3>3, <1>2 DEF LoopInv, Typed, TypeOK
        <5> QED BY <5>1 DEF Entry
      <4> QED BY <4>1, <4>2
    <3> QED BY <3>1, <3>3, <3>4
  <2>2. ASSUME NEW s \in Servers, NEW x \in Loads, Heartbeat(s, x) PROVE <1>3
    <3>1. old' = old /\ load' = [load EXCEPT ![s] = x]
          /\ since'[h] = [since[h] EXCEPT ![s] =
                            IF s \in todo[h] /\ old[h][s] = NoLoad THEN @ \cup {x} ELSE @]
      BY <2>2 DEF Heartbeat
    <3>2. /\ \A r \in Servers \ {s} : since'[h][r] = since[h][r] /\ load'[r] = load[r]
          /\ since'[h][s] = IF s \in todo[h] /\ old[h][s] = NoLoad THEN since[h][s] \cup {x}
                             ELSE since[h][s]
          /\ load'[s] = x
      BY <3>1 DEF LoopInv, Typed, TypeOK
    <3>3. ASSUME NEW r \in todo[h], Entry(h, r) \in since[h][r]
          PROVE  Entry(h, r)' \in since'[h][r]
      <4>1. CASE r = s
        BY <4>1, <3>1, <3>2, <3>3 DEF Entry
      <4>2. CASE r # s
        BY <4>2, <3>1, <3>2, <3>3, <1>2 DEF Entry
      <4> QED BY <4>1, <4>2
    <3> QED BY <3>1, <3>2, <3>3
  <2>3. ASSUME NEW s \in Servers, MarkDown(s) \/ WriteStatus(s) PROVE <1>3
    BY <2>3 DEF MarkDown, WriteStatus, Entry
  <2> QED BY <2>1, <2>2, <2>3 DEF BackendChange
<1>4. NoChoice(h) => NoChoice(h)' BY <1>1, <1>3 DEF NoChoice
<1>5. ReadSoFar(h)'
  <2>1. pc[h] \in {"clients", "transfers"} => since[h][asked[h]] \subseteq since'[h][asked[h]]
    BY <1>2, <1>3
  <2> QED BY <1>1, <2>1 DEF LoopInv, Choosing, ReadSoFar
<1>6. ASSUME SoFar(h) PROVE SoFar(h)'
  <2>1. \A s \in todo[h] : Entry(h, s)' \in since'[h][s]
    BY <1>3, <1>6 DEF SoFar
  <2>2. Passed(h)' = Passed(h) /\ Passed(h) \subseteq Servers
        /\ \A s \in Passed(h) : since'[h][s] = since[h][s]
    BY <1>1, <1>3 DEF Passed
  <2>3. /\ \A b, x : \A s \in Passed(h) : Beats(h, b, x, s)' = Beats(h, b, x, s)
        /\ \A s \in Passed(h) : Scores(since[h][s])' = Scores(since[h][s])
    BY <2>2 DEF Beats, Scores
  <2> QED BY <1>1, <1>6, <2>1, <2>2, <2>3 DEF SoFar
<1> QED BY <1>1, <1>4, <1>5, <1>6 DEF LoopInv, Choosing

\* Every step keeps what handlers know.
LEMMA NextLoop == LoopInv /\ [Next]_vars => LoopInv'
<1> SUFFICES ASSUME LoopInv, [Next]_vars PROVE LoopInv' OBVIOUS
<1>1. TypeOK /\ Typed' BY NextTyped DEF LoopInv, Typed
<1>2. SUFFICES ASSUME NEW k \in Handlers PROVE Choosing(k)'
  BY <1>1 DEF LoopInv
<1>3. Choosing(k) BY DEF LoopInv
<1>4. ASSUME NEW h \in Handlers, h # k,
             \/ HandlerStep(h) \/ InsertTimeout(h)
             \/ \E n \in Names : CreateRoom(h, n) \/ JoinRoom(h, n)
      PROVE  Choosing(k)'
  BY <1>1, <1>3, <1>4, LoopStays
  DEF HandlerStep, Select, AskRooms, AskClients, AskTransfers, InsertRoom, InsertMapping, Commit,
      Reply, InsertTimeout, CreateRoom, JoinRoom, Return, Forgotten, Goto, Outside, backends,
      locals, loop, TypeOK
<1>5. ASSUME HandlerStep(k) \/ InsertTimeout(k) \/ \E n \in Names : CreateRoom(k, n) \/ JoinRoom(k, n)
      PROVE  Choosing(k)'
  <2>1. CASE Select(k)
    BY <2>1, <1>1, SelectLoop, LoopLeft DEF Select
  <2>2. CASE AskRooms(k) \/ AskClients(k) \/ AskTransfers(k)
    BY <2>2, AskLoop, TurnLoop
  <2>3. CASE InsertRoom(k) \/ InsertTimeout(k) \/ Reply(k)
    BY <2>3, <1>1, LoopLeft DEF InsertRoom, InsertTimeout, Reply, Goto, TypeOK
  <2>4. CASE InsertMapping(k) \/ Commit(k)
    BY <2>4, <1>1, LoopLeft DEF InsertMapping, Commit, Goto, TypeOK
  <2>5. CASE \E n \in Names : JoinRoom(k, n)
    BY <2>5, <1>1, LoopLeft DEF JoinRoom, Goto, TypeOK
  <2>6. CASE \E n \in Names : CreateRoom(k, n)
    <3>1. /\ pc[k] = "idle" /\ pc'[k] = "select"
          /\ UNCHANGED <<server_id, todo, old>>
      BY <2>6, <1>1 DEF CreateRoom, Goto, loop, TypeOK
    <3> QED BY <3>1, <1>3 DEF Choosing, NoChoice, ReadSoFar
  <2> QED BY <1>5, <2>1, <2>2, <2>3, <2>4, <2>5, <2>6 DEF HandlerStep
<1>6. CASE BackendChange
  BY <1>6, BackendLoop
<1>7. CASE GatewayRestart
  <2>1. pc'[k] = "idle" /\ NoChoice(k)' BY <1>7 DEF GatewayRestart, NoChoice
  <2> QED BY <2>1 DEF Choosing, ReadSoFar
<1>8. CASE UNCHANGED vars
  BY <1>3, <1>8, LoopStays DEF vars, backends, locals, loop
<1> QED BY <1>4, <1>5, <1>6, <1>7, <1>8 DEF Next

\* What select_backend knows, at every step of its loop.
THEOREM LoopInvariance == Spec => []LoopInv
BY InitLoop, NextLoop, PTL DEF Spec

\* However many servers there are, in whatever order they registered, and
\* whatever changes while their loads are read: the server that is chosen was
\* alive when the dictionary was copied, and no other that was is better by all
\* the loads the two had until they were read.
THEOREM ChoiceTheorem == Spec => []ChoiceIsJustified
<1>1. ASSUME LoopInv PROVE ChoiceIsJustified
  <2>1. SUFFICES ASSUME NEW h \in Handlers, pc[h] = "insert"
                 PROVE  /\ since[h][server_id[h]] # {}
                        /\ \A s \in Servers \ {server_id[h]} : since[h][s] # {} =>
                              \E x \in Scores(since[h][server_id[h]]), y \in Scores(since[h][s]) :
                                 x < y \/ (x = y /\ server_id[h] < s)
    BY <1>1 DEF ChoiceIsJustified, LoopInv, Typed
  <2>2. SoFar(h) /\ todo[h] = {} BY <1>1, <2>1 DEF LoopInv, Choosing
  <2>3. server_id[h] # NoServer
    BY <1>1, <2>1, DirectoryAssumption DEF LoopInv, Typed, TypeOK
  <2>4. /\ server_id[h] \in Passed(h)
        /\ min_score[h] \in Scores(since[h][server_id[h]])
        /\ \A s \in Passed(h) \ {server_id[h]} : Beats(h, server_id[h], min_score[h], s)
    BY <2>2, <2>3 DEF SoFar
  <2>5. \A s \in Servers : since[h][s] # {} => s \in Passed(h)
    BY <2>2 DEF Passed
  <2>6. since[h][server_id[h]] # {} BY <2>4 DEF Passed
  <2> QED BY <2>4, <2>5, <2>6 DEF Beats
<1> QED BY <1>1, LoopInvariance, PTL

-----------------------------------------------------------------------------
(* The implementation of AtomicDirectory *)

\* A commit places a room; it is the room of the thread that has the lock.
LEMMA CommitPlaces ==
    ASSUME IInv, NEW h \in Handlers, Commit(h)
    PROVE  Directory!Next
<1>1. PICK n, s : n = name[h] /\ s = server_id[h]
  OBVIOUS
<1>2. n \in Names /\ s \in Servers /\ rooms[n] = NoServer
  BY <1>1 DEF Commit, IInv, Locals, Typed, TypeOK, Request
<1>3. rooms' = [rooms EXCEPT ![n] = s] /\ UNCHANGED told
  BY <1>1 DEF Commit
<1>4. Directory!Place(n, s)
  BY <1>2, <1>3 DEF Directory!Place
<1> QED
  BY <1>2, <1>4 DEF Directory!Next

\* An answer is that of AtomicDirectory: the creator is told first, and whoever
\* is told is told the home of the room.
LEMMA ReplySays ==
    ASSUME IInv, NEW h \in Handlers, Reply(h)
    PROVE  [Directory!Next]_Directory!vars
<1>1. PICK n : n = name[h]
  OBVIOUS
<1>2. /\ pc[h] \in {"created", "joined"} /\ UNCHANGED rooms
      /\ n \in Names /\ rooms[n] = server_id[h] /\ rooms[n] # NoServer
  BY <1>1, DirectoryAssumption DEF Reply, tables, IInv, Locals, Typed, TypeOK, Request
<1>3. CASE told' = told
  BY <1>2, <1>3 DEF Directory!vars
<1>4. CASE told' = told \cup {Answer(h)} /\ pc[h] = "created"
  <2>1. Answer(h) = [user |-> h, type |-> "ROOM_ASSIGNED", name |-> n, server |-> rooms[n]]
    BY <1>1, <1>2, <1>4 DEF Answer
  <2>2. \A t \in told : t.type = "ROOM_ASSIGNED" => t.name # n
    BY <1>1, <1>4 DEF IInv, CreatorIsAlone
  <2>3. Directory!Assign(h, n)
    BY <1>2, <1>4, <2>1, <2>2 DEF Directory!Assign, Directory!Say
  <2> QED
    BY <1>2, <2>3 DEF Directory!Next
<1>5. CASE told' = told \cup {Answer(h)} /\ pc[h] = "joined"
  <2>1. Answer(h) = [user |-> h, type |-> "ROOM_LOCATION", name |-> n, server |-> rooms[n]]
    BY <1>1, <1>2, <1>5 DEF Answer
  <2>2. Directory!Locate(h, n)
    BY <1>2, <1>5, <2>1 DEF Directory!Locate, Directory!Say
  <2> QED
    BY <1>2, <2>2 DEF Directory!Next
<1> QED
  BY <1>2, <1>3, <1>4, <1>5 DEF Reply

\* Every step is one of AtomicDirectory, or none that shows there.
LEMMA StepDirectory == IInv /\ [Next]_vars => [Directory!Next]_Directory!vars
<1> SUFFICES ASSUME IInv, [Next]_vars PROVE [Directory!Next]_Directory!vars
  OBVIOUS
<1>1. ASSUME NEW h \in Handlers, Commit(h) PROVE Directory!Next
  BY <1>1, CommitPlaces
<1>2. ASSUME NEW h \in Handlers, Reply(h) PROVE [Directory!Next]_Directory!vars
  BY <1>2, ReplySays
<1>3. CASE UNCHANGED <<rooms, told>>
  BY <1>3 DEF Directory!vars
<1> QED
  BY <1>1, <1>2, <1>3 DEF Next, HandlerStep, Select, AskRooms, AskClients, AskTransfers,
     InsertRoom, InsertMapping, InsertTimeout, CreateRoom, JoinRoom, BackendChange,
     GatewayRestart, vars, Outside, tables

\* RoomDirectory implements AtomicDirectory.
THEOREM DirectoryImplemented == Spec => ImplementsDirectory
<1>1. Init => Directory!Init
  BY DEF Init, Directory!Init
<1> QED
  BY <1>1, StepDirectory, Invariance, PTL DEF Spec, ImplementsDirectory, Directory!Spec
=============================================================================
