# NetCourier: a verification development

NetCourier is a chat and file-transfer system: a **Gateway** that knows accounts,
sessions and process servers, **process servers** that hold rooms and files, and a
**bridge** (`src/netcourier/web/api`) that turns a browser's HTTP requests into packets
to both. This directory holds TLA+ models of its concurrent core, TLC configurations
that check them on small instances, and proofs of the results that hold for every
instance. Paths below are relative to `src/src/netcourier/` (the repository's
`src/netcourier/`); documents are those of `docs/`.

    tlc -workers 2 -config GatewaySessions.cfg MCGatewaySessions.tla
    tlapm GatewayProofs.tla

## 1. Inventory

### Processes and how they talk

    browser --HTTP--> bridge --packets--> Gateway <--heartbeats, presence-- process server
                         \---packets (one room connection)--------------------/

The Gateway and the process server run one thread per connection plus timer threads,
and share dictionaries under one `threading.Lock` each; some accesses are made without
it. The browser is one event loop with promises; the bridge is a threading HTTP server
with one session object per web session. SQLite holds what survives a restart.

### Components

| Component | State | Operations | Hard behaviour | What makes it correct |
|---|---|---|---|---|
| Session registry (`gateway/main.py`) | `active_sessions`, `user_to_token`, one `current_token` per thread, presence rows | login, logout, any packet (refresh or expiry), connection end, pruner, `VALIDATE_TOKEN`, `USER_ROOM_STATUS_UPDATE` | unlocked look-ups, a list acted on after the lock is released, two writes of which one is locked, a reply that cannot be sent | one session per user, the two dictionaries inverse, a session ends only for a reason of its own, nothing leaks, presence says what the session says |
| Presence (`gateway/presence_service.py`) | table `user_presence` | one upsert per writer | the writers race | as above; offline users are shown offline |
| Room membership (`server/main.py`) | `clients`, `rooms`, `current_room` of a record, the lock | authenticate, join, leave, broadcasts, kick, clean-up | `LEAVE_ROOM` without the lock, a record read before the lock, a record overwritten by a second authentication, a kick that acts on a connection found earlier, exceptions in a critical section | sets of members, records and the client table agree, dead connections are forgotten, no handler hangs or dies of somebody else's step |
| Chunked upload (`web/static/app.js`, `web/api`, `server/main.py`) | the queue item, requests on the way, `transfer_progress`, `file_transfers`, the file and its buffer | init, chunk, finish, resume, pause, flush, timeout, delete | parallel workers, aborted or half-sent requests, overlapping invocations, flushes by other threads, crash | an available file is complete, progress is never overstated, completed is final, an upload ends, a resume goes on where it stopped |
| Backend registry (`gateway/backend_service.py`, `gateway/main.py`, `server/main.py`) | `backends`, table `backend_servers`, one control connection per server | register, heartbeat, acknowledge, health check | memory marked under the lock and the database after it; a Gateway restart loses the memory; acknowledgements nobody reads; packets of dead processes | a dead server ends up down, a beating one can be routed to, memory and table agree |
| Room directory and balancer (`gateway/room_directory.py`, `load_balancer.py`) | tables `rooms`, `room_mapping`; the loads in `backends` | create room, join room, choose a server | the name is looked up before anything is locked; a restart in the middle of a transaction; loads read without the lock while heartbeats change them; servers of equal load in any order of registration | both tables agree, everybody is sent to the one server of a room, one creator wins, no server was better than the chosen one by all that could be read |
| Private messages (`gateway/pm_service.py`, `main.py`) | table `private_messages` | send, history | stored as delivered before it is sent, on a session looked up three times without the lock | a message reaches only the session it was stored for, and is lost only for a reason of its own |
| Room chat, history, reactions (`server/main.py`, `app.js`) | `room_messages`, `message_reactions`, what the page shows | send, delete a file, react, history | a row is committed first and broadcast later; history and events reach the page on different ways; a history may be late, fail, be cut off by its limit or end the receiver | nobody falls into the gap between history and broadcasts, deletions reach whoever had the card, a page at rest shows what the tables say |
| Download (`server/main.py`, `web/api/routes.py`) | the pusher's loop, `active_downloader`, the response | request, push, stream, end | chunks before the downloader is set, frames torn by a second writer, a receiver and a route that use one variable in turn | the browser gets chunks in order, and all of them when the count says so |
| Request matching (`client/*_connection.py`, `common/protocol.py`, `routes.py`) | `pending_requests`, a counter per process | register, send, receive, time out, disconnect | the ids of pushed packets and of answers share one name space | nobody waits in vain on a sound connection |
| Event queue and web sessions (`web/api/session.py`, `routes.py`) | the queue, `room_conn`, the receiver of each connection | join, leave, push, poll | a receiver inside `recv` outlives `close`; late answers; unlocked leaves, kicks and clean-ups on the server; several pollers | one running connection, the browser is told the room it is in, every event is handed out once |
| Upload queue (`app.js`) | items and two slots | add, pause, resume, cancel, process | several items per slot | slots respected, queued items run |
| Accounts, rate limiters, framing, schema, logging, user interface | | | | see section 6 |

Hazards of all of these, each at its line, are listed in `PROJECT.json`.

## 2. Plan

Most important first. Done:

1. **GatewaySessions** and its abstract specification **SessionRegistry**.
2. **RoomMembership** and its abstract specification **AtomicRooms**.
3. **UploadTransfer**.
4. **BackendRegistry**; **RoomDirectory** and its abstract specification **AtomicDirectory**.
5. **PrivateMessages**, composed with GatewaySessions.
6. **RequestMatching**, and **FileDownload** composed with it.
7. **WebSession**.
8. **RoomHistory**.
9. The proofs, the three refinements among them: **GatewayProofs** (GatewaySessions, its refinement of SessionRegistry, and PrivateMessages),
   and a module each for RoomMembership, UploadTransfer, BackendRegistry, RoomDirectory, FileDownload (with
   RequestMatching), WebSession and RoomHistory.

Possible extensions:

* RoomMembership composed with GatewaySessions by the one-connection-per-update channel
  between them, for the order of presence updates.
* Several items of the upload queue that compete for its slots; join requests of one web
  session that run at the same time; two downloads of one web session.

A run asks one question about one component, or about two that interact; a component that gets a new question
reuses a run where its bounds fit. What is proved for all instances is not run again when it is a
type invariant or follows from properties that are run.

## 3. The models

Common conventions: threads have a program counter `pc`; a step reaches from one point
where another thread can observe or interfere to the next; what the code does under a
lock is one step unless an unlocked reader can see inside. Clocks become the one bit
their comparison yields. Null values are model values `NoX`. Definitions that look like
a definition of the module with a word appended (`CleanupKeepsIndex`) are variants with
a plausible bug; nothing uses them, they show that a property can be broken.
Deadlock checking is off except for BackendRegistry: connections close for good and uploads
end, so those systems may really stop.

### SessionRegistry and GatewaySessions (`gateway/main.py` 43-300, 388-457)

**SessionRegistry** is what the rest of the system may rely on: a set of sessions, at most
one for a user, that begin and end together with their presence row, and rows that
otherwise only repeat what the session says or what a process server reports. **GatewaySessions** is
the code. The refinement mapping drops the tokens, the index, the lock and the threads: `sessions` is what
`active_sessions` says of user, connection and place (`View`), `shown` is `presence`.
Eviction and insertion of a login are two abstract steps, since an unlocked reader sees between
them; so are the two writes of a status update (`Report`, `Settle`).

| Model | Code |
|---|---|
| `active_sessions`, `user_to_token`, `presence` | the dictionaries and the table of the same names; a place is the pair (status, active_room) |
| `pc`, `msg`, `current_token` | a client thread's position, packet and local variable |
| `tokens_to_remove`, `update` | the pruner's list; a backend thread between its two writes |
| `issuedTo` | auxiliary: for which connection a token was generated. Tokens are not reused (`uuid4`), so a login takes an unused one and a finite `Tokens` bounds the number of logins |
| `Receive`, `Touch*` | the unlocked look-up and what follows under the lock: refresh, or expiry |
| `LoginEvict`, `LoginInsert`, `LoginReply` | `_handle_login`; the reply may fail |
| `Logout`, `ServeGone`, `ServeQuery`, `Final`, `Disconnect` | the other requests, `finally`, a connection that ends |
| `PruneScan`, `PruneOne` | the list made under the lock, the sessions ended one by one after it |
| `ValidateExpired`, `UpdatePresence`, `UpdateSession` | what a process server asks of the registry |
| `Idle`, `Expire` | time |

### PrivateMessages (`gateway/main.py` 206-210, 306-349, `gateway/pm_service.py`)

EXTENDS GatewaySessions: its steps go on between any two steps of `_handle_private_message_send`,
whose three unlocked look-ups (`Look`, `Store`, `Find`), write to the sender (`Tell`) and
write to the recipient (`Send`) are actions. `found` and `socket` are its locals, `stored` is the
table, with the token and the sender's connection remembered for the properties. A
recipient's socket can be written to until its own handler has left the receive loop.

### RoomMembership (`server/main.py` 239-471, 592-634, 1168-1188)

One handler thread per connection; the lock is a variable. `_leave_room_logic` is one
action per statement, because `LEAVE_ROOM` runs it unlocked while its other callers hold
the lock. A broadcast holds the lock from its first to its last `send`; both ends are
steps, and a set that changed in between raises. An exception (`Raise`) releases what
`with` releases and goes to the connection's `finally`, or ends the thread when it
happens there. `uses` picks which of three disruptive requests a behaviour contains, `LEAVE_ROOM`,
`ROOM_KICK_USER` and an `AUTH_BACKEND` of a connection that is a client already (`Auth` overwrites its record),
so that a property can say what it needs: several hold only as long as nobody leaves,
is kicked, or authenticates twice; the list at the end of section 4 says why.

**AtomicRooms** is what remains when all of this is right: every connection is in one room or none
(`at`) and changes it, or ends, in one step, and a broadcast has the members of one moment, who stay the members
until everybody was sent it (`hearing`). RoomMembership implements it in behaviours with none of the three requests; with
them it does not, for the reasons at the end of section 4. The mapping, `RoomOf`, has a connection that is switching in its
old room from the moment it is discarded there until the record names the new one, and one that ends until it is
deleted from `clients`; `hearing` is `seen`, the set a broadcast iterates over. RoomHistory takes the handlers for
join and broadcast as one step each, and AtomicRooms says when it may; WebSession has the statements of its own.

### UploadTransfer (`app.js` 60-330, `web/api/routes.py`, `server/main.py` 100-170, 874-1130)

The browser (`phase`, `start`, `next`, `out`, `status`, one entry per invocation of
`uploadFile`), the requests on their way, and the server (`cache` = `transfer_progress`,
`row` = `file_transfers`, `disk` and `buffered` = the file and the handle's buffer).
A chunk is one index; its bytes are always the same. Each critical section of the server
is a step. An aborted request is dropped, arrives late, or arrives cut (the HTTP server
reads as much of the body as there is and passes it on, `http_server.py` 69-82). A flush is three
steps (snapshot, commit, clear the flag) in whichever thread runs it. `Age` is the
passing of two minutes; `Crash` is a restart of the process server: cache and buffer
are lost. `Env` names which incidents a run contains. Cancelling an upload is a pause
that is never resumed.

### BackendRegistry (`gateway/backend_service.py`, `gateway/main.py` 388-457, `server/main.py` 70-79, 183-237)

`backends` and `table` are the dictionary and the status column; `old` is the comparison of
`last_heartbeat` with the timeout. `proc` follows a server process: `registering`, `linked`, and `cut` when
its Gateway has gone, since nothing connects a second time. On a control connection `beats` are on
their way, `acking` says that the Gateway's thread is about to acknowledge, and `full` that the
acknowledgements, none of which the process server ever reads, have filled the buffers: how many that takes
is left open, so any of them may be the last. `late` holds what dead processes have
left to be read; several late heartbeats count as one, since the last of them does what all of them
do. `marking` is the health check's list: `HealthScan` fills it under the lock, `HealthWrite` works it off.
`GatewayRestart` empties the memory and keeps the table.

### RoomDirectory (`gateway/room_directory.py`, `gateway/load_balancer.py`)

One handler thread per user. A transaction is `InsertRoom` (which takes SQLite's write lock and
finds the UNIQUE column in its way, or waits until `InsertTimeout`), `InsertMapping` and `Commit`; what
is not committed is gone after `GatewayRestart`. `get_alive_backends` copies the dictionary of servers under the
lock, but not their entries: `Select` is the copy (`todo`), and `AskRooms`, `AskClients` and `AskTransfers` read the three
fields of an entry one after the other, in any order of servers. A heartbeat in between updates the entry in place; a
registration replaces it, and a loop under way goes on with the one it has (`old`). `since` is auxiliary: the loads the
entry of a server had from the copy until it was read.
`BackendChange` lets the memory and the table of servers and their loads change as they like, which covers
what BackendRegistry does to them.

**AtomicDirectory** is what clients see of it: a table in which a name gets a home once and for good (`Place`), and answers
which repeat it, one creator's at most (`Assign`, `Locate`). Handlers, the write lock, transactions and restarts are gone: `home` is
`rooms`, which changes with `Commit`, and `told` is the answers sent.

### RequestMatching and FileDownload (`client/room_connection.py`, `client/gateway_connection.py`, `web/api/routes.py` 21-40, 294-345, 421-481, `server/main.py` 1057-1170)

**RequestMatching** is one TCP connection of the bridge: threads that register a callback, send, wait and
give up, the receiver that matches ids, and a server that answers in order and pushes packets whose
ids may be those of requests. **FileDownload** EXTENDS it with one download: the pusher thread of the
server, the receiver's two accesses to `active_downloader`, and the route's thread. A chunk is
written in two parts (`PushHead`, `PushTail`); another packet in between tears it, and the
receiver takes what follows for a header and ends. The response is `finished` or `cut`.

### WebSession (`web/api/session.py` 60-72, `web/api/routes.py` 91-163, `client/room_connection.py`, `server/main.py` 254-427, 604-634, 1172-1188)

A web session that joins, switches and leaves rooms, one request at a time: the route's thread, a
connection per join (`running`, `closed`, the receiver `rx`), the handler thread that serves it on the process server,
and the queue of events with its pollers. The handlers run statement by statement where RoomMembership's do, so that an unlocked
`LEAVE_ROOM` of one connection comes between the statements of the next one's join, or of a clean-up; `Others` are connections of
other users, which leave the room, kick the session's connection or disconnect.
A kick takes the connection out of the room, tells the room, and closes the socket (`Notice`, `Clean`, `Shut`); a handler
inside `recv` goes on until its next packet. `close()` does not wake the bridge's receiver either, so the server sees the
end of a connection only after one more packet. A reload of the page leaves its poller waiting.
The clients are those of the bridge: each connection authenticates once and joins one room. `wiped`, `kicked` and `stuck` are
auxiliary: whose set a leave deleted, who was kicked, and whose clean-up has raised.

### RoomHistory (`server/main.py` 453-590, 636-775, 1030-1050, `client/room_connection.py` 69-117, `web/api/routes.py` 21-40, 165-172, `web/static/app.js` 332-341, 523-536, 605-668)

The rows of one room, the handlers that commit a row and broadcast it in a second step, deletion of
a file with its `LIKE` pattern (`Alike`: ids that begin with this one match too), reactions (change,
count, broadcast) and history, which is read (`History`) and sent (`HistoryTell`) in two steps and has the newest `Limit` rows,
those the system wrote about joins, files and deletions (`notes`) among them, in the order of `Time`, rows of one second in any. The
receiver gives a history to the request that waits for it; the request may have been given up after five seconds (`GiveUp`), or its
callback taken by an event of the same id (`TakenForAnswer`, which RequestMatching allows), and then the history finds no handler and
ends the receiver (`ReceiverEnds`, `deaf`). The page renders a history answer over whatever it shows and
appends events, the two arriving on different ways; it asks for one history at a time. `screen` keeps how an element came to the
page, because only the one rendered from a history has the `message_id` a deletion looks for.
`seen` is auxiliary: what each client was sent and told. A client stays in the room once it has joined; what is on its way to
a client and what its page shows is followed for the clients in `pages` only.

## 4. The runs

| Run | Bounds | States | What it shows |
|---|---|---|---|
| `sessions` | 1 user, 2 connections, 2 tokens, 1 room, 1 backend thread | 509,000 | `IndexConsistent`, `EndsOnlyByOwner`, `ImplementsRegistry` |
| `messages` | the same, no backend thread, 1 message, fair | 60,000 | `PresenceMatchesSession`, `ReceivedWhereIssued`, `LostOnlyByEnd`, `NoSessionLeak`, `PacketHandled` |
| `rooms` | 3 connections of 3 users, 2 rooms, one of: none of the three requests, leaves, kicks, second authentications | 2,058,000 | `MembershipMatchesRecord`, `RecordedIsMember`, `MembersAreClients`, `HandlersSurvive`, `ImplementsAtomicRooms` |
| `rooms_live` | 2 connections, 2 rooms, all three requests at once, fair | 249,000 | `HandlerReturns` |
| `history` | 2 clients, a history of 5 rows; two cards of which one matches the other's pattern and is a second younger, a text and a card, a card, a text; 1 to 3 history requests, 1 or 2 changes, the pages of one or both | 1,700,000 | `NothingMissed`, `DeletionReachesAll`, `ReactionsAgree`, `PageIsCurrent` |
| `upload` | 1 handler, 1 flusher, 2 invocations, 2 chunks, 2 workers, a flush every 2 chunks, every fate and incident | 2,925,000 | `AvailableIsComplete`, `RowNeverAhead`, `OneCardEach`, `CompletedIsFinal` |
| `upload_resume` | 1 handler, 2 invocations, 3 chunks, 2 workers, aborted requests dropped, pauses | 15 to the violation | `ResumesFromLastWritten` is **violated** |
| `upload_live` | as `upload`, with pauses and overlapping resumes only, fair | 241,000 | `UploadEnds`, `UploadSucceeds` |
| `download` | the downloader and 1 other thread, 2 ids, 1 pushed packet, 2 chunks, fair | 370,000 | `StreamedInOrder`, `DownloaderWaits`, `WaitsForSomething`, `AnsweredInTime` |
| `web_session` | 2 connections that do not break; 1 connection and another user, who leaves, kicks or breaks; or 1 connection, 2 pages and 1 thing said; 1 room, fair | 244,000 | `OneOpenConnection`, `ToldIsMember`, `EventsOnce`, `EventsHandedOut`, `ClosedIsForgotten` |
| `directory` | 1 handler and 2 servers that report loads; 1 handler and 3 servers; 2 handlers and 2 servers; or 3 handlers and 1 server; 1 name | 111,000 | `TablesAgree`, `ChoiceIsJustified`, `ImplementsDirectory` |
| `backends` | 2 servers, 1 heartbeat on its way, fair | 140,000 | `DownIsWritten`, `KnownDeadIsDown`, `BeatingComesBack` |

Every module has a type invariant. It is proved in all of them, as `TypeCorrect` or as a
conjunct of the inductive invariant; a run checks it too where it is the first conjunct of one of the invariants
(`ReceivedWhereIssued`, `MembersAreClients`, `NothingMissed`, `DownloaderWaits`, `EventsOnce`, `ChoiceIsJustified`).
`SingleSession`, `RoomNeverMoves`, `ToldIsHome` and `OneCreator` are proved and not run: the first follows from
`IndexConsistent`, the others from `ImplementsDirectory` with `TablesAgree`. The run `rooms` states the refinement as
initial states and steps, because it is about the behaviours with none of the three disruptive requests only.

`upload_resume` is the one run that ends with a counterexample: `ResumesFromLastWritten` is what REQUIREMENTS.md:319 promises, and the code does
not keep it. With two workers chunk 1 is written before chunk 0; the user pauses, which aborts the request with
chunk 0; `RESUME_TRANSFER` answers the number of chunks received, 1, and the resumed invocation begins with chunk 1. Chunk 0 is never
sent again. No loss, crash or second flusher is needed; the browser has four workers.

Why the bounds are enough. Every conflict in the registry is between two threads over
one user's entries: two connections log the same user in and out while the pruner and a
backend thread run, and two tokens give a session and its successor. Sessions of
different users share no entry but the lock. A private message is the same conflict with one more thread
that looks on: the recipient is the one user, whose session either connection may hold or take over. In a room a third connection is what it
takes for one to leave, one to join and one to broadcast or kick; the second room is
needed for switches. In a history the conflicts are between a writer, a reader and one message, or a card and
the one whose pattern it matches; two changes give a deletion that follows a reaction, and reactions that
overlap; two requests give one that is given up and a later one that is answered while the first answer is on
its way, a third one more; a history of 5 rows cuts messages off as soon as joins, files and deletions have
left notes in the room. Two chunks and two workers give every order of arrival,
completion and counting with one chunk missing; two invocations give a pause with a
resume that overlaps or does not; the theorems of section 5 hold for any bounds. In a download, two
chunks give a first that is dropped, torn or mistaken and a last that is counted, and two ids give a
request of each thread, or two of one, with a pushed packet that carries the id of either. In a web
session two connections give the one that is replaced and the one that replaces it, and the unlocked leave of the first with the
join of the second; another user gives the leave, the kick and the clean-up that meet those of the session, for which one connection of it
is enough; events and pollers do not care which
connection an event came from. Connections break only where there is one: where there are two, the first is closed by the session. In the
directory three handlers give two creators and one who joins; two servers that change their loads between the reads of one loop give every
order of reading and reporting, and three of equal loads the tie among those still to be compared. Two servers are what the health check's list needs to
have a first and a rest.

Fairness. Threads are scheduled by the operating system, so a thread that can go on does
(`WF`). A thread that waits for `RoomMembership`'s lock competes with others that take it
again and again; that it gets it in the end is strong fairness, which
`threading.Lock` gives in practice, with no thread holding it while it waits for another. In
`GatewaySessions` the handlers need only weak fairness: the lock is held across steps by one
login at a time and logins are bounded by the tokens. The pruner wakes up every minute,
and a session nobody uses becomes stale (`Idle`). In `UploadTransfer`
the server's threads and the browser's promises go on; nothing makes a user click, a
packet arrive or an incident happen. In `FileDownload` no thread has to time out: `AnsweredInTime` says that
the timeout is not needed. In `WebSession` the route's thread, the receivers and the handler threads go on, the route's five-second timeout included, and the page polls; pollers do not have to time
out, and nobody has to join, leave, kick, talk or reload. In `BackendRegistry` the Gateway's threads, the health check and
the heartbeat loops go on, and a server that is down and has nothing left to be read becomes silent; that
is time passing. Nothing makes a server start or die, a connection break or a user disconnect.

### What the exceptions in the properties stand for

The properties hold as stated; where they name an exception, or speak of fewer behaviours than one
might wish, the code does something its documents do not say or a reader would not expect. All of these were
met while modelling and read off the code.

Against a document:

* "Logged-out users are immediately removed or marked offline." (FEATURE_SPEC.md:177): `USER_ROOM_STATUS_UPDATE`
  writes presence whether or not there is a session (`gateway/main.py:442`), so one that arrives after a logout
  shows the user in a room. `SessionRegistry`'s `Report` allows it.
* "Kicked members are evicted instantly and the active member list is updated." (FEATURE_SPEC.md:510): a kick between the
  two accesses of `JOIN_ROOM_BACKEND` to `clients` (`server/main.py:374`) leaves a dead connection in the room, and computing the
  member list fails from then on. `MembersAreClients` names such kicks.
* "Transfer resumes from the last successfully written chunk index." (REQUIREMENTS.md:319): the answer is the number of chunks
  received (`server/main.py:1122`); with parallel workers an earlier one may be missing. The run `upload_resume` shows it.
* "Fallback to round-robin on ties." (REQUIREMENTS.md:184, FEATURE_SPEC.md:206, ARCHITECTURE.md:208): of servers with equal scores the code takes the one with the
  smallest id (`load_balancer.py:29`). The first two also ask for the fewest rooms first and the fewest clients second (REQUIREMENTS.md:182); the code adds them
  up, ten times the rooms, the clients and twice the transfers. `ChoiceIsJustified` is about what the code does.
* "Process Server heartbeat lost: Gateway marks the server as `down` in the database." (ARCHITECTURE.md:393): the health check
  looks at memory only (`backend_service.py:105`); after a restart of the Gateway no server registers again, one that dies stays
  `alive` in the table, and creating a room answers `BACKEND_DOWN` until a process server is restarted. `KnownDeadIsDown` is about servers the Gateway knows.
* "The downloaded file matches the server copy bit-for-bit." (FEATURE_SPEC.md:392): chunks that arrive before `active_downloader` is set are dropped (`routes.py:472`), so is a
  chunk taken for an answer, and after 300 seconds, or when the connection is lost, the response is ended like a whole one.
  `StreamedInOrder` says what the count is worth, not that it is reached; a file of no chunks waits its 300 seconds too.
* "All client browsers in the room detect the broadcast and remove the file card from their DOM" (FEATURE_SPEC.md:527): the broadcast of a card carries no `message_id` (`server/main.py:1042`), so the deletion removes nothing from
  pages that saw the card live; and `LIKE` also matches cards whose file id begins with this one (`server/main.py:652`), which are marked and announced to nobody, or announced instead of it.
* "Receiving client UIs dynamically update the emoji counts" (FEATURE_SPEC.md:484): of two overlapping changes the older count may be told last (`server/main.py:561`). `ReactionsAgree` names overlaps.
* "Server-initiated event packets should use a `request_id` prefixed with `EVT-`." (API_SPEC.md:539): the code counts the ids of events like those of requests, in each process
  (`common/protocol.py:28`), so an event can be taken for an answer; `RoomHistory` has the consequence.

Not against a document:

* a second `AUTH_BACKEND` on a connection that is in a room overwrites its record with one that is in none, while the room's set keeps
  it (`server/main.py:347`); its clean-up then leaves a member without a client, and the member list of the others raises from then on
  (`server/main.py:433`). The bridge sends one per connection (`routes.py:146`). `MembershipMatchesRecord`, `MembersAreClients` and
  `HandlersSurvive` ask for behaviours without it; `RecordedIsMember` and `HandlerReturns` hold with it;
* the server chosen for a room may have been the least loaded one at no moment: the loads are read one by one while heartbeats
  change them, and a server that registers again is judged by its old entry (`load_balancer.py:18`, `backend_service.py:91`);
* the history answer overwrites an event handled while it was awaited, or shows a message twice (`app.js:531`);
* a history whose callback was taken by an event of the same id ends the receiver with an `AttributeError` (`room_connection.py:116`): the
  page gets no event any more, and the server keeps sending. A page whose history has failed stays without it until it is asked for again;
* a browser that was kicked shows the notice like any system message and still believes it is in the room (`app.js:665`); `ToldIsMember` names kicks;
* an unlocked `LEAVE_ROOM` of a session's old connection that found the room empty deletes the set its new connection
  has joined in between (`server/main.py:424-426`): the session is told it is in the room, and gets no broadcast. `ToldIsMember` names it (`wiped`);
* a clean-up that meets an unlocked `LEAVE_ROOM` raises `KeyError` in `_leave_room_logic` and never reaches `del self.clients[conn]`
  (`server/main.py:1183-1185`): the client stays in the table for ever. `ClosedIsForgotten` names it (`stuck`);
* a private message is stored as delivered and not pushed when the recipient's session ends after the look-up
  (`gateway/main.py:329`, where the `KeyError` also ends the sender's connection), or is pushed on a connection whose session has since ended;
* the loser of a race for a room name gets `INTERNAL_ERROR` (`room_directory.py:48`);
* a join that fails leaves the browser's `currentRoom` at the old room, which the bridge has left (`routes.py:143`);
* events handed to the poller of a page that was reloaded are lost to the user (`session.py:69`);
* until the next packet reaches a connection the bridge has closed, the user is in two rooms (`room_connection.py:38`);
* an unlocked `LEAVE_ROOM` deletes the set of a room somebody has joined since it was found empty
  (`server/main.py:426`); `RecordedIsMember` therefore asks for behaviours without leaves;
* an unlocked leave during a broadcast raises in the broadcaster's handler (`server/main.py:410`), and in
  another connection's clean-up leaves that connection in `clients`;
* kicking a member who is just disconnecting ends the owner's connection (`server/main.py:622`), and a
  member who switches rooms meanwhile is removed from the new room (`server/main.py:627`);
* a room connection that ends reports `offline` for a user still logged in, or in a room again (`server/main.py:1184`);
* no process server reads its `HEARTBEAT_ACK`s (`server/main.py:217`), so the Gateway's thread waits for ever
  once they fill the buffers, and a running server is marked down (`gateway/main.py:415`);
* the pruner ends a session that was refreshed after its list was made (`gateway/main.py:115`);
* a session that ends between an unlocked test and its use tears down the connection (`gateway/main.py:164`);
* a packet handled between the two writes of a status update writes the old room back (`gateway/main.py:442`);
* the cut body of an aborted request is counted as a chunk (`server/main.py:945`);
* a second flush clears the flag of progress it has not written (`server/main.py:167`);
* an upload whose progress was not flushed for two minutes is marked failed while chunks arrive
  (`server/main.py:118`), and cannot be resumed then (`server/main.py:1117`);
* two overlapping invocations of one upload finish it one after the other, and the room gets two cards (`app.js:107`); `OneCardEach`
  counts them, and the finish of the second makes a deleted file available again (`server/main.py:1000`).

## 5. The proofs

`tlapm` checks every obligation of the eight proof modules. Every safety invariant, action property and
refinement of the runs is a theorem, but for the one that the run `upload_resume` refutes. The assumptions are the named `ASSUME`s:

* null values are none of the values they stand for (`NullsAssumption` of GatewaySessions and RequestMatching, `NamesAssumption` of WebSession;
  parts of `MessagesAssumption`, `RoomsAssumption`, `DownloaderAssumption`, `DirectoryAssumption`, `BackendAssumption`
  and `UploadAssumption`; `PacketAssumption`);
* counts and bounds are natural numbers, and positive where nothing would happen at zero (`BoundsAssumption`, `TotalAssumption`,
  `UploadAssumption`, `DirectoryAssumption`, `BackendAssumption`);
* constants that are functions or sets have the types their comments give: users of connections and owners
  of rooms (`RoomsAssumption`), the packets a connection may send (`MessagesAssumption`), the pattern that matches at least
  its own card (`RoomAssumption`), the threads that send requests and the ids of pushed packets (`RequestersAssumption`, `PushIdsAssumption`).

Each proof has the same shape: an inductive invariant (`IInv`, and stronger ones on top of it), which contains the properties and what a
thread in the middle of an operation may assume; `InitIInv`; and `NextIInv`, with a step or a lemma per action
and under it one step per conjunct the action can disturb. TLC has checked each of these invariants on the bounds of
the run before it was proved.

**GatewayProofs: the registry.** `IndexConsistent` is not inductive by itself: `LoginInsert` keeps it only if the
user has no session and the new token is not in use. The invariant `IInv` adds

* `LockInv`, `LoginInv`: who holds the lock is in the middle of a login, and a login under way has the lock where it should;
* `EvictedInv`: between eviction and insertion the user has no entry;
* `SocketInv`: a session's connection is the one its token was generated for;
* `OwnTokenInv`: a thread's `current_token` was generated for its connection.

Lemmas say what `Cleanup` and the update of a session do to both dictionaries.
From `IInv` follow `TypeCorrect`, `IndexTheorem`, `SingleSessionTheorem`
(two sessions of one user would both be the one the index names) and `EndsOnlyByOwnerTheorem`,
which is about steps: the case that needs the invariant is the `finally` clause, which ends the
session that `current_token` names, and `OwnTokenInv` with `SocketInv` says that this one is its
own. `PresenceTheorem` needs the index too (`NextPresence`): a clean-up writes `offline` for a user only if
the token it ends is the one the index has for that user, so that it can never undo the row of a later login;
it asks, like the property, that no process server reports. They hold for any number of users, connections, tokens, rooms and backend threads.

**GatewayProofs: the refinement.** `RegistryImplemented`: every behaviour of GatewaySessions is one of SessionRegistry under the
mapping. `StepImplements` has a step per action; those that leave dictionaries and presence alone
are stutters. That a clean-up is the abstract `End` needs `IndexConsistent`: two sessions of the registry
could otherwise be one session of the abstract set, and the set would not lose it
(`ViewsDiffer`). That `LoginInsert` is `LogIn` needs `EvictedInv`. A status update needs one fact more, `ReportInv`:
a process server that is between its two writes is not about to write the place a login gives.

**GatewayProofs: private messages.** `MInv` puts on top of this what a sender knows between its unlocked look-ups: where
its local variables have a value (`HandlingInv`), that no two handlers work on one message (`OneHandler`),
and that a row was stored as delivered for a token that was issued (`DeliveredInv`). Because tokens are never issued twice, the
connection found with the token at the check is the one the message is pushed on, however often the recipient's
session has changed since (`ReceivedTheorem`); `LostTheorem` says who is to blame when it is not pushed. No step of a handler is a
step of the registry (`SessionFacts`, `MessageFrame`), so what was proved of GatewaySessions holds in the composition
(`MessagesImplementRegistry`, `RegistryInComposition`).

**RoomMembershipProofs.** The hard point is `_leave_room_logic`: it resets the record several statements after it discarded
the member, so a thread that joined in between would leave the two disagreeing. `LockInv` says who holds the lock, `ControlInv` which positions
go with which operation, and `LeavingInv` what a leave under way has done so far: either
it holds the lock, or it is a `LEAVE_ROOM` of the connection itself, which cannot join at the same time.
`GhostInv` says where a connection that was kicked, or is ending, may still be a member. The theorems name the requests they exclude: a second authentication for
`MembershipTheorem` and `MembersTheorem`, leaves for `RecordedTheorem`, all three for `SurviveTheorem`. `NoKickInv` and
`NoLeaveInv` are what holds without kicks or leaves: `Known` clients, an `Undisturbed` broadcast or deletion of a room, and a
`Recorded` room which only a thread about to reset it makes untrue.
`SurviveTheorem` is an action property of the same invariant. `LockHolderTheorem` is the safety that a handler's return
rests on: a `threading.Lock` is not reentrant, so a handler that asked for it twice, or ended with it after an exception, would stop
the whole server; neither happens, with leaves, kicks and second authentications in use.

**RoomMembershipProofs: the refinement.** `AtomicRoomsImplemented` is about the behaviours whose `uses`, chosen at the start, is
empty; `AtomicRoomsRefined` says of them that they are behaviours of AtomicRooms. A kick takes a connection
out of its room that may be switching at the moment, a leave changes a room while it is broadcast to, and a second authentication changes
the record and not the room, so none of them has an abstract step. `Solo` is what a thread knows of its own connection when nobody else takes
it out of its room: what `old` remembers at each place, that a connection that is no client is in no room, that a thread that is not sending
has sent all. The locked sections of a join stutter, up to `JoinAdd`, which is the abstract `Join` (the connection leaves the old room in the same
step, in which it was kept by `RoomOf`), and those of a clean-up up to `Forget`, which is `Gone`. `RoomIsMembers` says that when nobody holds
the lock the set the code keeps for a room is the set the function `at` gives, which makes the beginning of a broadcast the abstract `Tell`; that nothing
is sent while somebody changes rooms (`NothingSent`) is the lock.

**RoomHistoryProofs.** The properties speak of moments at which nothing is under way; the invariant says for all
others where what is missing still is. `TaskInv` ties a handler's task to the row it committed, `MemberInv` says that only members are sent
anything, `StoredInv` that whoever is missing a message has a handler about to tell of it. `GoneInv`, `EarlyInv` and `DeletionInv`
do this for deletions, `RaceInv` for reactions that do not overlap. `NumberInv` says that histories are read in the order of their requests,
none before its own, and that no answer is there before the browser is waited for, so that an answer the page waits for is the one to its last
request. `PageInv` says that every stored message is shown, on its way (`Coming`), still to be told of (`Telling`),
lost to an event handled or taken meanwhile, or crowded out by the limit (`Crowded`); of an awaited answer it says the same, wherever
the answer is (`PageOf`, `OnItsWay`). Rows that a history leaves out are `Crowded` at that moment (a step of `HistoryKeeps`), and
remain so, since stored rows stay stored, deleted or not (`CrowdedKept`). The theorems hold for any number of
clients, messages, requests and changes, any limit, and for any way in which file ids match each other.

**FileDownloadProofs.** About the composition of FileDownload and RequestMatching. `WaitsTheorem` rests on `UniqueInv`, that ids
of requests under way are different, and `WaitInv`, that a request whose callback is registered is before the
server or answered. The route only counts chunks, so that the count is worth something has to
come from their order: `QueueInv`, `HandInv` and `StreamInv` say that the chunks are in order in the response, in the hands of the receiver
and on the connection, each part behind the next and none ahead of the pusher's index. As many chunks as were announced, in
order and without repetition, can only be all of them (`StreamedTheorem`). `ThreadInv`, `DownloadInv` and `CountInv` say who is at the steps of a download, that
it is requested once, and what the counter counts.

**WebSessionProofs.** That the room the browser was told is the room the server has it in follows from what can still
be on its way on the one connection the session uses: `JoinInv` follows its join through the handler's statements (requests for one room
only, none that leave, a record and a set that agree from `JoinAdd` on, unless it was kicked, is ending, or its set was wiped), and a confirmation
stands only for what the server has done. `AuthOK` says that until its authentication is handled it has asked for nothing else. `ThreadInv` says
where every thread of the server may be: `_leave_room_logic` runs under the lock just when a clean-up calls it, for a connection that was kicked or closed,
and then it deletes empty rooms only; what runs without the lock is the `LEAVE_ROOM` of a connection itself. `FreshInv` says that a
connection carries nothing before it is used, `RouteInv` what the thread of the join route holds at each of its steps, `QueueInv` that every event is in
the queue or was handed out, in the order in which it was pushed. The theorems hold for any number of connections, other users, rooms and pollers.

**UploadTransferProofs.** `AvailableIsComplete` needs `CompleteInv`: from the comparison of the hash to the
announcement the file is complete, and no write takes a chunk away. `RowNeverAhead` needs
`SnapInv` (a snapshot under way is not ahead of the cache) and, because the cache can be forgotten and
read again, `ReloadInv` and `ForgetInv`: an entry is only read from a row in progress, and then no
commit of an earlier entry is under way. `ServesInv` ties a handler's request to its position and
`FreshInv` says that nothing precedes `UPLOAD_INIT`. `CompletedTheorem` is an action property of the
same invariant. They hold for any number of chunks, workers, threads and invocations and for
every choice of incidents.

**UploadTransferProofs: one card.** `OneCardEach` compares the number of cards with the number of invocations of the upload queue that
have sent all their chunks. `CardsIInv` keeps, besides the types, `ServesInv` and `FreshInv`: `OnceInv`, that an
invocation's `UPLOAD_FINISH` exists once, on its way or at one handler, and only after the invocation has sent all its chunks
(`Finishes`, `Sent`, `Past`); and `CardInv`, that there is a set of invocations whose `UPLOAD_FINISH` has been served which is
at least as large as the number of cards. Every step but the sending, the receiving and the serving of an `UPLOAD_FINISH` makes none
and leaves these facts alone (`QuietKeeps`). `OneCardTheorem` holds however invocations
overlap, are given up, paused, or cut off by a crash: a second card needs a second invocation that has sent everything. That two overlapping
invocations do post two cards is what the code does. `ResumesFromLastWritten` is refuted by a run, and no theorem.

**BackendRegistryProofs.** `DownIsWritten` is inductive together with the types: `PacketFacts` says that a
registration or a heartbeat leaves no server down that it touches, and the health check puts every server it
marks into its list. It holds for any number of servers and any size of the buffers.

**RoomDirectoryProofs.** `TablesAgree` is only true because a transaction is committed at once; `ToldIsHome` and `OneCreator` need to know
what every handler carries between its steps. `IInv` says that the handler with the write lock is the only one
in a transaction and its room has no row yet, that one who has committed or looked up a room holds that room's row, and
that of those who created a room, told or still to be told, there is one. Rows are never changed
(`RoomNeverMovesTheorem`). They hold for any number of handlers, names and servers.

`LoopInv` is about the choice of a server while heartbeats go on. `Choosing` says of each handler in the loop:
the entry of a server still to be passed is one of those it has had since the copy (`SoFar`, with `Entry` and `since`); what has been added
up of a score was read from entries of that server, one field at a time (`ReadSoFar`); and the best server so far was passed with a score that was
read of its loads and beats those of all that were passed (`Scores`, `Beats`). A heartbeat only adds to the entries since the
copy, a registration replaces the entry and leaves the copied one as it was (`BackendLoop`). When the loop ends nothing is left to
be passed, and that is `ChoiceIsJustified` (`ChoiceTheorem`).

`DirectoryImplemented` is short, given the invariant: `Commit` is `Place` because the holder of the write lock knows that its room
has no row, `Reply` is `Assign` or `Locate` because what a handler carries is still so, and everything else, a restart
included, is a stutter, since nobody has been told of what it takes back.

**Only model-checked**: what must eventually happen
(`NoSessionLeak`, `PacketHandled`, `HandlerReturns`, `UploadEnds`, `UploadSucceeds`, `AnsweredInTime`, `EventsHandedOut`, `ClosedIsForgotten`,
`KnownDeadIsDown`, `BeatingComesBack`), since liveness under fairness and `ENABLED` are out of the installed provers' reach.

## 6. Not modelled

* Accounts, and the login, register and logout routes of the bridge: password hashing, one INSERT guarded by a UNIQUE column, and one packet
  passed on. GatewaySessions takes the answer of a login as a choice.
* Rate limiters: a comparison of two clock readings; a refused packet has the effect of an error answer.
* Packet framing beyond what a second writer does to it, error classes, constants, logging: TCP keeps the order on a connection, a
  malformed packet ends it like a disconnect.
* That one member with a full socket buffer blocks every handler while a broadcast holds the
  lock: a `send` is a step that ends.
* Join and leave requests of one web session at the same time (two threads between `routes.py` 140 and 152 leave a connection
  nobody uses any more), two downloads of one web session, several items of the upload queue, and the order of two presence updates of one
  user (GatewaySessions has updates that are late, each by itself): see the plan.
* `RESUME_TRANSFER` for a download, which no client of the repository sends.
* Database errors other than a UNIQUE column and a lock that is not released in time: every transaction succeeds; those whose failure is handled are logged and
  ignored. (A health check whose write of `'down'` fails never writes it again, `backend_service.py:117`.)
* The typing indicator, which keeps no state on the server, and the user interface but for the upload queue and the page of a room.
