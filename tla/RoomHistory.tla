----------------------------- MODULE RoomHistory -----------------------------
(***************************************************************************)
(* What is said in a room and what its members see of it: the rows of      *)
(* room_messages and message_reactions, the handlers of server/main.py     *)
(* that write them, read them and tell the room, and the browser           *)
(* (web/static/app.js), which renders a history answer and appends the     *)
(* events that reach it on another way.                                    *)
(*                                                                         *)
(* One room and one process server.  Each client has its own handler       *)
(* thread there; between the commit of a row and the broadcast that tells  *)
(* of it nothing is locked, so every other thread may run.  What the       *)
(* server sends comes to the bridge in order, where the receiver of the    *)
(* connection gives it to the request with its id, or else to the queue of *)
(* events.  Answers and events leave the bridge by different HTTP          *)
(* responses: the browser may take from either.                            *)
(***************************************************************************)
EXTENDS Naturals, Sequences, FiniteSets

CONSTANTS
    Clients,     \* connections to the room, each of a user of its own
    Owner,       \* the one whose user created the room
    Texts,       \* text messages that may be sent ...
    Cards,       \* ... and the cards of files that may be uploaded
    Time,        \* created_at of each message, in seconds: messages of one second
                 \* come in any order, and a row may be committed after a later one
    Limit,       \* the most rows a history has (50)
    Alike,       \* for each card those whose content LIKE '%"file_id": <id>%'
                 \* matches: its own, and every one whose id begins with its id
    Bounds       \* the bounds a behaviour may have: the messages that are sent,
                 \* the clients whose bridge and page are followed, the
                 \* history requests of each, and the deletions and reactions

Messages == Texts \cup Cards

ASSUME RoomAssumption ==
    /\ Owner \in Clients
    /\ Texts \cap Cards = {}
    /\ Time \in [Messages -> Nat]
    /\ Limit \in Nat
    /\ Alike \in [Cards -> SUBSET Cards]
    /\ \A m \in Cards : m \in Alike[m]
    /\ Bounds \subseteq [messages : SUBSET Messages, pages : SUBSET Clients,
                     requests : Nat, changes : Nat]

VARIABLES
    table,     \* room_messages: Messages -> none, stored or deleted
    reactions, \* message_reactions, for one emoji: Messages -> set of clients
    notes,     \* how many of room_messages the system wrote itself
    members,   \* rooms[room_name]
    task,      \* what the handler thread of a client has still to do
    served,    \* how many of a client's history requests have been read
    wire,      \* packets sent to a client that its bridge has not received
    pending,   \* the history requests in pending_requests, by number
    deaf,      \* clients whose receiver has ended
    events,    \* events on their way to the browser
    answer,    \* the history answer on its way to the browser: its rows, or {}
    screen,    \* the elements of room-chat-history: a message is there as
               \* rendered from the history, as appended from an event, or both
    page,      \* out, in (currentRoom is set) or waiting for a history answer
    requests,  \* history requests so far
    changes,   \* deletions and reactions so far
    bounds,    \* the bounds of this behaviour
    seen       \* for the properties, see below

Idle == [do |-> "idle"]

\* A handler that has committed and not yet broadcast, or read and not yet
\* answered.
Tasks == {Idle}
    \cup [do : {"tell", "forget"}, message : Messages]
    \cup [do : {"mark"}, file : Cards, named : SUBSET Cards]
    \cup [do : {"count"}, message : Messages]
    \cup [do : {"react"}, message : Messages, by : SUBSET Clients]
    \cup [do : {"answer"}, number : Nat, rows : SUBSET Messages]

Event  == [type : {"chat", "gone"}, message : Messages]
Packet == Event \cup [type : {"history"}, number : Nat, rows : SUBSET Messages]

\* seen.sent and seen.gone: the messages a client was sent, in a history answer
\* or a broadcast, and those it was told are deleted; seen.answered: it was sent
\* a history, and seen.rendered: its page has shown one.  seen.early: cards
\* deleted before they were broadcast.  seen.shown: the reactions of a message as
\* last broadcast; seen.raced: the last change of its reactions overlapped with
\* another.  seen.lost: messages an event about which was handled while the page
\* waited for the history it shows, or was taken for an answer since; and
\* seen.during: the same of the history it waits for.
Seen == [sent : [Clients -> SUBSET Messages], gone : [Clients -> SUBSET Messages],
         answered : SUBSET Clients, rendered : SUBSET Clients, early : SUBSET Messages,
         shown : [Messages -> SUBSET Clients], raced : SUBSET Messages,
         lost : [Clients -> SUBSET Messages], during : [Clients -> SUBSET Messages]]

rows    == <<table, notes, reactions>>
server  == <<rows, members, task, served>>
bridge  == <<pending, deaf, events, answer>>
browser == <<screen, page, requests>>
limits  == <<changes, bounds>>
vars    == <<server, wire, bridge, browser, limits, seen>>

TypeOK ==
    /\ table \in [Messages -> {"none", "stored", "deleted"}]
    /\ reactions \in [Messages -> SUBSET Clients]
    /\ notes \in Nat
    /\ members \subseteq Clients
    /\ task \in [Clients -> Tasks]
    /\ served \in [Clients -> Nat]
    /\ \A c \in Clients : wire[c] \in Seq(Packet) /\ events[c] \in Seq(Event)
    /\ pending \in [Clients -> SUBSET Nat]
    /\ deaf \subseteq Clients
    /\ answer \in [Clients -> SUBSET SUBSET Messages]
    /\ screen \in [Clients -> SUBSET (Messages \X {"history", "live"})]
    /\ page \in [Clients -> {"out", "in", "waiting"}]
    /\ requests \in [Clients -> 0..bounds.requests]
    /\ changes \in 0..bounds.changes
    /\ bounds \in Bounds
    /\ seen \in Seen

Init ==
    /\ table = [m \in Messages |-> "none"]
    /\ reactions = [m \in Messages |-> {}]
    /\ notes = 0
    /\ members = {}
    /\ task = [c \in Clients |-> Idle]
    /\ served = [c \in Clients |-> 0]
    /\ wire = [c \in Clients |-> <<>>]
    /\ pending = [c \in Clients |-> {}]
    /\ deaf = {}
    /\ events = [c \in Clients |-> <<>>]
    /\ answer = [c \in Clients |-> {}]
    /\ screen = [c \in Clients |-> {}]
    /\ page = [c \in Clients |-> "out"]
    /\ requests = [c \in Clients |-> 0]
    /\ changes = 0
    /\ bounds \in Bounds
    /\ seen = [sent |-> [c \in Clients |-> {}], gone |-> [c \in Clients |-> {}],
               answered |-> {}, rendered |-> {}, early |-> {},
               shown |-> [m \in Messages |-> {}], raced |-> {},
               lost |-> [c \in Clients |-> {}], during |-> [c \in Clients |-> {}]]

-----------------------------------------------------------------------------
(* The process server *)

\* The handlers serve a client that has joined the room, one request at a time.
Serving(c) == c \in members /\ page[c] # "out" /\ task[c] = Idle

Then(c, t) == task' = [task EXCEPT ![c] = t]

\* Some handler is at a task of this kind for m.
Under(kinds, m) == \E c \in Clients : task[c].do \in kinds /\ task[c].message = m

Stored == {m \in Messages : table[m] = "stored"}

\* JOIN_ROOM_BACKEND, as far as this room's history is concerned: the client is
\* a member, and the system message about it stored, before JOIN_ROOM_OK is sent.
Join(c) ==
    /\ c \notin members
    /\ members' = members \cup {c}
    /\ notes' = notes + 1
    /\ UNCHANGED <<table, reactions, task, served, wire, bridge, browser, limits, seen>>

\* What is sent to a client; nobody reads what comes to a receiver that has ended.
Sent(c, p) == IF c \in bounds.pages \ deaf THEN Append(wire[c], p) ELSE wire[c]

\* _broadcast_to_room: one packet to every member, under the lock.
Broadcast(p) ==
    /\ wire' = [c \in Clients |-> IF c \in members THEN Sent(c, p) ELSE wire[c]]
    /\ LET With(told) == [c \in Clients |-> IF c \in members THEN told[c] \cup {p.message} ELSE told[c]]
       IN  seen' = IF p.type = "chat" THEN [seen EXCEPT !.sent = With(seen.sent)]
                                      ELSE [seen EXCEPT !.gone = With(seen.gone)]

\* A variant with a bug: the room is told first.
PostTellsFirst(c, m) ==
    /\ Serving(c) /\ m \in bounds.messages /\ table[m] = "none"
    /\ \A d \in Clients : task[d] # [do |-> "tell", message |-> m]
    /\ IF m \in seen.sent[c]
       THEN table' = [table EXCEPT ![m] = "stored"] /\ UNCHANGED <<wire, seen>>
       ELSE Broadcast([type |-> "chat", message |-> m]) /\ UNCHANGED table
    /\ UNCHANGED <<notes, reactions, members, task, served, bridge, browser, limits>>

\* ROOM_CHAT_SEND, or the announcement of a file by UPLOAD_FINISH, which the
\* system has a message of its own about: the row is committed ...
Post(c, m) ==
    /\ Serving(c) /\ m \in bounds.messages /\ table[m] = "none"
    /\ table' = [table EXCEPT ![m] = "stored"]
    /\ notes' = IF m \in Cards THEN notes + 1 ELSE notes
    /\ Then(c, [do |-> "tell", message |-> m])
    /\ UNCHANGED <<reactions, members, served, wire, bridge, browser, limits, seen>>

\* ... and the room told.
PostTell(c) ==
    /\ task[c].do = "tell"
    /\ Broadcast([type |-> "chat", message |-> task[c].message])
    /\ Then(c, Idle)
    /\ UNCHANGED <<rows, members, served, bridge, browser, limits>>

Matching(k) == Alike[k] \cap Stored

\* ROOM_DELETE_FILE: the message_id of some card the LIKE pattern matches is
\* looked up, if there is one ...
DeleteFile(c, k) ==
    /\ Serving(c) /\ c = Owner /\ k \in bounds.messages
    /\ changes < bounds.changes /\ changes' = changes + 1
    /\ \E named \in SUBSET Matching(k) :
          /\ Cardinality(named) = (IF Matching(k) = {} THEN 0 ELSE 1)
          /\ Then(c, [do |-> "mark", file |-> k, named |-> named])
    /\ UNCHANGED <<bounds, rows, members, served, wire, bridge, browser, seen>>

\* ... and all of them are marked as deleted, of which the system has a message.
\* There is something to tell if a card was found.
DeleteMark(c) ==
    LET cards == Matching(task[c].file) IN
    /\ task[c].do = "mark"
    /\ table' = [m \in Messages |-> IF m \in cards THEN "deleted" ELSE table[m]]
    /\ notes' = notes + 1
    /\ \/ task[c].named = {} /\ Then(c, Idle)
       \/ \E m \in task[c].named : Then(c, [do |-> "forget", message |-> m])
    /\ seen' = [seen EXCEPT !.early = @ \cup {m \in cards : Under({"tell"}, m)}]
    /\ UNCHANGED <<reactions, members, served, wire, bridge, browser, limits>>

\* A variant with a bug: the owner, whose page reloads the history anyway, is all
\* that is told.
DeleteTellsOwner(c) ==
    /\ task[c].do = "forget"
    /\ wire' = [wire EXCEPT ![c] = Sent(c, [type |-> "gone", message |-> task[c].message])]
    /\ seen' = [seen EXCEPT !.gone[c] = @ \cup {task[c].message}]
    /\ Then(c, Idle)
    /\ UNCHANGED <<rows, members, served, bridge, browser, limits>>

\* ROOM_DELETE_FILE_BROADCAST.
DeleteTell(c) ==
    /\ task[c].do = "forget"
    /\ Broadcast([type |-> "gone", message |-> task[c].message])
    /\ Then(c, Idle)
    /\ UNCHANGED <<rows, members, served, bridge, browser, limits>>

\* The messages whose element carries a message_id: those rendered from the
\* history, and the texts; the broadcast of a card has none.
Clickable(c) == {m \in Messages : \/ <<m, "history">> \in screen[c]
                                  \/ m \in Texts /\ <<m, "live">> \in screen[c]}

\* A variant with a bug: the rows are counted before the change.
ReactCountsFirst(c, m) ==
    /\ Serving(c) /\ m \in Clickable(c)
    /\ changes < bounds.changes /\ changes' = changes + 1
    /\ reactions' = [reactions EXCEPT ![m] = @ \cup {c}]
    /\ Then(c, [do |-> "react", message |-> m, by |-> reactions[m]])
    /\ seen' = [seen EXCEPT !.raced = IF Under({"count", "react"}, m) THEN @ \cup {m} ELSE @ \ {m}]
    /\ UNCHANGED <<bounds, table, notes, members, served, wire, bridge, browser>>

\* ROOM_MESSAGE_REACTION: a row is inserted, unless it is there, or deleted ...
React(c, m) ==
    /\ Serving(c) /\ m \in Clickable(c)
    /\ changes < bounds.changes /\ changes' = changes + 1
    /\ \E by \in {reactions[m] \cup {c}, reactions[m] \ {c}} :
          reactions' = [reactions EXCEPT ![m] = by]
    /\ Then(c, [do |-> "count", message |-> m])
    /\ seen' = [seen EXCEPT !.raced = IF Under({"count", "react"}, m) THEN @ \cup {m} ELSE @ \ {m}]
    /\ UNCHANGED <<bounds, table, notes, members, served, wire, bridge, browser>>

\* ... the rows of the message are counted ...
ReactCount(c) ==
    /\ task[c].do = "count"
    /\ Then(c, [do |-> "react", message |-> task[c].message, by |-> reactions[task[c].message]])
    /\ UNCHANGED <<rows, members, served, wire, bridge, browser, limits, seen>>

\* ... and the room told.  The packet goes the way of the others; what matters
\* here is the last one.
ReactTell(c) ==
    /\ task[c].do = "react"
    /\ seen' = [seen EXCEPT !.shown[task[c].message] = task[c].by]
    /\ Then(c, Idle)
    /\ UNCHANGED <<rows, members, served, wire, bridge, browser, limits>>

\* What ORDER BY created_at DESC LIMIT n may take of the rows.
Newest(n) == {some \in SUBSET Stored :
    /\ \A m \in some, o \in Stored \ some : Time[m] >= Time[o]
    /\ some # Stored => Cardinality(some) = n}

\* ROOM_HISTORY_REQUEST: the newest rows that are not deleted, some of which may
\* be the system's, are read ...
History(c) ==
    /\ Serving(c) /\ served[c] < requests[c]
    /\ \E n \in 0..notes, some \in SUBSET Stored :
          /\ n <= Limit /\ some \in Newest(Limit - n)
          /\ Then(c, [do |-> "answer", number |-> served[c] + 1, rows |-> some])
    /\ served' = [served EXCEPT ![c] = @ + 1]
    /\ UNCHANGED <<rows, members, wire, bridge, browser, limits, seen>>

\* ... and sent.
HistoryTell(c) ==
    /\ task[c].do = "answer"
    /\ wire' = [wire EXCEPT ![c] =
                  Sent(c, [type |-> "history", number |-> task[c].number, rows |-> task[c].rows])]
    /\ seen' = [seen EXCEPT !.sent[c] = @ \cup task[c].rows, !.answered = @ \cup {c}]
    /\ Then(c, Idle)
    /\ UNCHANGED <<rows, members, served, bridge, browser, limits>>

-----------------------------------------------------------------------------
(* The receiver of the connection in the bridge *)

Received(c) == wire' = [wire EXCEPT ![c] = Tail(@)]

\* _handle_incoming_packet: no request has the id of the packet, and it goes to
\* the queue of events.
ReceiveEvent(c) ==
    /\ wire[c] # <<>> /\ Head(wire[c]) \in Event
    /\ events' = [events EXCEPT ![c] = Append(@, Head(wire[c]))]
    /\ Received(c)
    /\ UNCHANGED <<server, pending, deaf, answer, browser, limits, seen>>

\* A request of the page that happens to have the id of an event takes it for
\* its answer (RequestMatching): the event is gone.  The request may be one for
\* a history, which then waits in vain.
TakenForAnswer(c) ==
    /\ wire[c] # <<>> /\ Head(wire[c]) \in Event /\ page[c] # "out"
    /\ \/ UNCHANGED pending
       \/ \E n \in pending[c] : pending' = [pending EXCEPT ![c] = @ \ {n}]
    /\ LET m == Head(wire[c]).message IN
       seen' = [seen EXCEPT !.lost[c] = @ \cup {m}, !.during[c] = @ \cup {m}]
    /\ Received(c)
    /\ UNCHANGED <<server, deaf, events, answer, browser, limits>>

\* The page waits for the answer of this request.
Awaited(c, n) == page[c] = "waiting" /\ n = requests[c]

\* A history comes to the request that waits for it; nobody looks at one that
\* is late.
ReceiveHistory(c) ==
    /\ wire[c] # <<>> /\ Head(wire[c]).type = "history" /\ Head(wire[c]).number \in pending[c]
    /\ LET h == Head(wire[c]) IN
       /\ pending' = [pending EXCEPT ![c] = @ \ {h.number}]
       /\ answer' = IF Awaited(c, h.number) THEN [answer EXCEPT ![c] = {h.rows}] ELSE answer
    /\ Received(c)
    /\ UNCHANGED <<server, deaf, events, browser, limits, seen>>

\* A history whose request is gone: MockApp has no on_room_history_response,
\* and the AttributeError ends the receiver.  The server is told nothing.
ReceiverEnds(c) ==
    /\ wire[c] # <<>> /\ Head(wire[c]).type = "history" /\ Head(wire[c]).number \notin pending[c]
    /\ deaf' = deaf \cup {c}
    /\ wire' = [wire EXCEPT ![c] = <<>>]
    /\ UNCHANGED <<server, pending, events, answer, browser, limits, seen>>

-----------------------------------------------------------------------------
(* The browser *)

\* joinRoom: currentRoom is set once the bridge has JOIN_ROOM_OK.
Enter(c) ==
    /\ c \in members /\ page[c] = "out"
    /\ page' = [page EXCEPT ![c] = "in"]
    /\ UNCHANGED <<server, wire, bridge, screen, requests, limits, seen>>

\* joinRoom once it has the list of rooms, which empties the page first, or
\* later refreshRoomMessages.  A bridge whose receiver has ended refuses.
RequestHistory(c) ==
    /\ page[c] = "in" /\ c \in bounds.pages \ deaf /\ requests[c] < bounds.requests
    /\ page' = [page EXCEPT ![c] = "waiting"]
    /\ requests' = [requests EXCEPT ![c] = @ + 1]
    /\ pending' = [pending EXCEPT ![c] = @ \cup {requests[c] + 1}]
    /\ screen' = IF requests[c] = 0 THEN [screen EXCEPT ![c] = {}] ELSE screen
    /\ seen' = [seen EXCEPT !.during[c] = {}]
    /\ UNCHANGED <<server, wire, deaf, events, answer, limits>>

\* _sync_request has waited for 5 seconds, and the request fails: the page stays
\* as it is.
GiveUp(c) ==
    /\ page[c] = "waiting" /\ answer[c] = {}
    /\ page' = [page EXCEPT ![c] = "in"]
    /\ UNCHANGED <<server, wire, bridge, screen, requests, limits, seen>>

\* A variant with a bug: the element that was appended last is removed.
ApplyRemovesLive(c, p) ==
    IF p.type = "gone" THEN screen[c] \ {<<p.message, "live">>}
    ELSE IF page[c] = "out" THEN screen[c]
    ELSE screen[c] \cup {<<p.message, "live">>}

\* The element of a message a ROOM_DELETE_FILE_BROADCAST removes: the first
\* with its message_id, which only the one of the history has.
Apply(c, p) ==
    IF p.type = "gone" THEN screen[c] \ {<<p.message, "history">>}
    ELSE IF page[c] = "out" THEN screen[c]
    ELSE screen[c] \cup {<<p.message, "live">>}

\* handleEvent.
HandleEvent(c) ==
    /\ events[c] # <<>>
    /\ screen' = [screen EXCEPT ![c] = Apply(c, Head(events[c]))]
    /\ events' = [events EXCEPT ![c] = Tail(@)]
    /\ seen' = IF page[c] = "waiting"
               THEN [seen EXCEPT !.during[c] = @ \cup {Head(events[c]).message}] ELSE seen
    /\ UNCHANGED <<server, wire, pending, deaf, answer, page, requests, limits>>

\* The history replaces whatever the page shows.
ShowHistory(c) ==
    /\ \E some \in answer[c] : screen' = [screen EXCEPT ![c] = some \X {"history"}]
    /\ answer' = [answer EXCEPT ![c] = {}]
    /\ page' = [page EXCEPT ![c] = "in"]
    /\ seen' = [seen EXCEPT !.lost[c] = seen.during[c], !.rendered = @ \cup {c}]
    /\ UNCHANGED <<server, wire, pending, deaf, events, requests, limits>>

-----------------------------------------------------------------------------
Handler(c) ==
    \/ PostTell(c) \/ DeleteMark(c) \/ DeleteTell(c) \/ ReactCount(c) \/ ReactTell(c)
    \/ History(c) \/ HistoryTell(c)
    \/ \E m \in Messages : Post(c, m) \/ React(c, m)
    \/ \E k \in Cards : DeleteFile(c, k)

Receiver(c) == ReceiveEvent(c) \/ TakenForAnswer(c) \/ ReceiveHistory(c) \/ ReceiverEnds(c)

Browser(c) == Enter(c) \/ RequestHistory(c) \/ GiveUp(c) \/ HandleEvent(c) \/ ShowHistory(c)

Next == \E c \in Clients : Join(c) \/ Handler(c) \/ Receiver(c) \/ Browser(c)

Spec == Init /\ [][Next]_vars

-----------------------------------------------------------------------------
(* Safety *)

\* Enough other rows were stored that are not older than m, or that the system
\* wrote, to leave a history no room for m.
Crowded(m) ==
    \E n \in 0..notes, newer \in SUBSET {o \in Messages \ {m} : table[o] # "none" /\ Time[o] >= Time[m]} :
        n <= Limit /\ Cardinality(newer) = Limit - n

\* A client that has been sent a history has been sent every message of the
\* room that is not deleted, in that history or by a broadcast, but for those
\* some handler has stored and not told of yet and those the limit of a history
\* may have cut off: nobody falls into the gap between what was stored before
\* the join and what is broadcast after it.  The variables have their types.
NothingMissed ==
    /\ TypeOK
    /\ \A c \in seen.answered, m \in Stored :
          m \in seen.sent[c] \/ Under({"tell"}, m) \/ Crowded(m)

\* Once a deletion has named a card and been broadcast, every client that was
\* sent the card has been told, whether it had the card from a history read just
\* before or from the broadcast; unless the card was deleted before it was
\* broadcast.
DeletionReachesAll ==
    \A m \in Cards \ seen.early, c \in Clients :
        /\ table[m] = "deleted" /\ ~Under({"forget"}, m)
        /\ \E d \in Clients : m \in seen.gone[d]
        /\ m \in seen.sent[c]
        => m \in seen.gone[c]

\* The reactions the room was told of last are those in the table, once no
\* handler is at work on them and if the last change overlapped with no other.
ReactionsAgree ==
    \A m \in Messages \ seen.raced :
        ~Under({"count", "react"}, m) => seen.shown[m] = reactions[m]

\* What a page that has shown a history shows when nothing is on its way to it,
\* whatever requests for a history have failed or been answered late since: every
\* message that is not deleted, unless the limit may have cut it off, and no card
\* from the history whose deletion was broadcast.  Excepted are the messages
\* whose event the page handled while it waited for the history it shows, or that
\* was taken for an answer, and pages whose receiver has ended.
PageIsCurrent ==
    \A c \in seen.rendered \ deaf :
        (wire[c] = <<>> /\ events[c] = <<>> /\ \A d \in Clients : task[d] = Idle) =>
        \A m \in Messages \ seen.lost[c] :
            /\ m \in Stored => Crowded(m) \/ \E from \in {"history", "live"} : <<m, from>> \in screen[c]
            /\ (table[m] = "deleted" /\ m \in seen.gone[c]) => <<m, "history">> \notin screen[c]
=============================================================================
