--------------------------- MODULE RequestMatching ---------------------------
(***************************************************************************)
(* One TCP connection of the bridge (client/room_connection.py and         *)
(* client/gateway_connection.py, which differ in a write lock only) with   *)
(* the HTTP threads that send requests over it (_sync_request and the      *)
(* chunk upload of web/api/routes.py) and its receiver thread.  Answers    *)
(* are matched to requests by request id; packets a server pushes carry    *)
(* ids of its own counter, or of another client's request, and share the   *)
(* one table pending_requests with the answers.                            *)
(*                                                                         *)
(* The server is modelled by what the client can see of it: it answers the *)
(* requests of a connection in order and pushes packets at any time.       *)
(***************************************************************************)
EXTENDS Naturals, Sequences, FiniteSets

CONSTANTS
    Threads,    \* HTTP threads of one web session
    Requesters, \* those of them that send sync and raw requests
    MaxId,      \* bound: requests the session numbers
    MaxPush,    \* bound: packets the server pushes
    PushIds,    \* the ids that what it pushes may have
    NoId, NoPacket

Ids == 1..MaxId

\* sync: through send_request; raw: an upload chunk, written by the route
\* itself; download: a sync request whose answer is followed by chunks (see
\* FileDownload).
Kinds == {"sync", "raw", "download"}

\* All packets but the chunks of a download.
PlainTypes == {"answer", "refusal", "event"}

ASSUME RequestersAssumption == Requesters \subseteq Threads
ASSUME BoundsAssumption == MaxId \in Nat /\ MaxPush \in Nat
ASSUME PushIdsAssumption == PushIds \subseteq Ids
ASSUME NullsAssumption == NoId \notin Ids

VARIABLES
    running,           \* the connection's flag
    sock,              \* the client's socket: open, or closed by disconnect()
    peer,              \* the server's end of it
    rx,                \* the receiver: loop, handle (inside a chunk) or ended
    next_id,           \* _request_counter of the bridge
    pending_requests,  \* the ids that have a callback
    toServer, toClient,
    pushed,            \* packets pushed so far
    pc, kind, req_id,  \* per thread: where it is, and its request
    header             \* res_container["header"], set by the callback

conn    == <<running, sock, peer, rx, pushed>>
threads == <<pc, kind, req_id, header>>
rvars   == <<conn, next_id, pending_requests, toServer, toClient, threads>>

Broken == ~running \/ sock = "closed" \/ peer = "closed" \/ rx = "ended"

RInit ==
    /\ running = TRUE /\ sock = "open" /\ peer = "open" /\ rx = "loop"
    /\ next_id = 1
    /\ pending_requests = {}
    /\ toServer = <<>> /\ toClient = <<>>
    /\ pushed = 0
    /\ pc = [t \in Threads |-> "idle"]
    /\ kind = [t \in Threads |-> "sync"]
    /\ req_id = [t \in Threads |-> NoId]
    /\ header = [t \in Threads |-> NoPacket]

-----------------------------------------------------------------------------
(* The HTTP threads *)

Goto(t, label) == pc' = [pc EXCEPT ![t] = label]

\* The thread is done with its request; its callback, if still registered,
\* writes to a container nobody looks at.
Leave(t) ==
    /\ Goto(t, "idle")
    /\ req_id' = [req_id EXCEPT ![t] = NoId]
    /\ header' = [header EXCEPT ![t] = NoPacket]
    /\ UNCHANGED kind

\* build_packet takes the next id.  send_request refuses when the connection
\* is known to be down, a chunk is tried all the same.
Begin(t, k) ==
    /\ pc[t] = "idle" /\ next_id <= MaxId
    /\ k # "raw" => running
    /\ Goto(t, "register")
    /\ kind' = [kind EXCEPT ![t] = k]
    /\ req_id' = [req_id EXCEPT ![t] = next_id]
    /\ next_id' = next_id + 1
    /\ UNCHANGED <<conn, pending_requests, toServer, toClient, header>>


\* A variant with a bug: the connection has room for one callback.
RegisterOneSlot(t) ==
    /\ pc[t] = "register"
    /\ pending_requests' = {req_id[t]}
    /\ Goto(t, "send")
    /\ UNCHANGED <<conn, next_id, toServer, toClient, kind, req_id, header>>

\* The callback is registered under the connection's lock ...
Register(t) ==
    /\ pc[t] = "register"
    /\ pending_requests' = pending_requests \cup {req_id[t]}
    /\ Goto(t, "send")
    /\ UNCHANGED <<conn, next_id, toServer, toClient, kind, req_id, header>>

\* ... before the packet is written.  A server that has closed its end may
\* still be written to once.
Send(t) ==
    /\ pc[t] = "send" /\ sock = "open"
    /\ toServer' = Append(toServer, [id |-> req_id[t], kind |-> kind[t]])
    /\ Goto(t, "wait")
    /\ UNCHANGED <<conn, next_id, pending_requests, toClient, kind, req_id, header>>

\* The write raises: send_request takes the callback out again and marks the
\* connection down, a chunk upload does neither.
SendFails(t) ==
    /\ pc[t] = "send" /\ (sock = "closed" \/ peer = "closed")
    /\ IF kind[t] = "raw"
       THEN UNCHANGED <<pending_requests, running>>
       ELSE /\ pending_requests' = pending_requests \ {req_id[t]}
            /\ running' = FALSE
    /\ Leave(t)
    /\ UNCHANGED <<sock, peer, rx, pushed, next_id, toServer, toClient>>

\* ev.wait returns; what the callback stored is the answer.
Return(t) ==
    /\ pc[t] = "wait" /\ header[t] # NoPacket /\ kind[t] # "download"
    /\ Leave(t)
    /\ UNCHANGED <<conn, next_id, pending_requests, toServer, toClient>>

\* After 5 seconds (30 for a chunk) the thread gives up.  The entry stays.
Timeout(t) ==
    /\ pc[t] = "wait" /\ header[t] = NoPacket
    /\ Leave(t)
    /\ UNCHANGED <<conn, next_id, pending_requests, toServer, toClient>>

\* disconnect(), from a join or leave request of the session.
Disconnect ==
    /\ sock = "open"
    /\ sock' = "closed" /\ running' = FALSE
    /\ UNCHANGED <<peer, rx, pushed, next_id, pending_requests, toServer, toClient, threads>>

-----------------------------------------------------------------------------
(* The server's end *)

\* The handler thread answers the oldest request.
Serve ==
    /\ peer = "open" /\ toServer # <<>> /\ Head(toServer).kind # "download"
    /\ toServer' = Tail(toServer)
    /\ toClient' = Append(toClient, [id |-> Head(toServer).id, type |-> "answer"])
    /\ UNCHANGED <<conn, next_id, pending_requests, threads>>

\* A broadcast, a system event or a private message, numbered by the server's
\* own counter or with the id of the request of another client.
Push(i) ==
    /\ peer = "open" /\ pushed < MaxPush
    /\ toClient' = Append(toClient, [id |-> i, type |-> "event"])
    /\ pushed' = pushed + 1
    /\ UNCHANGED <<running, sock, peer, rx, next_id, pending_requests, toServer, threads>>

\* The server stops, kicks the client, or sees the end of the connection: the
\* client's socket is really closed once the receiver is out of recv().
ServerClose ==
    /\ peer = "open"
    /\ peer' = "closed"
    /\ UNCHANGED <<running, sock, rx, pushed, next_id, pending_requests, toServer,
                   toClient, threads>>

-----------------------------------------------------------------------------
(* The receiver: _receive_loop and _handle_incoming_packet *)


\* A variant with a bug: the callback is looked up but not called.
DeliverNothing(id, p) ==
    /\ id \in pending_requests
    /\ pending_requests' = pending_requests \ {id}
    /\ header' = header

\* A packet whose id has a callback goes to the thread that waits for it, or
\* to nobody when that thread has given up, and the entry is removed.
Deliver(id, p) ==
    /\ id \in pending_requests
    /\ pending_requests' = pending_requests \ {id}
    /\ header' = [t \in Threads |-> IF req_id[t] = id /\ pc[t] \in {"send", "wait"}
                                    THEN p ELSE header[t]]

\* The loop goes on while `running`; its end marks the connection down and
\* leaves the socket open.
LoopOn  == rx' = (IF running THEN "loop" ELSE "ended") /\ UNCHANGED running
LoopEnd == rx' = "ended" /\ running' = FALSE

ReceiveMatched ==
    /\ rx = "loop" /\ toClient # <<>> /\ Head(toClient).type \in PlainTypes
    /\ Deliver(Head(toClient).id, Head(toClient))
    /\ toClient' = Tail(toClient)
    /\ LoopOn
    /\ UNCHANGED <<sock, peer, pushed, next_id, toServer, pc, kind, req_id>>

\* Without a callback an event goes to the event queue, and an answer (to a
\* request whose callback a pushed packet has taken) is ignored, or raises when
\* it is a history, which the bridge has no handler for.
ReceiveUnmatched ==
    /\ rx = "loop" /\ toClient # <<>> /\ Head(toClient).type \in PlainTypes
    /\ Head(toClient).id \notin pending_requests
    /\ toClient' = Tail(toClient)
    /\ \/ LoopOn
       \/ Head(toClient).type = "answer" /\ LoopEnd
    /\ UNCHANGED <<sock, peer, pushed, next_id, pending_requests, toServer, threads>>

\* The connection is at its end, or the loop sees that it is no longer running.
\* A receiver that is inside recv() when disconnect() closes the socket is not
\* woken: it may first read one more packet.
ReceiveEnd ==
    /\ rx = "loop"
    /\ ~running \/ (peer = "closed" /\ toClient = <<>>)
    /\ LoopEnd
    /\ UNCHANGED <<sock, peer, pushed, next_id, pending_requests, toServer, toClient, threads>>

-----------------------------------------------------------------------------
ThreadStep(t) == Register(t) \/ Send(t) \/ SendFails(t) \/ Return(t)
ServerStep    == Serve \/ ServerClose \/ \E i \in PushIds : Push(i)
ReceiverStep  == ReceiveMatched \/ ReceiveUnmatched \/ ReceiveEnd

RNext ==
    \/ \E t \in Threads : ThreadStep(t) \/ Timeout(t)
    \/ \E t \in Requesters : Begin(t, "sync") \/ Begin(t, "raw")
    \/ Disconnect
    \/ ServerStep
    \/ ReceiverStep

-----------------------------------------------------------------------------
(* Properties *)

\* A thread that waits does not wait in vain while the connection is up: its
\* callback is registered, and its request or the answer to it is under way.
\* The order in which a request is registered and sent, and the removal of
\* callbacks by answers, pushed packets and failed sends, keep it, even when
\* pushed packets carry the ids of requests (send_request, routes.py:309).
WaitsForSomething ==
    \A t \in Threads :
        pc[t] = "wait" /\ header[t] = NoPacket /\ ~Broken =>
            /\ req_id[t] \in pending_requests
            /\ \/ \E n \in DOMAIN toServer : toServer[n].id = req_id[t]
               \/ \E n \in DOMAIN toClient : /\ toClient[n].id = req_id[t]
                                             /\ toClient[n].type # "event"

\* Under a fair receiver, server and threads a request that was sent gets its
\* packet without the help of the timeout, unless the connection breaks.
AnsweredInTime ==
    \A t \in Threads : pc[t] = "wait" ~> (pc[t] # "wait" \/ Broken)
=============================================================================
