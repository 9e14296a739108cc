---------------------------- MODULE FileDownload ----------------------------
(***************************************************************************)
(* A download of a file: the process server answers DOWNLOAD_REQUEST and   *)
(* pushes the chunks from a thread of its own (server/main.py 1057-1170),  *)
(* the receiver of the bridge hands them to session.app.active_downloader, *)
(* and the HTTP thread that sets it waits until they are all streamed to   *)
(* the browser (web/api/routes.py 421-481).  The connection, the other     *)
(* threads of the session and what else the server sends are those of      *)
(* RequestMatching.                                                        *)
(*                                                                         *)
(* The pusher and the handler of the connection write to one socket        *)
(* without a lock, and a chunk is too large to be written at once: it is   *)
(* "half" there until its last byte is written, and "torn" when another    *)
(* packet got in between.  The receiver takes the bytes it finds for the   *)
(* chunk and garbage for the next header.                                  *)
(***************************************************************************)
EXTENDS RequestMatching

CONSTANTS
    Downloader, \* the HTTP thread that downloads, once
    Total,      \* number of chunks of the file
    NoThread

ASSUME DownloaderAssumption == /\ Downloader \in Threads \ Requesters
                               /\ NoThread \notin Threads
ASSUME TotalAssumption == Total \in Nat

VARIABLES
    pusher,            \* _push_download_chunks: idle, head, tail or done
    next_chunk,        \* its loop index
    active_downloader, \* session.app.active_downloader
    expected_chunk,    \* of the StreamDownloader
    error_occurred, ev,
    chunk,             \* the chunk the receiver is handling
    streamed,          \* what the browser has got: the chunks, in order
    result             \* how the response ended: open, finished, cut

stream == <<active_downloader, expected_chunk, error_occurred, ev, chunk, streamed, result>>
push   == <<pusher, next_chunk>>
vars   == <<rvars, push, stream>>

Chunk   == [id : Ids, type : {"chunk"}, index : 0..Total, bytes : {"half", "torn", "whole"}]
Plain   == [id : Ids, type : PlainTypes]
Garbage == [id |-> NoId, type |-> "garbage"]

ASSUME PacketAssumption == NoPacket \notin Plain \cup Chunk

Init ==
    /\ RInit
    /\ pusher = "idle" /\ next_chunk = 0
    /\ active_downloader = NoThread
    /\ expected_chunk = 0 /\ error_occurred = FALSE /\ ev = FALSE
    /\ chunk = NoPacket
    /\ streamed = <<>>
    /\ result = "open"

TypeOK ==
    /\ running \in BOOLEAN /\ sock \in {"open", "closed"} /\ peer \in {"open", "closed"}
    /\ rx \in {"loop", "check", "write", "ended"}
    /\ next_id \in 1..(MaxId + 1)
    /\ pending_requests \subseteq 1..(next_id - 1)
    /\ toServer \in Seq([id : Ids, kind : Kinds])
    /\ toClient \in Seq(Plain \cup Chunk \cup {Garbage})
    /\ pushed \in 0..MaxPush
    /\ pc \in [Threads -> {"idle", "register", "send", "wait", "ready", "stream"}]
    /\ kind \in [Threads -> Kinds]
    /\ req_id \in [Threads -> Ids \cup {NoId}]
    /\ header \in [Threads -> Plain \cup Chunk \cup {NoPacket}]
    /\ pusher \in {"idle", "head", "tail", "done"} /\ next_chunk \in 0..Total
    /\ active_downloader \in {Downloader, NoThread}
    /\ expected_chunk \in 0..Total /\ error_occurred \in BOOLEAN /\ ev \in BOOLEAN
    /\ chunk \in Chunk \cup {NoPacket}
    /\ streamed \in Seq(Chunk)
    /\ result \in {"open", "finished", "cut"}

-----------------------------------------------------------------------------
(* The server *)

\* DOWNLOAD_REQUEST: the file is not available, or the answer is sent and the
\* pusher started.
ServeDownload ==
    /\ peer = "open" /\ toServer # <<>> /\ Head(toServer).kind = "download"
    /\ toServer' = Tail(toServer)
    /\ \/ /\ toClient' = Append(toClient, [id |-> Head(toServer).id, type |-> "refusal"])
          /\ UNCHANGED pusher
       \/ /\ toClient' = Append(toClient, [id |-> Head(toServer).id, type |-> "answer"])
          /\ pusher' = "head"
    /\ UNCHANGED <<conn, next_id, pending_requests, threads, next_chunk, stream>>

\* One turn of the loop: the header and some of the bytes, numbered by the
\* server's own counter ...
PushHead(i) ==
    /\ pusher = "head" /\ next_chunk < Total /\ peer = "open"
    /\ toClient' = Append(toClient, [id |-> i, type |-> "chunk", index |-> next_chunk,
                                     bytes |-> "half"])
    /\ pusher' = "tail"
    /\ UNCHANGED <<conn, next_id, pending_requests, toServer, threads, next_chunk, stream>>

\* ... and the rest of them.
PushTail ==
    /\ pusher = "tail" /\ peer = "open"
    /\ LET last == Len(toClient)
           Half(n) == toClient[n].type = "chunk" /\ toClient[n].bytes = "half"
       IN toClient' = [n \in DOMAIN toClient |->
                          IF Half(n)
                          THEN [toClient[n] EXCEPT !.bytes = IF n = last THEN "whole" ELSE "torn"]
                          ELSE toClient[n]]
    /\ pusher' = "head"
    /\ next_chunk' = next_chunk + 1
    /\ UNCHANGED <<conn, next_id, pending_requests, toServer, threads, stream>>

\* The loop is over, or the socket is closed.
PushDone ==
    /\ \/ pusher = "head" /\ next_chunk = Total
       \/ pusher \in {"head", "tail"} /\ peer = "closed"
    /\ pusher' = "done"
    /\ UNCHANGED <<rvars, next_chunk, stream>>

-----------------------------------------------------------------------------
(* The receiver *)

\* receive_packet: a torn chunk has swallowed the beginning of what follows.
TakeChunk ==
    /\ rx = "loop" /\ toClient # <<>>
    /\ Head(toClient).type = "chunk" /\ Head(toClient).bytes # "half"
    /\ toClient' = IF Head(toClient).bytes = "torn" THEN <<Garbage>> \o Tail(toClient)
                                                    ELSE Tail(toClient)

\* A chunk whose id has a callback is taken for the answer to that request.
ReceiveChunkMatched ==
    /\ TakeChunk
    /\ Deliver(Head(toClient).id, Head(toClient))
    /\ LoopOn
    /\ UNCHANGED <<sock, peer, pushed, next_id, toServer, pc, kind, req_id, push, stream>>

\* Any other chunk is for the active downloader, and dropped without one.
ReceiveChunk ==
    /\ TakeChunk
    /\ Head(toClient).id \notin pending_requests
    /\ IF active_downloader = NoThread
       THEN LoopOn /\ UNCHANGED chunk
       ELSE rx' = "check" /\ chunk' = Head(toClient) /\ UNCHANGED running
    /\ UNCHANGED <<sock, peer, pushed, next_id, pending_requests, toServer, threads, push,
                   active_downloader, expected_chunk, error_occurred, ev, streamed, result>>

\* active_downloader is read a second time, to be used.
UseDownloader ==
    /\ rx = "check"
    /\ IF active_downloader = NoThread
       THEN LoopEnd /\ chunk' = NoPacket
       ELSE rx' = "write" /\ UNCHANGED <<chunk, running>>
    /\ UNCHANGED <<sock, peer, pushed, next_id, pending_requests, toServer, toClient, threads,
                   push, active_downloader, expected_chunk, error_occurred, ev, streamed, result>>

\* A variant with a bug: the index of the chunk tells the last one.
StreamedByIndex ==
    /\ streamed' = Append(streamed, chunk)
    /\ expected_chunk' = expected_chunk + 1
    /\ ev' = (chunk.index + 1 >= Total \/ ev)
    /\ UNCHANGED error_occurred

\* handle_chunk: the browser gets the chunk, and the chunks are counted.
Streamed ==
    /\ streamed' = Append(streamed, chunk)
    /\ expected_chunk' = expected_chunk + 1
    /\ ev' = (expected_chunk + 1 >= Total \/ ev)
    /\ UNCHANGED error_occurred

StreamFails ==
    /\ error_occurred' = TRUE /\ ev' = TRUE
    /\ UNCHANGED <<streamed, expected_chunk>>

WriteChunk ==
    /\ rx = "write"
    /\ chunk' = NoPacket
    /\ IF error_occurred THEN UNCHANGED <<streamed, expected_chunk, ev, error_occurred>>
                         ELSE Streamed \/ StreamFails
    /\ LoopOn
    /\ UNCHANGED <<sock, peer, pushed, next_id, pending_requests, toServer, toClient, threads,
                   push, active_downloader, result>>

\* Garbage is no packet, and half a chunk is all that will ever come.
ReceiveBroken ==
    /\ rx = "loop" /\ toClient # <<>>
    /\ \/ Head(toClient).type = "garbage"
       \/ /\ Head(toClient).type = "chunk" /\ Head(toClient).bytes = "half"
          /\ peer = "closed"
    /\ LoopEnd
    /\ UNCHANGED <<sock, peer, pushed, next_id, pending_requests, toServer, toClient, threads,
                   push, stream>>

-----------------------------------------------------------------------------
(* The HTTP thread *)

\* The route is called: a thread downloads once, so `kind` tells a new one.
BeginDownload ==
    /\ kind[Downloader] # "download"
    /\ Begin(Downloader, "download")
    /\ UNCHANGED <<push, stream>>

\* The answer is no DOWNLOAD_READY, ...
NotReady ==
    /\ pc[Downloader] = "wait" /\ header[Downloader] # NoPacket
    /\ header[Downloader].type # "answer"
    /\ Leave(Downloader)
    /\ result' = "cut"
    /\ UNCHANGED <<conn, next_id, pending_requests, toServer, toClient, push, active_downloader,
                   expected_chunk, error_occurred, ev, chunk, streamed>>

\* ... or the headers of the response are sent, which may fail,
Ready ==
    /\ pc[Downloader] = "wait" /\ header[Downloader] # NoPacket
    /\ header[Downloader].type = "answer"
    /\ \/ Goto(Downloader, "ready") /\ UNCHANGED <<kind, req_id, header, result>>
       \/ Leave(Downloader) /\ result' = "cut"
    /\ UNCHANGED <<conn, next_id, pending_requests, toServer, toClient, push, active_downloader,
                   expected_chunk, error_occurred, ev, chunk, streamed>>

\* and only then chunks have somebody to go to.
SetDownloader ==
    /\ pc[Downloader] = "ready"
    /\ Goto(Downloader, "stream")
    /\ active_downloader' = Downloader
    /\ UNCHANGED <<conn, next_id, pending_requests, toServer, toClient, kind, req_id, header,
                   push, expected_chunk, error_occurred, ev, chunk, streamed, result>>

\* A variant with a bug: the downloader is left in its place.
EndStreamKeepsDownloader ==
    /\ Leave(Downloader)
    /\ UNCHANGED active_downloader
    /\ result' = IF error_occurred THEN "cut" ELSE "finished"

\* ev.wait returns, because of ev or after 300 seconds; the response gets its
\* terminator unless a chunk could not be sent.
EndStream ==
    /\ Leave(Downloader)
    /\ active_downloader' = NoThread
    /\ result' = IF error_occurred THEN "cut" ELSE "finished"

StreamDone ==
    /\ pc[Downloader] = "stream" /\ ev
    /\ EndStream
    /\ UNCHANGED <<conn, next_id, pending_requests, toServer, toClient, push,
                   expected_chunk, error_occurred, ev, chunk, streamed>>

StreamTimeout ==
    /\ pc[Downloader] = "stream" /\ ~ev
    /\ EndStream
    /\ UNCHANGED <<conn, next_id, pending_requests, toServer, toClient, push,
                   expected_chunk, error_occurred, ev, chunk, streamed>>

-----------------------------------------------------------------------------
PusherStep   == PushTail \/ PushDone \/ \E i \in PushIds : PushHead(i)
ReceiveStep  == \/ ReceiverStep /\ UNCHANGED <<push, stream>>
                \/ ReceiveChunkMatched \/ ReceiveChunk \/ UseDownloader \/ WriteChunk
                \/ ReceiveBroken
DownloadStep == NotReady \/ Ready \/ SetDownloader \/ StreamDone

Next ==
    \/ RNext /\ UNCHANGED <<push, stream>>
    \/ BeginDownload \/ DownloadStep \/ StreamTimeout
    \/ ServeDownload \/ PusherStep
    \/ ReceiveChunkMatched \/ ReceiveChunk \/ UseDownloader \/ WriteChunk \/ ReceiveBroken

Spec == Init /\ [][Next]_vars

\* Threads go on; no thread has to time out, and nobody has to send, push,
\* close or disconnect.
FairSpec ==
    /\ Spec
    /\ \A t \in Threads : WF_vars(ThreadStep(t) /\ UNCHANGED <<push, stream>>)
    /\ WF_vars(DownloadStep)
    /\ WF_vars(Serve /\ UNCHANGED <<push, stream>>) /\ WF_vars(ServeDownload)
    /\ WF_vars(PusherStep)
    /\ WF_vars(ReceiveStep)

-----------------------------------------------------------------------------
(* Properties *)

Indices == [n \in DOMAIN streamed |-> streamed[n].index]

\* What the browser gets is in order and without repetition, and a response
\* that is ended because all chunks were counted has every one of them: the
\* count of handle_chunk (routes.py:464) stands for the set, whatever was
\* dropped before the downloader was set, taken for another request's answer
\* or lost with the connection.
StreamedInOrder ==
    /\ \A m, n \in DOMAIN streamed : m < n => Indices[m] < Indices[n]
    /\ ev /\ ~error_occurred => Len(streamed) = Total

\* A downloader that chunks are handed to has a thread that waits for it, so
\* no chunk is written to a response that is over, but for one the receiver
\* had in its hands (routes.py:470-472, room_connection.py:98-102); the
\* variables have their types.
DownloaderWaits ==
    /\ TypeOK
    /\ active_downloader # NoThread => pc[Downloader] = "stream"
    /\ rx = "write" /\ result # "open" => active_downloader = NoThread
=============================================================================
