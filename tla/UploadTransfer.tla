---------------------------- MODULE UploadTransfer ----------------------------
(***************************************************************************)
(* One chunked upload from the browser (uploadFile in web/static/app.js)   *)
(* through the HTTP bridge to the process server (server/main.py): the     *)
(* in-memory progress cache, the flush of its counters to file_transfers,  *)
(* the file on disk, UPLOAD_CHUNK, UPLOAD_FINISH, RESUME_TRANSFER, the     *)
(* timeout of stale transfers and the loss of the cache in a restart.      *)
(*                                                                         *)
(* The server's critical sections are short and atomic here; what happens  *)
(* between two of them interleaves.  A chunk is "on disk" when all of its  *)
(* bytes are; a chunk always carries the same bytes, so that writing it    *)
(* again changes nothing.  Times are the one bit the timeout asks for:     *)
(* older than 120 seconds or not.                                          *)
(***************************************************************************)
EXTENDS Naturals, FiniteSets

CONSTANTS
    Handlers,   \* threads that serve the uploader's room connections
    Flushers,   \* threads of other connections that clean up after themselves
    Runs,       \* invocations of uploadFile for the item (bounds the resumes)
    Total,      \* total_chunks
    Workers,    \* maxConcurrentChunks, 4 in the code
    FlushEvery, \* 20 in the code
    TailFits,   \* the last chunk may fit Python's write buffer
    Fates,      \* what may become of an aborted chunk request
    Env,        \* which of the events below happen
    NoRun, NoRequest

Events == {"pause", "overlap", "giveup", "crash", "timeout", "delete"}

ASSUME UploadAssumption ==
    /\ Total \in Nat \ {0} /\ Workers \in Nat \ {0} /\ FlushEvery \in Nat \ {0}
    /\ TailFits \in BOOLEAN /\ Env \subseteq Events
    /\ Fates \subseteq {"dropped", "late", "cut"} /\ Fates # {}
    /\ IsFiniteSet(Runs) /\ NoRun \notin Runs /\ Handlers \cap Flushers = {}

VARIABLES
    file,     \* files.status
    row,      \* the file_transfers row: status, completed_chunks, and whether
              \* last_activity_at is older than the timeout
    cache,    \* transfer_progress[transfer_id], if it is `here`
    disk,     \* chunks whose bytes the file holds
    buffered, \* chunks whose bytes are still in the handle's buffer
    cards,    \* file messages in room_messages that are not deleted
    pc,       \* where each server thread is
    req,      \* the request a handler serves
    snap,     \* the locals of _flush_transfer_progress
    requests, \* requests on their way to the server
    status,   \* item.status in the browser
    phase,    \* where each invocation of uploadFile is
    start,    \* its startChunk
    next,     \* its currentChunkIndex
    out,      \* chunks whose XMLHttpRequest it awaits
    xhrs      \* the invocation that item.activeXHRs belongs to

store   == <<file, row, cards>>
server  == <<pc, req, snap>>
browser == <<status, phase, start, next, out, xhrs>>
vars    == <<store, cache, disk, buffered, server, requests, browser>>

Chunks  == 0 .. Total - 1
Threads == Handlers \cup Flushers
Active  == {"resume", "send", "finish"}
Ended   == {"done", "failed", "paused", "refused"}

\* whole is FALSE when the browser hung up in the middle of the body.
ChunkRequest == [run : Runs, kind : {"chunk"}, index : Chunks, whole : BOOLEAN]
Request == ChunkRequest \cup [run : Runs, kind : {"resume", "finish"}]

Labels == {"recv", "invalid", "write", "count", "snap", "commit", "clean", "ack", "lookup",
           "verify", "finalize", "forget", "success", "announce", "close"}

NoEntry == [here |-> FALSE, count |-> 0, dirty |-> FALSE, old |-> FALSE]

TypeOK ==
    /\ file \in {"none", "uploading", "available", "deleted"}
    /\ row \in [status : {"none", "in_progress", "completed", "failed"},
                count : Nat, old : BOOLEAN]
    /\ cache \in [here : BOOLEAN, count : Nat, dirty : BOOLEAN, old : BOOLEAN]
    /\ disk \subseteq Chunks /\ buffered \subseteq Chunks
    /\ cards \in Nat
    /\ pc \in [Threads -> Labels]
    /\ req \in [Handlers -> Request \cup {NoRequest}]
    /\ snap \in [Threads -> [count : Nat, old : BOOLEAN]]
    /\ requests \subseteq Request
    /\ status \in {"none", "uploading", "paused", "completed", "failed"}
    /\ phase \in [Runs -> {"idle"} \cup Active \cup Ended]
    /\ start \in [Runs -> Nat] /\ next \in [Runs -> Nat]
    /\ out \in [Runs -> SUBSET Chunks]
    /\ xhrs \in Runs \cup {NoRun}

Init ==
    /\ file = "none"
    /\ row = [status |-> "none", count |-> 0, old |-> FALSE]
    /\ cache = NoEntry
    /\ disk = {} /\ buffered = {}
    /\ cards = 0
    /\ pc = [t \in Threads |-> "recv"]
    /\ req = [h \in Handlers |-> NoRequest]
    /\ snap = [t \in Threads |-> [count |-> 0, old |-> FALSE]]
    /\ requests = {}
    /\ status = "none"
    /\ phase = [r \in Runs |-> "idle"]
    /\ start = [r \in Runs |-> 0] /\ next = [r \in Runs |-> 0]
    /\ out = [r \in Runs |-> {}]
    /\ xhrs = NoRun

-----------------------------------------------------------------------------
(* The browser: UploadQueue *)

Goto(t, label) == pc' = [pc EXCEPT ![t] = label]

\* What is left on the way when r aborts its chunk requests: a request may be
\* gone, it may have been sent whole, or the HTTP server may read the body up
\* to the point where the browser hung up and pass that on.
Aborting(r) == {q \in requests : q.kind = "chunk" /\ q.run = r}
AfterAbort(r, fate) ==
    (requests \ Aborting(r))
    \cup {q \in Aborting(r) : fate[q] = "late"}
    \cup {[q EXCEPT !.whole = FALSE] : q \in {p \in Aborting(r) : fate[p] = "cut"}}

\* The workers have nothing to do before the next event: the turns of their
\* loops follow an answer at once, and no click comes in between.
Settled == \A r \in Runs : phase[r] = "send" =>
    IF next[r] < Total THEN status # "paused" /\ Cardinality(out[r]) = Workers
                       ELSE out[r] # {}

\* The invocation ends: the catch and finally of uploadFile and of process().
RunEnds(r, outcome) ==
    /\ phase' = [phase EXCEPT ![r] = outcome]
    /\ out' = [out EXCEPT ![r] = {}]
    /\ status' = CASE outcome = "done" -> "completed"
                   [] outcome # "done" /\ status = "paused" -> "paused"
                   [] outcome # "done" /\ status # "paused" -> "failed"
    /\ xhrs' = IF phase[r] = "send" THEN NoRun ELSE xhrs
    /\ \E fate \in [Aborting(r) -> Fates] : requests' = AfterAbort(r, fate)
    /\ UNCHANGED <<start, next>>

\* Chunks are sent from index k on.
StartSending(r, k) ==
    /\ phase' = [phase EXCEPT ![r] = "send"]
    /\ start' = [start EXCEPT ![r] = k]
    /\ next' = [next EXCEPT ![r] = k]
    /\ xhrs' = r
    /\ UNCHANGED <<status, out>>

\* A first invocation: UPLOAD_INIT creates the file and the rows.
UploadInit(r) ==
    /\ status = "none"
    /\ file' = "uploading"
    /\ row' = [status |-> "in_progress", count |-> 0, old |-> FALSE]
    /\ status' = "uploading"
    /\ phase' = [phase EXCEPT ![r] = "send"]
    /\ xhrs' = r
    /\ UNCHANGED <<cache, disk, buffered, cards, server, requests, start, next, out>>

\* resume() and process(): a further invocation, which asks the server where to
\* go on.  At most maxConcurrent = 2 invocations run; an "overlap" is a click
\* on resume while the paused invocation still waits for an answer.
ResumeUpload(r) ==
    /\ Settled
    /\ status = "paused" /\ phase[r] = "idle"
    /\ LET running == {s \in Runs : phase[s] \in Active}
       IN  running = {} \/ ("overlap" \in Env /\ Cardinality(running) < 2)
    /\ status' = "uploading"
    /\ phase' = [phase EXCEPT ![r] = "resume"]
    /\ requests' = requests \cup {[run |-> r, kind |-> "resume"]}
    /\ UNCHANGED <<store, cache, disk, buffered, server, start, next, out, xhrs>>

\* One turn of uploadWorker's loop.
SendChunk(r) ==
    /\ phase[r] = "send" /\ status # "paused"
    /\ next[r] < Total /\ Cardinality(out[r]) < Workers
    /\ next' = [next EXCEPT ![r] = @ + 1]
    /\ out' = [out EXCEPT ![r] = @ \cup {next[r]}]
    /\ requests' = requests \cup
         {[run |-> r, kind |-> "chunk", index |-> next[r], whole |-> TRUE]}
    /\ UNCHANGED <<store, cache, disk, buffered, server, status, phase, start, xhrs>>

\* All workers are through.
SendFinish(r) ==
    /\ phase[r] = "send" /\ next[r] >= Total /\ out[r] = {}
    /\ phase' = [phase EXCEPT ![r] = "finish"]
    /\ xhrs' = NoRun
    /\ requests' = requests \cup {[run |-> r, kind |-> "finish"]}
    /\ UNCHANGED <<store, cache, disk, buffered, server, status, start, next, out>>

\* pause(): the requests in item.activeXHRs are aborted, which ends their
\* invocation; an invocation that awaits another answer goes on.
Pause ==
    /\ "pause" \in Env
    /\ Settled
    /\ status = "uploading"
    /\ IF xhrs # NoRun /\ out[xhrs] # {}
       THEN /\ phase' = [phase EXCEPT ![xhrs] = "paused"]
            /\ out' = [out EXCEPT ![xhrs] = {}]
            /\ xhrs' = NoRun
            /\ \E fate \in [Aborting(xhrs) -> Fates] :
                  requests' = AfterAbort(xhrs, fate)
       ELSE UNCHANGED <<phase, out, xhrs, requests>>
    /\ status' = "paused"
    /\ UNCHANGED <<store, cache, disk, buffered, server, start, next>>

\* A worker finds the item paused at the head of its loop.
StopSending(r) ==
    /\ phase[r] = "send" /\ status = "paused"
    /\ next[r] < Total /\ Cardinality(out[r]) < Workers
    /\ RunEnds(r, "paused")
    /\ UNCHANGED <<store, cache, disk, buffered, server>>

\* The bridge has waited too long (5 s, or 30 s for a chunk) and answers 400;
\* the request may be served later.
GiveUp(r) ==
    /\ "giveup" \in Env
    /\ Settled
    /\ \/ phase[r] = "send" /\ out[r] # {} /\ RunEnds(r, "failed")
       \/ phase[r] = "finish" /\ RunEnds(r, "failed")
       \/ phase[r] = "resume" /\ RunEnds(r, "refused")
    /\ UNCHANGED <<store, cache, disk, buffered, server>>

-----------------------------------------------------------------------------
(* Answers.  One for an invocation that does not wait for it any more is    *)
(* ignored.                                                                  *)

Awaited(q) ==
    CASE q.kind = "chunk" -> phase[q.run] = "send" /\ q.index \in out[q.run]
      [] q.kind = "resume" -> phase[q.run] = "resume"
      [] q.kind = "finish" -> phase[q.run] = "finish"

\* The invocation gets an error for request q.
Fail(q) == IF Awaited(q) THEN RunEnds(q.run, IF q.kind = "resume" THEN "refused"
                                                                  ELSE "failed")
                         ELSE UNCHANGED <<browser, requests>>

\* The handler answers with an error and waits for the next request.
AnswerError(h) ==
    /\ Goto(h, "recv")
    /\ req' = [req EXCEPT ![h] = NoRequest]
    /\ Fail(req[h])

-----------------------------------------------------------------------------
(* _flush_transfer_progress, in all threads that call it *)

Flushed(t) == IF t \in Flushers THEN "close"
              ELSE IF req[t].kind = "chunk" THEN "ack"
              ELSE IF req[t].kind = "resume" THEN "lookup" ELSE "verify"

FlushSnapshot(t) ==
    /\ pc[t] = "snap"
    /\ IF cache.here /\ cache.dirty
       THEN /\ snap' = [snap EXCEPT ![t] = [count |-> cache.count, old |-> cache.old]]
            /\ Goto(t, "commit")
       ELSE Goto(t, Flushed(t)) /\ UNCHANGED snap
    /\ UNCHANGED <<store, cache, disk, buffered, req, requests, browser>>

\* A variant with a bug: the commit adds the snapshot to what the row says.
FlushCommitAdds(t) ==
    /\ pc[t] = "commit"
    /\ row' = [row EXCEPT !.count = @ + snap[t].count, !.old = snap[t].old]
    /\ Goto(t, "clean")
    /\ UNCHANGED <<file, cache, disk, buffered, cards, req, snap, requests, browser>>

FlushCommit(t) ==
    /\ pc[t] = "commit"
    /\ row' = [row EXCEPT !.count = snap[t].count, !.old = snap[t].old]
    /\ Goto(t, "clean")
    /\ UNCHANGED <<file, cache, disk, buffered, cards, req, snap, requests, browser>>

FlushClean(t) ==
    /\ pc[t] = "clean"
    /\ cache' = IF cache.here THEN [cache EXCEPT !.dirty = FALSE] ELSE cache
    /\ Goto(t, Flushed(t))
    /\ UNCHANGED <<store, disk, buffered, req, snap, requests, browser>>

\* _flush_all_dirty_transfers, when another connection is cleaned up.
FlushAll(f) ==
    /\ pc[f] = "recv" /\ cache.here
    /\ Goto(f, "snap")
    /\ UNCHANGED <<store, cache, disk, buffered, req, snap, requests, browser>>

FlushAllClose(f) ==
    /\ pc[f] = "close"
    /\ disk' = disk \cup buffered /\ buffered' = {}
    /\ Goto(f, "recv")
    /\ UNCHANGED <<store, cache, req, snap, requests, browser>>

-----------------------------------------------------------------------------
(* UPLOAD_CHUNK *)

Take(h, q, label) ==
    /\ pc[h] = "recv" /\ q \in requests
    /\ req' = [req EXCEPT ![h] = q]
    /\ requests' = requests \ {q}
    /\ Goto(h, label)

\* The cache entry is there, or is read from the rows of a transfer in progress.
ChunkLoad(h, q) ==
    /\ q.kind = "chunk"
    /\ cache.here \/ row.status = "in_progress"
    /\ Take(h, q, "write")
    /\ cache' = IF cache.here THEN cache
                ELSE [here |-> TRUE, count |-> row.count, dirty |-> FALSE, old |-> FALSE]
    /\ UNCHANGED <<store, disk, buffered, snap, browser>>

ChunkInvalid(h, q) ==
    /\ q.kind = "chunk"
    /\ ~cache.here /\ row.status # "in_progress"
    /\ Take(h, q, "invalid")
    /\ UNCHANGED <<store, cache, disk, buffered, snap, browser>>

\* seek and write; seeking first writes out what the buffer holds.
ChunkWrite(h) ==
    /\ pc[h] = "write" /\ cache.here
    /\ LET whole == IF req[h].whole THEN {req[h].index} ELSE {}
           tail == TailFits /\ req[h].index = Total - 1
       IN  /\ disk' = disk \cup buffered \cup (IF tail THEN {} ELSE whole)
           /\ buffered' = IF tail THEN whole \ disk ELSE {}
    /\ Goto(h, "count")
    /\ UNCHANGED <<store, cache, req, snap, requests, browser>>

ChunkCount(h) ==
    /\ pc[h] = "count" /\ cache.here
    /\ cache' = [cache EXCEPT !.count = @ + 1, !.dirty = TRUE, !.old = FALSE]
    /\ LET flush == \/ req[h].index = 0
                    \/ (cache.count + 1) % FlushEvery = 0
                    \/ req[h].index + 1 = Total
       IN  Goto(h, IF flush THEN "snap" ELSE "ack")
    /\ UNCHANGED <<store, disk, buffered, req, snap, requests, browser>>

\* INVALID_PACKET, or INTERNAL_ERROR when the entry went away meanwhile.
ChunkError(h) ==
    /\ pc[h] = "invalid" \/ (pc[h] \in {"write", "count"} /\ ~cache.here)
    /\ AnswerError(h)
    /\ UNCHANGED <<store, cache, disk, buffered, snap>>

\* A variant with a bug: no CHUNK_ACK is sent.
ChunkAckForgotten(h) ==
    /\ pc[h] = "ack"
    /\ Goto(h, "recv")
    /\ req' = [req EXCEPT ![h] = NoRequest]
    /\ UNCHANGED <<store, cache, disk, buffered, snap, requests, browser>>

ChunkAck(h) ==
    /\ pc[h] = "ack"
    /\ Goto(h, "recv")
    /\ req' = [req EXCEPT ![h] = NoRequest]
    /\ out' = IF Awaited(req[h])
              THEN [out EXCEPT ![req[h].run] = @ \ {req[h].index}] ELSE out
    /\ UNCHANGED <<store, cache, disk, buffered, snap, requests,
                   status, phase, start, next, xhrs>>

-----------------------------------------------------------------------------
(* RESUME_TRANSFER and UPLOAD_FINISH *)

Resume(h, q) ==
    /\ q.kind = "resume"
    /\ Take(h, q, "snap")
    /\ UNCHANGED <<store, cache, disk, buffered, snap, browser>>

\* UPLOAD_READY from the row's completed_chunks; INVALID_PACKET unless the
\* transfer is in progress, and the browser starts a new upload.
ResumeReady(h) ==
    /\ pc[h] = "lookup" /\ row.status = "in_progress"
    /\ Goto(h, "recv")
    /\ req' = [req EXCEPT ![h] = NoRequest]
    /\ IF Awaited(req[h]) THEN StartSending(req[h].run, row.count) ELSE UNCHANGED browser
    /\ UNCHANGED <<store, cache, disk, buffered, snap, requests>>

ResumeInvalid(h) ==
    /\ pc[h] = "lookup" /\ row.status # "in_progress"
    /\ AnswerError(h)
    /\ UNCHANGED <<store, cache, disk, buffered, snap>>

\* A variant with a bug: the bridge sends UPLOAD_FINISH until it is answered.
FinishStays(h, q) ==
    /\ pc[h] = "recv" /\ q.kind = "finish"
    /\ req' = [req EXCEPT ![h] = q]
    /\ Goto(h, "snap")
    /\ disk' = disk \cup buffered /\ buffered' = {}
    /\ UNCHANGED <<store, cache, requests, snap, browser>>

\* UPLOAD_FINISH first closes the file, then flushes.
Finish(h, q) ==
    /\ q.kind = "finish"
    /\ Take(h, q, "snap")
    /\ disk' = disk \cup buffered /\ buffered' = {}
    /\ UNCHANGED <<store, cache, snap, browser>>

\* A variant with a bug: as many chunks as there should be will do.
FinishVerifyCounts(h) ==
    /\ pc[h] = "verify"
    /\ IF row.count >= Total
       THEN Goto(h, "finalize") /\ UNCHANGED <<req, requests, browser>>
       ELSE AnswerError(h)
    /\ UNCHANGED <<store, cache, disk, buffered, snap>>

\* A variant with a bug: the count in the row must be exact.
FinishVerifyExact(h) ==
    /\ pc[h] = "verify"
    /\ IF row.count = Total
       THEN Goto(h, "finalize") /\ UNCHANGED <<req, requests, browser>>
       ELSE AnswerError(h)
    /\ UNCHANGED <<store, cache, disk, buffered, snap>>

\* The file's hash is the announced one when every chunk is there.
FinishVerify(h) ==
    /\ pc[h] = "verify"
    /\ IF disk = Chunks
       THEN Goto(h, "finalize") /\ UNCHANGED <<req, requests, browser>>
       ELSE AnswerError(h)          \* CHECKSUM_FAILED
    /\ UNCHANGED <<store, cache, disk, buffered, snap>>

FinishCommit(h) ==
    /\ pc[h] = "finalize"
    /\ file' = "available"
    /\ row' = [row EXCEPT !.status = "completed"]
    /\ Goto(h, "forget")
    /\ UNCHANGED <<cache, disk, buffered, cards, req, snap, requests, browser>>

FinishForget(h) ==
    /\ pc[h] = "forget"
    /\ cache' = NoEntry
    /\ disk' = disk \cup buffered /\ buffered' = {}
    /\ Goto(h, "success")
    /\ UNCHANGED <<store, req, snap, requests, browser>>

FinishSuccess(h) ==
    /\ pc[h] = "success"
    /\ Goto(h, "announce")
    /\ IF Awaited(req[h]) THEN RunEnds(req[h].run, "done") ELSE UNCHANGED <<browser, requests>>
    /\ UNCHANGED <<store, cache, disk, buffered, req, snap>>

\* The file message is stored and broadcast.
FinishAnnounce(h) ==
    /\ pc[h] = "announce"
    /\ cards' = cards + 1
    /\ Goto(h, "recv")
    /\ req' = [req EXCEPT ![h] = NoRequest]
    /\ UNCHANGED <<file, row, cache, disk, buffered, snap, requests, browser>>

-----------------------------------------------------------------------------
(* Other events at the server *)

\* ROOM_DELETE_FILE: the owner deletes a file the room shows.
DeleteFile ==
    /\ "delete" \in Env
    /\ cards > 0
    /\ file' = "deleted" /\ cards' = 0
    /\ UNCHANGED <<row, cache, disk, buffered, server, requests, browser>>

\* Two minutes after the time the row holds; when `all`, nothing has happened
\* since, and every time in use is that old.
Age(all) ==
    /\ "timeout" \in Env
    /\ row.status = "in_progress"
    /\ row' = [row EXCEPT !.old = TRUE]
    /\ cache' = [cache EXCEPT !.old = @ \/ (all /\ cache.here)]
    /\ snap' = [t \in Threads |-> [snap[t] EXCEPT !.old = @ \/ all]]
    /\ UNCHANGED <<file, disk, buffered, cards, pc, req, requests, browser>>

\* A variant with a bug: any stale row is marked.
TransferTimeoutAny ==
    /\ "timeout" \in Env
    /\ row.old
    /\ row' = [row EXCEPT !.status = "failed"]
    /\ UNCHANGED <<file, cache, disk, buffered, cards, server, requests, browser>>

\* _check_transfer_timeouts
TransferTimeout ==
    /\ "timeout" \in Env
    /\ row.status = "in_progress" /\ row.old
    /\ row' = [row EXCEPT !.status = "failed"]
    /\ UNCHANGED <<file, cache, disk, buffered, cards, server, requests, browser>>

\* The process server dies and starts again: the cache and the buffer are lost,
\* the connections are made anew, and what waits for an answer fails.
Crash ==
    /\ "crash" \in Env
    /\ file # "none"
    /\ cache' = NoEntry /\ buffered' = {}
    /\ pc' = [t \in Threads |-> "recv"]
    /\ req' = [h \in Handlers |-> NoRequest]
    /\ requests' = {}
    /\ phase' = [r \in Runs |-> IF phase[r] \in Active THEN "failed" ELSE phase[r]]
    /\ status' = IF status = "uploading" THEN "failed" ELSE status
    /\ out' = [r \in Runs |-> {}] /\ xhrs' = NoRun
    /\ UNCHANGED <<store, disk, snap, start, next>>

-----------------------------------------------------------------------------
(* The specification *)

Serve(h) ==
    \/ \E q \in requests : \/ ChunkLoad(h, q) \/ ChunkInvalid(h, q)
                           \/ Resume(h, q) \/ Finish(h, q)
    \/ ChunkWrite(h) \/ ChunkCount(h) \/ ChunkError(h) \/ ChunkAck(h)
    \/ ResumeReady(h) \/ ResumeInvalid(h)
    \/ FinishVerify(h) \/ FinishCommit(h) \/ FinishForget(h)
    \/ FinishSuccess(h) \/ FinishAnnounce(h)

Flush(t) == FlushSnapshot(t) \/ FlushCommit(t) \/ FlushClean(t)

Upload(r) == SendChunk(r) \/ SendFinish(r) \/ StopSending(r)

User(r) == UploadInit(r) \/ ResumeUpload(r) \/ GiveUp(r)

Incident == Pause \/ DeleteFile \/ (\E all \in BOOLEAN : Age(all))
            \/ TransferTimeout \/ Crash

Next ==
    \/ \E h \in Handlers : Serve(h) \/ Flush(h)
    \/ \E f \in Flushers : FlushAll(f) \/ Flush(f) \/ FlushAllClose(f)
    \/ \E r \in Runs : Upload(r) \/ User(r)
    \/ Incident

Spec == Init /\ [][Next]_vars

(* A thread that can go on goes on, and so does the browser; nothing makes   *)
(* the user click or another connection end.                                 *)
Fairness ==
    /\ \A h \in Handlers : WF_vars(Serve(h) \/ Flush(h))
    /\ \A f \in Flushers : WF_vars(Flush(f) \/ FlushAllClose(f))
    /\ \A r \in Runs : WF_vars(Upload(r))

FairSpec == Spec /\ Fairness

-----------------------------------------------------------------------------
(* Properties *)

(* A file the room can download has all of its chunks on disk, whatever was  *)
(* paused, aborted, repeated, timed out or lost in a crash before            *)
(* (_handle_upload_finish compares the hash before it sets 'available').     *)
AvailableIsComplete == file \in {"available", "deleted"} => disk = Chunks

(* file_transfers never claims more chunks than the server has received in   *)
(* all, however flushes of several threads overlap: the stored count is      *)
(* behind the cached one, never ahead (_flush_transfer_progress).            *)
RowNeverAhead == cache.here => row.count <= cache.count

(* A finished upload stays finished: neither the timeout loop nor a flush    *)
(* that commits late takes back 'completed' (_check_transfer_timeouts,       *)
(* _flush_transfer_progress, _handle_upload_finish).                         *)
CompletedIsFinal == [][row.status = "completed" => row'.status = "completed"]_vars

(* UPLOAD_FINISH takes effect again for a transfer that is completed, but an *)
(* invocation of uploadFile gets the room one card at most, and only when it *)
(* has sent all of its chunks: whatever overlaps, is given up by the bridge, *)
(* paused or cut off by a crash, no request is served twice                  *)
(* (_handle_upload_finish, app.js 107).                                      *)
OneCardEach == cards <= Cardinality({r \in Runs : next[r] >= Total})

(* "Transfer resumes from the last successfully written chunk index"         *)
(* (docs/REQUIREMENTS.md 319): every chunk before the startChunk of an       *)
(* invocation that sends is on disk or in the file's buffer.                 *)
(* _handle_resume_transfer answers the number of chunks received, which is   *)
(* that index for one worker whose aborted requests are gone; a second       *)
(* worker leaves gaps below it.                                              *)
ResumesFromLastWritten ==
    \A r \in Runs : phase[r] = "send" =>
        \A i \in Chunks : i < start[r] => i \in disk \cup buffered

(* Every invocation that starts to send comes to an end, whatever the user   *)
(* clicks meanwhile: no request stays without an answer.                     *)
UploadEnds == \A r \in Runs : phase[r] = "send" ~> phase[r] \in Ended

(* A first invocation that sends without being paused makes the file         *)
(* available, in whatever order the chunks of its workers arrive and with    *)
(* whatever flushes of other threads in between; when it is paused while the *)
(* server verifies the file already, it goes on and does so as well.         *)
UploadSucceeds == \A r \in Runs :
    phase[r] = "send" /\ status = "uploading" /\ (\A s \in Runs \ {r} : phase[s] = "idle")
        ~> \/ file = "available" /\ phase[r] = "done"
           \/ phase[r] = "paused"

=============================================================================
