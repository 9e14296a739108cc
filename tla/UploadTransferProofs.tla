------------------------ MODULE UploadTransferProofs ------------------------
(***************************************************************************)
(* Proofs about UploadTransfer for any number of connections, workers,     *)
(* chunks and invocations of uploadFile, and whatever happens of what Env  *)
(* names: type correctness, AvailableIsComplete, RowNeverAhead,            *)
(* CompletedIsFinal and OneCardEach.                                       *)
(***************************************************************************)
EXTENDS UploadTransfer, FiniteSetTheorems, TLAPS

(* Nothing has happened before the first UPLOAD_INIT.                        *)
FreshInv ==
    status = "none" =>
        /\ ~cache.here /\ requests = {} /\ row.status = "none"
        /\ \A t \in Threads : pc[t] = "recv"
        /\ \A r \in Runs : phase[r] = "idle"

(* Whoever has compared the hash, and whatever that led to, the file is      *)
(* complete.                                                                 *)
Verified == \E h \in Handlers : pc[h] \in {"finalize", "forget", "success", "announce"}
CompleteInv ==
    Verified \/ cards > 0 \/ file \in {"available", "deleted"} => disk = Chunks

(* The entry is only forgotten when the row is final, so that no flush is    *)
(* on its way with a count of an earlier entry when a new one is read.       *)
ForgetInv == \A h \in Handlers : pc[h] = "forget" => row.status # "in_progress"
ReloadInv == ~cache.here /\ row.status = "in_progress" =>
                \A t \in Threads : pc[t] # "commit"
SnapInv == cache.here => \A t \in Threads : pc[t] = "commit" => snap[t].count <= cache.count

(* What a handler is about agrees with where it is.                          *)
ServesInv == \A h \in Handlers :
    /\ pc[h] # "close"
    /\ pc[h] # "recv" => req[h] \in Request
    /\ pc[h] \in {"invalid", "write", "count", "ack"} => req[h].kind = "chunk"
    /\ pc[h] = "lookup" => req[h].kind = "resume"
    /\ pc[h] \in {"verify", "finalize", "forget", "success", "announce"}
         => req[h].kind = "finish"

IInv == /\ TypeOK /\ ServesInv /\ FreshInv /\ CompleteInv
        /\ ForgetInv /\ ReloadInv /\ SnapInv /\ RowNeverAhead

-----------------------------------------------------------------------------
(* A chunk request is told from the others by its kind.                      *)
LEMMA RequestKinds ==
    ASSUME NEW q \in Request
    PROVE  /\ q.run \in Runs
           /\ q.kind \in {"chunk", "resume", "finish"}
           /\ q.kind = "chunk" => q \in ChunkRequest /\ q.index \in Chunks /\ q.whole \in BOOLEAN
BY DEF Request, ChunkRequest

(* What remains of the aborted requests are requests.                        *)
LEMMA AbortType ==
    ASSUME TypeOK, NEW r \in Runs, NEW fate
    PROVE  AfterAbort(r, fate) \subseteq Request
<1>1. \A q \in Aborting(r) : [q EXCEPT !.whole = FALSE] \in ChunkRequest
  <2> SUFFICES ASSUME NEW q \in Aborting(r)
               PROVE  [q EXCEPT !.whole = FALSE] \in ChunkRequest
    OBVIOUS
  <2>1. q \in ChunkRequest
    BY RequestKinds DEF TypeOK, Aborting
  <2>2. QED
    BY <2>1 DEF ChunkRequest
<1>2. requests \subseteq Request /\ Aborting(r) \subseteq Request
  BY DEF TypeOK, Aborting
<1>3. QED
  BY <1>1, <1>2 DEF AfterAbort, Request

BrowserOK == /\ requests \subseteq Request
             /\ status \in {"none", "uploading", "paused", "completed", "failed"}
             /\ phase \in [Runs -> {"idle"} \cup Active \cup Ended]
             /\ start \in [Runs -> Nat] /\ next \in [Runs -> Nat]
             /\ out \in [Runs -> SUBSET Chunks]
             /\ xhrs \in Runs \cup {NoRun}

(* An invocation that ends leaves the browser typed, and no upload fresh.    *)
LEMMA EndsFacts ==
    ASSUME TypeOK, NEW r \in Runs, NEW o \in Ended, RunEnds(r, o)
    PROVE  BrowserOK' /\ (status' = "none" => FALSE)
<1>1. requests' \subseteq Request
  BY AbortType DEF RunEnds
<1>2. status' \in {"paused", "completed", "failed"}
  BY DEF RunEnds
<1>3. QED
  BY <1>1, <1>2 DEF TypeOK, BrowserOK, RunEnds, Ended, Active

(* An answer with an error, awaited or not.                                  *)
LEMMA FailFacts ==
    ASSUME TypeOK, NEW q \in Request, Fail(q)
    PROVE  BrowserOK' /\ (status' = "none" => UNCHANGED <<browser, requests>>)
<1>1. CASE Awaited(q)
  <2>1. q.run \in Runs
    BY RequestKinds
  <2>2. QED
    BY <1>1, <2>1, EndsFacts DEF Fail, Ended
<1>2. CASE ~Awaited(q)
  BY <1>2 DEF Fail, TypeOK, BrowserOK, browser
<1>3. QED
  BY <1>1, <1>2

(* Where a thread goes on after a flush.                                     *)
LEMMA FlushedFacts ==
    ASSUME ServesInv, NEW t \in Threads, pc[t] \in {"snap", "commit", "clean"}
    PROVE  /\ t \in Flushers => Flushed(t) = "close"
           /\ t \in Handlers => \/ Flushed(t) = "ack" /\ req[t].kind = "chunk"
                                \/ Flushed(t) = "lookup" /\ req[t].kind = "resume"
                                \/ Flushed(t) = "verify" /\ req[t].kind = "finish"
           /\ Flushed(t) \in {"close", "ack", "lookup", "verify"}
<1>1. CASE t \in Flushers
  <2>1. t \notin Handlers
    BY <1>1, UploadAssumption
  <2>2. QED
    BY <1>1, <2>1 DEF Flushed
<1>2. CASE t \in Handlers
  <2>1. t \notin Flushers
    BY <1>2, UploadAssumption
  <2>2. req[t].kind \in {"chunk", "resume", "finish"}
    BY <1>2, RequestKinds DEF ServesInv
  <2>3. \/ Flushed(t) = "ack" /\ req[t].kind = "chunk"
        \/ Flushed(t) = "lookup" /\ req[t].kind = "resume"
        \/ Flushed(t) = "verify" /\ req[t].kind = "finish"
    BY <2>1, <2>2, Zenon DEF Flushed
  <2>4. QED
    BY <1>2, <2>1, <2>3, Zenon
<1>3. QED
  BY <1>1, <1>2 DEF Threads

-----------------------------------------------------------------------------
(* A step keeps the types.                                                   *)
LEMMA TypeNext == TypeOK /\ ServesInv /\ [Next]_vars => TypeOK'
<1> SUFFICES ASSUME TypeOK, ServesInv, [Next]_vars PROVE TypeOK'
  OBVIOUS
<1> USE UploadAssumption
<1>1. ASSUME NEW h \in Handlers, NEW q \in requests, ChunkLoad(h, q) PROVE TypeOK'
  BY <1>1 DEF TypeOK, ChunkLoad, Take, Goto, NoEntry, store, server, browser, Threads, Chunks, Labels
<1>2. ASSUME NEW h \in Handlers, NEW q \in requests, ChunkInvalid(h, q) PROVE TypeOK'
  BY <1>2 DEF TypeOK, ChunkInvalid, Take, Goto, store, server, browser, Threads, Chunks, Labels
<1>3. ASSUME NEW h \in Handlers, NEW q \in requests, Resume(h, q) PROVE TypeOK'
  BY <1>3 DEF TypeOK, Resume, Take, Goto, store, server, browser, Threads, Chunks, Labels
<1>4. ASSUME NEW h \in Handlers, NEW q \in requests, Finish(h, q) PROVE TypeOK'
  BY <1>4 DEF TypeOK, Finish, Take, Goto, store, server, browser, Threads, Chunks, Labels
<1>5. ASSUME NEW h \in Handlers, ChunkWrite(h) PROVE TypeOK'
  <2>1. req[h].index \in Chunks
    BY <1>5, RequestKinds DEF ServesInv, ChunkWrite
  <2>2. disk' \subseteq Chunks /\ buffered' \subseteq Chunks
    BY <1>5, <2>1 DEF TypeOK, ChunkWrite
  <2>3. QED
    BY <1>5, <2>2 DEF TypeOK, ChunkWrite, Goto, store, browser, Threads, Labels
<1>6. ASSUME NEW h \in Handlers, ChunkCount(h) PROVE TypeOK'
  <2>1. cache' = [cache EXCEPT !.count = cache.count + 1, !.dirty = TRUE, !.old = FALSE]
    BY <1>6 DEF ChunkCount
  <2>2. cache' \in [here : BOOLEAN, count : Nat, dirty : BOOLEAN, old : BOOLEAN]
    <3>1. cache.count \in Nat /\ cache.count + 1 \in Nat
      BY DEF TypeOK
    <3>2. QED
      BY <2>1, <3>1 DEF TypeOK
  <2>3. pc' \in [Threads -> Labels]
    BY <1>6 DEF TypeOK, ChunkCount, Goto, Threads, Labels
  <2>4. QED
    BY <1>6, <2>2, <2>3 DEF TypeOK, ChunkCount, store, browser
<1>7. ASSUME NEW h \in Handlers, ChunkError(h) PROVE TypeOK'
  <2>1. req[h] \in Request
    BY <1>7 DEF ServesInv, ChunkError
  <2>2. BrowserOK'
    BY <1>7, <2>1, FailFacts DEF ChunkError, AnswerError, TypeOK, BrowserOK, browser
  <2>3. req' \in [Handlers -> Request \cup {NoRequest}] /\ pc' \in [Threads -> Labels]
    BY <1>7 DEF TypeOK, ChunkError, AnswerError, Goto, Threads, Labels
  <2>4. QED
    BY <1>7, <2>2, <2>3 DEF TypeOK, BrowserOK, ChunkError, store
<1>8. ASSUME NEW h \in Handlers, ChunkAck(h) PROVE TypeOK'
  <2>1. req[h] \in Request /\ req[h].run \in Runs
    BY <1>8, RequestKinds DEF ServesInv, ChunkAck
  <2>2. out' \in [Runs -> SUBSET Chunks]
    BY <1>8, <2>1 DEF TypeOK, ChunkAck
  <2>3. QED
    BY <1>8, <2>2 DEF TypeOK, ChunkAck, Goto, store, Threads, Labels
<1>9. ASSUME NEW h \in Handlers, ResumeReady(h) PROVE TypeOK'
  <2>1. req[h] \in Request /\ req[h].run \in Runs
    BY <1>9, RequestKinds DEF ServesInv, ResumeReady
  <2>2. row.count \in Nat
    BY DEF TypeOK
  <2>3. BrowserOK'
    BY <1>9, <2>1, <2>2 DEF TypeOK, ResumeReady, StartSending, BrowserOK, browser, Active
  <2>4. QED
    BY <1>9, <2>3 DEF TypeOK, BrowserOK, ResumeReady, Goto, store, Threads, Labels
<1>10. ASSUME NEW h \in Handlers, ResumeInvalid(h) PROVE TypeOK'
  <2>1. req[h] \in Request
    BY <1>10 DEF ServesInv, ResumeInvalid
  <2>2. BrowserOK'
    BY <1>10, <2>1, FailFacts DEF ResumeInvalid, AnswerError, TypeOK, BrowserOK, browser
  <2>3. req' \in [Handlers -> Request \cup {NoRequest}] /\ pc' \in [Threads -> Labels]
    BY <1>10 DEF TypeOK, ResumeInvalid, AnswerError, Goto, Threads, Labels
  <2>4. QED
    BY <1>10, <2>2, <2>3 DEF TypeOK, BrowserOK, ResumeInvalid, store
<1>11. ASSUME NEW h \in Handlers, FinishVerify(h) PROVE TypeOK'
  <2>1. req[h] \in Request
    BY <1>11 DEF ServesInv, FinishVerify
  <2>2. BrowserOK'
    BY <1>11, <2>1, FailFacts DEF FinishVerify, AnswerError, TypeOK, BrowserOK, browser
  <2>3. req' \in [Handlers -> Request \cup {NoRequest}] /\ pc' \in [Threads -> Labels]
    BY <1>11 DEF TypeOK, FinishVerify, AnswerError, Goto, Threads, Labels
  <2>4. QED
    BY <1>11, <2>2, <2>3 DEF TypeOK, BrowserOK, FinishVerify, store
<1>12. ASSUME NEW h \in Handlers, FinishCommit(h) PROVE TypeOK'
  BY <1>12 DEF TypeOK, FinishCommit, Goto, store, server, browser, Threads, Chunks, Labels
<1>13. ASSUME NEW h \in Handlers, FinishForget(h) PROVE TypeOK'
  BY <1>13 DEF TypeOK, FinishForget, Goto, NoEntry, store, server, browser, Threads, Chunks, Labels
<1>14. ASSUME NEW h \in Handlers, FinishSuccess(h) PROVE TypeOK'
  <2>1. req[h] \in Request /\ req[h].run \in Runs
    BY <1>14, RequestKinds DEF ServesInv, FinishSuccess
  <2>2. BrowserOK'
    BY <1>14, <2>1, EndsFacts DEF TypeOK, FinishSuccess, BrowserOK, browser, Ended
  <2>3. QED
    BY <1>14, <2>2 DEF TypeOK, BrowserOK, FinishSuccess, Goto, store, Threads, Labels
<1>15. ASSUME NEW h \in Handlers, FinishAnnounce(h) PROVE TypeOK'
  BY <1>15 DEF TypeOK, FinishAnnounce, Goto, store, server, browser, Threads, Chunks, Labels
<1>16. ASSUME NEW t \in Threads, FlushSnapshot(t) PROVE TypeOK'
  <2>1. Flushed(t) \in Labels
    BY <1>16, FlushedFacts DEF FlushSnapshot, Labels
  <2>2. pc' \in [Threads -> Labels]
    BY <1>16, <2>1 DEF TypeOK, FlushSnapshot, Goto, Labels
  <2>3. snap' \in [Threads -> [count : Nat, old : BOOLEAN]]
    BY <1>16 DEF TypeOK, FlushSnapshot
  <2>4. QED
    BY <1>16, <2>2, <2>3 DEF TypeOK, FlushSnapshot, store, browser
<1>17. ASSUME NEW t \in Threads, FlushCommit(t) PROVE TypeOK'
  BY <1>17 DEF TypeOK, FlushCommit, Goto, store, server, browser, Threads, Chunks, Labels
<1>18. ASSUME NEW t \in Threads, FlushClean(t) PROVE TypeOK'
  <2>1. Flushed(t) \in Labels
    BY <1>18, FlushedFacts DEF FlushClean, Labels
  <2>2. pc' \in [Threads -> Labels]
    BY <1>18, <2>1 DEF TypeOK, FlushClean, Goto
  <2>3. QED
    BY <1>18, <2>2 DEF TypeOK, FlushClean, store, browser
<1>19. ASSUME NEW f \in Flushers, FlushAll(f) PROVE TypeOK'
  BY <1>19 DEF TypeOK, FlushAll, Goto, store, server, browser, Threads, Chunks, Labels
<1>20. ASSUME NEW f \in Flushers, FlushAllClose(f) PROVE TypeOK'
  BY <1>20 DEF TypeOK, FlushAllClose, Goto, store, server, browser, Threads, Chunks, Labels
<1>21. ASSUME NEW r \in Runs, SendChunk(r) PROVE TypeOK'
  <2>1. next[r] \in Chunks
    BY <1>21 DEF TypeOK, SendChunk, Chunks
  <2>2. [run |-> r, kind |-> "chunk", index |-> next[r], whole |-> TRUE] \in ChunkRequest
    BY <2>1 DEF ChunkRequest
  <2>3. requests' \subseteq Request
    BY <1>21, <2>2 DEF TypeOK, SendChunk, Request
  <2>4. out' \in [Runs -> SUBSET Chunks] /\ next' \in [Runs -> Nat]
    BY <1>21, <2>1 DEF TypeOK, SendChunk
  <2>5. QED
    BY <1>21, <2>3, <2>4 DEF TypeOK, SendChunk, store, server
<1>22. ASSUME NEW r \in Runs, SendFinish(r) PROVE TypeOK'
  BY <1>22 DEF TypeOK, SendFinish, store, server, browser, Threads, Chunks, Labels, Request, Active, Ended
<1>23. ASSUME NEW r \in Runs, StopSending(r) PROVE TypeOK'
  BY <1>23, EndsFacts DEF TypeOK, StopSending, store, server, browser, Threads, Chunks, Labels, Request, Active, Ended, BrowserOK
<1>24. ASSUME NEW r \in Runs, UploadInit(r) PROVE TypeOK'
  BY <1>24 DEF TypeOK, UploadInit, store, server, browser, Threads, Chunks, Labels, Request, Active, Ended
<1>25. ASSUME NEW r \in Runs, ResumeUpload(r) PROVE TypeOK'
  BY <1>25 DEF TypeOK, ResumeUpload, store, server, browser, Threads, Chunks, Labels, Request, Active, Ended
<1>26. ASSUME NEW r \in Runs, GiveUp(r) PROVE TypeOK'
  BY <1>26, EndsFacts DEF TypeOK, GiveUp, store, server, browser, Threads, Chunks, Labels, Request, Active, Ended, BrowserOK
<1>27. CASE Pause
  <2>1. /\ UNCHANGED <<file, row, cards, cache, disk, buffered, pc, req, snap, start, next>>
        /\ status' = "paused"
    BY <1>27 DEF Pause, store, server
  <2>2. CASE xhrs # NoRun /\ out[xhrs] # {}
    <3>1. xhrs \in Runs
      BY <2>2 DEF TypeOK
    <3>2. /\ phase' = [phase EXCEPT ![xhrs] = "paused"] /\ out' = [out EXCEPT ![xhrs] = {}]
          /\ xhrs' = NoRun
          /\ \E fate : requests' = AfterAbort(xhrs, fate)
      BY <1>27, <2>2 DEF Pause
    <3>3. requests' \subseteq Request
      BY <3>1, <3>2, AbortType
    <3> QED
      BY <2>1, <3>1, <3>2, <3>3 DEF TypeOK, Ended
  <2>3. CASE ~(xhrs # NoRun /\ out[xhrs] # {})
    BY <1>27, <2>1, <2>3 DEF Pause, TypeOK
  <2> QED
    BY <2>2, <2>3
<1>28. CASE DeleteFile
  BY <1>28 DEF TypeOK, DeleteFile, store, server, browser, Threads, Chunks, Labels
<1>29. ASSUME NEW all \in BOOLEAN, Age(all) PROVE TypeOK'
  <2>1. \A t \in Threads : [snap[t] EXCEPT !.old = @ \/ all] \in [count : Nat, old : BOOLEAN]
    BY DEF TypeOK
  <2>2. row' \in [status : {"none", "in_progress", "completed", "failed"}, count : Nat, old : BOOLEAN]
    BY <1>29 DEF TypeOK, Age
  <2>3. cache' \in [here : BOOLEAN, count : Nat, dirty : BOOLEAN, old : BOOLEAN]
    BY <1>29 DEF TypeOK, Age
  <2>4. QED
    BY <1>29, <2>1, <2>2, <2>3 DEF TypeOK, Age, browser
<1>30. CASE TransferTimeout
  BY <1>30 DEF TypeOK, TransferTimeout, store, server, browser, Threads, Chunks, Labels
<1>31. CASE Crash
  BY <1>31 DEF TypeOK, Crash, NoEntry, store, server, browser, Threads, Chunks, Labels, Request, Active, Ended
<1>32. CASE UNCHANGED vars
  BY <1>32 DEF TypeOK, vars, store, server, browser
<1>33. QED
  BY <1>1, <1>2, <1>3, <1>4, <1>5, <1>6, <1>7, <1>8, <1>9, <1>10, <1>11, <1>12, <1>13, <1>14, <1>15, <1>16, <1>17, <1>18, <1>19, <1>20, <1>21, <1>22, <1>23, <1>24, <1>25, <1>26, <1>27, <1>28, <1>29, <1>30, <1>31, <1>32 DEF Next, Serve, Flush, Upload, User, Incident, Threads

(* A step keeps handlers and requests together.                              *)
LEMMA ServesNext == TypeOK /\ ServesInv /\ [Next]_vars => ServesInv'
<1> SUFFICES ASSUME TypeOK, ServesInv, [Next]_vars PROVE ServesInv'
  OBVIOUS
<1> USE UploadAssumption
<1>1. ASSUME NEW h \in Handlers, NEW q \in requests, ChunkLoad(h, q) PROVE ServesInv'
  BY <1>1, RequestKinds DEF ServesInv, ChunkLoad, Take, Goto, NoEntry, server, TypeOK, Threads
<1>2. ASSUME NEW h \in Handlers, NEW q \in requests, ChunkInvalid(h, q) PROVE ServesInv'
  BY <1>2, RequestKinds DEF ServesInv, ChunkInvalid, Take, Goto, server, TypeOK, Threads
<1>3. ASSUME NEW h \in Handlers, NEW q \in requests, Resume(h, q) PROVE ServesInv'
  BY <1>3, RequestKinds DEF ServesInv, Resume, Take, Goto, server, TypeOK, Threads
<1>4. ASSUME NEW h \in Handlers, NEW q \in requests, Finish(h, q) PROVE ServesInv'
  BY <1>4, RequestKinds DEF ServesInv, Finish, Take, Goto, server, TypeOK, Threads
<1>5. ASSUME NEW h \in Handlers, ChunkWrite(h) PROVE ServesInv'
  BY <1>5 DEF ServesInv, ChunkWrite, Goto, server, TypeOK, Threads
<1>6. ASSUME NEW h \in Handlers, ChunkCount(h) PROVE ServesInv'
  BY <1>6 DEF ServesInv, ChunkCount, Goto, server, TypeOK, Threads
<1>7. ASSUME NEW h \in Handlers, ChunkError(h) PROVE ServesInv'
  BY <1>7 DEF ServesInv, ChunkError, AnswerError, Goto, server, TypeOK, Threads
<1>8. ASSUME NEW h \in Handlers, ChunkAck(h) PROVE ServesInv'
  BY <1>8 DEF ServesInv, ChunkAck, Goto, server, TypeOK, Threads
<1>9. ASSUME NEW h \in Handlers, ResumeReady(h) PROVE ServesInv'
  BY <1>9 DEF ServesInv, ResumeReady, Goto, StartSending, server, TypeOK, Threads
<1>10. ASSUME NEW h \in Handlers, ResumeInvalid(h) PROVE ServesInv'
  BY <1>10 DEF ServesInv, ResumeInvalid, AnswerError, Goto, server, TypeOK, Threads
<1>11. ASSUME NEW h \in Handlers, FinishVerify(h) PROVE ServesInv'
  BY <1>11 DEF ServesInv, FinishVerify, AnswerError, Goto, server, TypeOK, Threads
<1>12. ASSUME NEW h \in Handlers, FinishCommit(h) PROVE ServesInv'
  BY <1>12 DEF ServesInv, FinishCommit, Goto, server, TypeOK, Threads
<1>13. ASSUME NEW h \in Handlers, FinishForget(h) PROVE ServesInv'
  BY <1>13 DEF ServesInv, FinishForget, Goto, NoEntry, server, TypeOK, Threads
<1>14. ASSUME NEW h \in Handlers, FinishSuccess(h) PROVE ServesInv'
  BY <1>14 DEF ServesInv, FinishSuccess, Goto, server, TypeOK, Threads
<1>15. ASSUME NEW h \in Handlers, FinishAnnounce(h) PROVE ServesInv'
  BY <1>15 DEF ServesInv, FinishAnnounce, Goto, server, TypeOK, Threads
<1>16. ASSUME NEW t \in Threads, FlushSnapshot(t) PROVE ServesInv'
  BY <1>16, FlushedFacts DEF ServesInv, FlushSnapshot, Goto, server, TypeOK, Threads
<1>17. ASSUME NEW t \in Threads, FlushCommit(t) PROVE ServesInv'
  BY <1>17 DEF ServesInv, FlushCommit, Goto, server, TypeOK, Threads
<1>18. ASSUME NEW t \in Threads, FlushClean(t) PROVE ServesInv'
  BY <1>18, FlushedFacts DEF ServesInv, FlushClean, Goto, server, TypeOK, Threads
<1>19. ASSUME NEW f \in Flushers, FlushAll(f) PROVE ServesInv'
  BY <1>19 DEF ServesInv, FlushAll, Goto, server, TypeOK, Threads
<1>20. ASSUME NEW f \in Flushers, FlushAllClose(f) PROVE ServesInv'
  BY <1>20 DEF ServesInv, FlushAllClose, Goto, server, TypeOK, Threads
<1>21. ASSUME NEW r \in Runs, SendChunk(r) PROVE ServesInv'
  BY <1>21 DEF ServesInv, SendChunk, server, TypeOK, Threads
<1>22. ASSUME NEW r \in Runs, SendFinish(r) PROVE ServesInv'
  BY <1>22 DEF ServesInv, SendFinish, server, TypeOK, Threads
<1>23. ASSUME NEW r \in Runs, StopSending(r) PROVE ServesInv'
  BY <1>23 DEF ServesInv, StopSending, server, TypeOK, Threads
<1>24. ASSUME NEW r \in Runs, UploadInit(r) PROVE ServesInv'
  BY <1>24 DEF ServesInv, UploadInit, server, TypeOK, Threads
<1>25. ASSUME NEW r \in Runs, ResumeUpload(r) PROVE ServesInv'
  BY <1>25 DEF ServesInv, ResumeUpload, server, TypeOK, Threads
<1>26. ASSUME NEW r \in Runs, GiveUp(r) PROVE ServesInv'
  BY <1>26 DEF ServesInv, GiveUp, server, TypeOK, Threads
<1>27. CASE Pause
  BY <1>27 DEF ServesInv, Pause, server, TypeOK, Threads
<1>28. CASE DeleteFile
  BY <1>28 DEF ServesInv, DeleteFile, server, TypeOK, Threads
<1>29. ASSUME NEW all \in BOOLEAN, Age(all) PROVE ServesInv'
  BY <1>29 DEF ServesInv, Age, server, TypeOK, Threads
<1>30. CASE TransferTimeout
  BY <1>30 DEF ServesInv, TransferTimeout, server, TypeOK, Threads
<1>31. CASE Crash
  BY <1>31 DEF ServesInv, Crash, NoEntry, server, TypeOK, Threads
<1>32. CASE UNCHANGED vars
  BY <1>32 DEF ServesInv, vars, store, server, browser, TypeOK, Threads
<1>33. QED
  BY <1>1, <1>2, <1>3, <1>4, <1>5, <1>6, <1>7, <1>8, <1>9, <1>10, <1>11, <1>12, <1>13, <1>14, <1>15, <1>16, <1>17, <1>18, <1>19, <1>20, <1>21, <1>22, <1>23, <1>24, <1>25, <1>26, <1>27, <1>28, <1>29, <1>30, <1>31, <1>32 DEF Next, Serve, Flush, Upload, User, Incident, Threads

(* Before the first UPLOAD_INIT nothing moves.                               *)
LEMMA FreshNext == TypeOK /\ ServesInv /\ FreshInv /\ [Next]_vars => FreshInv'
<1> SUFFICES ASSUME TypeOK, ServesInv, FreshInv, [Next]_vars PROVE FreshInv'
  OBVIOUS
<1> USE UploadAssumption
<1>1. ASSUME NEW h \in Handlers, NEW q \in requests, ChunkLoad(h, q) PROVE FreshInv'
  BY <1>1 DEF FreshInv, store, ChunkLoad, Take, Goto, NoEntry, server, browser, Threads
<1>2. ASSUME NEW h \in Handlers, NEW q \in requests, ChunkInvalid(h, q) PROVE FreshInv'
  BY <1>2 DEF FreshInv, store, ChunkInvalid, Take, Goto, server, browser, Threads
<1>3. ASSUME NEW h \in Handlers, NEW q \in requests, Resume(h, q) PROVE FreshInv'
  BY <1>3 DEF FreshInv, store, Resume, Take, Goto, server, browser, Threads
<1>4. ASSUME NEW h \in Handlers, NEW q \in requests, Finish(h, q) PROVE FreshInv'
  BY <1>4 DEF FreshInv, store, Finish, Take, Goto, server, browser, Threads
<1>5. ASSUME NEW h \in Handlers, ChunkWrite(h) PROVE FreshInv'
  <2>1. status # "none"
    BY <1>5 DEF FreshInv, store, ChunkWrite, Threads
  <2>2. QED
    BY <1>5, <2>1 DEF FreshInv, store, ChunkWrite, browser
<1>6. ASSUME NEW h \in Handlers, ChunkCount(h) PROVE FreshInv'
  <2>1. status # "none"
    BY <1>6 DEF FreshInv, store, ChunkCount, Threads
  <2>2. QED
    BY <1>6, <2>1 DEF FreshInv, store, ChunkCount, browser
<1>7. ASSUME NEW h \in Handlers, ChunkError(h) PROVE FreshInv'
  <2>1. status # "none" /\ req[h] \in Request
    BY <1>7 DEF FreshInv, store, ServesInv, ChunkError, Threads
  <2>2. status' # "none"
    BY <1>7, <2>1, FailFacts DEF ChunkError, AnswerError, browser
  <2>3. QED
    BY <2>2 DEF FreshInv
<1>8. ASSUME NEW h \in Handlers, ChunkAck(h) PROVE FreshInv'
  <2>1. status # "none"
    BY <1>8 DEF FreshInv, store, ChunkAck, Threads
  <2>2. QED
    BY <1>8, <2>1 DEF FreshInv, store, ChunkAck, browser
<1>9. ASSUME NEW h \in Handlers, ResumeReady(h) PROVE FreshInv'
  <2>1. status # "none"
    BY <1>9 DEF FreshInv, store, ResumeReady, Threads
  <2>2. QED
    BY <1>9, <2>1 DEF FreshInv, store, ResumeReady, browser, StartSending
<1>10. ASSUME NEW h \in Handlers, ResumeInvalid(h) PROVE FreshInv'
  <2>1. status # "none" /\ req[h] \in Request
    BY <1>10 DEF FreshInv, store, ServesInv, ResumeInvalid, Threads
  <2>2. status' # "none"
    BY <1>10, <2>1, FailFacts DEF ResumeInvalid, AnswerError, browser
  <2>3. QED
    BY <2>2 DEF FreshInv
<1>11. ASSUME NEW h \in Handlers, FinishVerify(h) PROVE FreshInv'
  <2>1. status # "none" /\ req[h] \in Request
    BY <1>11 DEF FreshInv, store, ServesInv, FinishVerify, Threads
  <2>2. status' # "none"
    BY <1>11, <2>1, FailFacts DEF FinishVerify, AnswerError, browser
  <2>3. QED
    BY <2>2 DEF FreshInv
<1>12. ASSUME NEW h \in Handlers, FinishCommit(h) PROVE FreshInv'
  <2>1. status # "none"
    BY <1>12 DEF FreshInv, store, FinishCommit, Threads
  <2>2. QED
    BY <1>12, <2>1 DEF FreshInv, store, FinishCommit, browser
<1>13. ASSUME NEW h \in Handlers, FinishForget(h) PROVE FreshInv'
  <2>1. status # "none"
    BY <1>13 DEF FreshInv, store, FinishForget, Threads
  <2>2. QED
    BY <1>13, <2>1 DEF FreshInv, store, FinishForget, browser
<1>14. ASSUME NEW h \in Handlers, FinishSuccess(h) PROVE FreshInv'
  <2>1. status # "none" /\ req[h].run \in Runs
    BY <1>14, RequestKinds DEF FreshInv, store, ServesInv, FinishSuccess, Threads
  <2>2. status' # "none"
    BY <1>14, <2>1, EndsFacts DEF FinishSuccess, browser, Ended
  <2>3. QED
    BY <2>2 DEF FreshInv
<1>15. ASSUME NEW h \in Handlers, FinishAnnounce(h) PROVE FreshInv'
  <2>1. status # "none"
    BY <1>15 DEF FreshInv, store, FinishAnnounce, Threads
  <2>2. QED
    BY <1>15, <2>1 DEF FreshInv, store, FinishAnnounce, browser
<1>16. ASSUME NEW t \in Threads, FlushSnapshot(t) PROVE FreshInv'
  <2>1. status # "none"
    BY <1>16 DEF FreshInv, store, FlushSnapshot, Threads
  <2>2. QED
    BY <1>16, <2>1 DEF FreshInv, store, FlushSnapshot, browser
<1>17. ASSUME NEW t \in Threads, FlushCommit(t) PROVE FreshInv'
  <2>1. status # "none"
    BY <1>17 DEF FreshInv, store, FlushCommit, Threads
  <2>2. QED
    BY <1>17, <2>1 DEF FreshInv, store, FlushCommit, browser
<1>18. ASSUME NEW t \in Threads, FlushClean(t) PROVE FreshInv'
  <2>1. status # "none"
    BY <1>18 DEF FreshInv, store, FlushClean, Threads
  <2>2. QED
    BY <1>18, <2>1 DEF FreshInv, store, FlushClean, browser
<1>19. ASSUME NEW f \in Flushers, FlushAll(f) PROVE FreshInv'
  BY <1>19 DEF FreshInv, store, FlushAll, Goto, server, browser, Threads
<1>20. ASSUME NEW f \in Flushers, FlushAllClose(f) PROVE FreshInv'
  BY <1>20 DEF FreshInv, store, FlushAllClose, Goto, server, browser, Threads
<1>21. ASSUME NEW r \in Runs, SendChunk(r) PROVE FreshInv'
  BY <1>21 DEF FreshInv, store, SendChunk, server, browser, Threads
<1>22. ASSUME NEW r \in Runs, SendFinish(r) PROVE FreshInv'
  BY <1>22 DEF FreshInv, store, SendFinish, server, browser, Threads
<1>23. ASSUME NEW r \in Runs, StopSending(r) PROVE FreshInv'
  BY <1>23, EndsFacts DEF FreshInv, store, StopSending, server, browser, Threads, Ended
<1>24. ASSUME NEW r \in Runs, UploadInit(r) PROVE FreshInv'
  BY <1>24 DEF FreshInv, store, UploadInit, server, browser, Threads
<1>25. ASSUME NEW r \in Runs, ResumeUpload(r) PROVE FreshInv'
  BY <1>25 DEF FreshInv, store, ResumeUpload, server, browser, Threads
<1>26. ASSUME NEW r \in Runs, GiveUp(r) PROVE FreshInv'
  BY <1>26, EndsFacts DEF FreshInv, store, GiveUp, server, browser, Threads, Ended
<1>27. CASE Pause
  BY <1>27 DEF FreshInv, store, Pause, server, browser, Threads
<1>28. CASE DeleteFile
  BY <1>28 DEF FreshInv, store, DeleteFile, server, browser, Threads
<1>29. ASSUME NEW all \in BOOLEAN, Age(all) PROVE FreshInv'
  BY <1>29 DEF FreshInv, store, Age, server, browser, Threads, TypeOK
<1>30. CASE TransferTimeout
  BY <1>30 DEF FreshInv, store, TransferTimeout, server, browser, Threads
<1>31. CASE Crash
  BY <1>31 DEF FreshInv, store, Crash, NoEntry, store, Active
<1>32. CASE UNCHANGED vars
  BY <1>32 DEF FreshInv, store, vars, store, server, browser, Threads
<1>33. QED
  BY <1>1, <1>2, <1>3, <1>4, <1>5, <1>6, <1>7, <1>8, <1>9, <1>10, <1>11, <1>12, <1>13, <1>14, <1>15, <1>16, <1>17, <1>18, <1>19, <1>20, <1>21, <1>22, <1>23, <1>24, <1>25, <1>26, <1>27, <1>28, <1>29, <1>30, <1>31, <1>32 DEF Next, Serve, Flush, Upload, User, Incident, Threads

(* A step keeps a verified file complete: chunks are only added.             *)
LEMMA CompleteNext == TypeOK /\ ServesInv /\ CompleteInv /\ [Next]_vars => CompleteInv'
<1> SUFFICES ASSUME TypeOK, ServesInv, CompleteInv, [Next]_vars PROVE CompleteInv'
  OBVIOUS
<1> USE UploadAssumption
<1>1. ASSUME NEW h \in Handlers, NEW q \in requests, ChunkLoad(h, q) PROVE CompleteInv'
  BY <1>1 DEF CompleteInv, Verified, TypeOK, ChunkLoad, Take, Goto, store, server, Threads
<1>2. ASSUME NEW h \in Handlers, NEW q \in requests, ChunkInvalid(h, q) PROVE CompleteInv'
  BY <1>2 DEF CompleteInv, Verified, TypeOK, ChunkInvalid, Take, Goto, store, server, Threads
<1>3. ASSUME NEW h \in Handlers, NEW q \in requests, Resume(h, q) PROVE CompleteInv'
  BY <1>3 DEF CompleteInv, Verified, TypeOK, Resume, Take, Goto, store, server, Threads
<1>4. ASSUME NEW h \in Handlers, NEW q \in requests, Finish(h, q) PROVE CompleteInv'
  BY <1>4 DEF CompleteInv, Verified, TypeOK, Finish, Take, Goto, store, server, Threads
<1>5. ASSUME NEW h \in Handlers, ChunkWrite(h) PROVE CompleteInv'
  <2>1. req[h].index \in Chunks
    BY <1>5, RequestKinds DEF ServesInv, ChunkWrite
  <2>2. disk \subseteq disk' /\ disk' \subseteq Chunks
    BY <1>5, <2>1 DEF TypeOK, ChunkWrite
  <2>3. QED
    BY <1>5, <2>2 DEF CompleteInv, Verified, TypeOK, ChunkWrite, Goto, store, Threads
<1>6. ASSUME NEW h \in Handlers, ChunkCount(h) PROVE CompleteInv'
  BY <1>6 DEF CompleteInv, Verified, TypeOK, ChunkCount, Goto, store, server, Threads
<1>7. ASSUME NEW h \in Handlers, ChunkError(h) PROVE CompleteInv'
  BY <1>7 DEF CompleteInv, Verified, TypeOK, ChunkError, AnswerError, Goto, store, server, Threads
<1>8. ASSUME NEW h \in Handlers, ChunkAck(h) PROVE CompleteInv'
  BY <1>8 DEF CompleteInv, Verified, TypeOK, ChunkAck, Goto, store, server, Threads
<1>9. ASSUME NEW h \in Handlers, ResumeReady(h) PROVE CompleteInv'
  BY <1>9 DEF CompleteInv, Verified, TypeOK, ResumeReady, Goto, store, server, Threads
<1>10. ASSUME NEW h \in Handlers, ResumeInvalid(h) PROVE CompleteInv'
  BY <1>10 DEF CompleteInv, Verified, TypeOK, ResumeInvalid, AnswerError, Goto, store, server, Threads
<1>11. ASSUME NEW h \in Handlers, FinishVerify(h) PROVE CompleteInv'
  BY <1>11 DEF CompleteInv, Verified, TypeOK, FinishVerify, AnswerError, Goto, store, server, Threads
<1>12. ASSUME NEW h \in Handlers, FinishCommit(h) PROVE CompleteInv'
  BY <1>12 DEF CompleteInv, Verified, TypeOK, FinishCommit, Goto, store, server, Threads
<1>13. ASSUME NEW h \in Handlers, FinishForget(h) PROVE CompleteInv'
  BY <1>13 DEF CompleteInv, Verified, TypeOK, FinishForget, Goto, store, server, Threads
<1>14. ASSUME NEW h \in Handlers, FinishSuccess(h) PROVE CompleteInv'
  BY <1>14 DEF CompleteInv, Verified, TypeOK, FinishSuccess, Goto, store, server, Threads
<1>15. ASSUME NEW h \in Handlers, FinishAnnounce(h) PROVE CompleteInv'
  BY <1>15 DEF CompleteInv, Verified, TypeOK, FinishAnnounce, Goto, store, server, Threads
<1>16. ASSUME NEW t \in Threads, FlushSnapshot(t) PROVE CompleteInv'
  BY <1>16, FlushedFacts DEF CompleteInv, Verified, TypeOK, FlushSnapshot, Goto, store, server, Threads
<1>17. ASSUME NEW t \in Threads, FlushCommit(t) PROVE CompleteInv'
  BY <1>17 DEF CompleteInv, Verified, TypeOK, FlushCommit, Goto, store, server, Threads
<1>18. ASSUME NEW t \in Threads, FlushClean(t) PROVE CompleteInv'
  BY <1>18, FlushedFacts DEF CompleteInv, Verified, TypeOK, FlushClean, Goto, store, server, Threads
<1>19. ASSUME NEW f \in Flushers, FlushAll(f) PROVE CompleteInv'
  BY <1>19 DEF CompleteInv, Verified, TypeOK, FlushAll, Goto, store, server, Threads
<1>20. ASSUME NEW f \in Flushers, FlushAllClose(f) PROVE CompleteInv'
  BY <1>20 DEF CompleteInv, Verified, TypeOK, FlushAllClose, Goto, store, server, Threads
<1>21. ASSUME NEW r \in Runs, SendChunk(r) PROVE CompleteInv'
  BY <1>21 DEF CompleteInv, Verified, TypeOK, SendChunk, store, server, Threads
<1>22. ASSUME NEW r \in Runs, SendFinish(r) PROVE CompleteInv'
  BY <1>22 DEF CompleteInv, Verified, TypeOK, SendFinish, store, server, Threads
<1>23. ASSUME NEW r \in Runs, StopSending(r) PROVE CompleteInv'
  BY <1>23 DEF CompleteInv, Verified, TypeOK, StopSending, store, server, Threads
<1>24. ASSUME NEW r \in Runs, UploadInit(r) PROVE CompleteInv'
  BY <1>24 DEF CompleteInv, Verified, TypeOK, UploadInit, store, server, Threads
<1>25. ASSUME NEW r \in Runs, ResumeUpload(r) PROVE CompleteInv'
  BY <1>25 DEF CompleteInv, Verified, TypeOK, ResumeUpload, store, server, Threads
<1>26. ASSUME NEW r \in Runs, GiveUp(r) PROVE CompleteInv'
  BY <1>26 DEF CompleteInv, Verified, TypeOK, GiveUp, store, server, Threads
<1>27. CASE Pause
  BY <1>27 DEF CompleteInv, Verified, TypeOK, Pause, store, server, Threads
<1>28. CASE DeleteFile
  BY <1>28 DEF CompleteInv, Verified, TypeOK, DeleteFile, store, server, Threads
<1>29. ASSUME NEW all \in BOOLEAN, Age(all) PROVE CompleteInv'
  BY <1>29 DEF CompleteInv, Verified, TypeOK, Age, store, server, Threads
<1>30. CASE TransferTimeout
  BY <1>30 DEF CompleteInv, Verified, TypeOK, TransferTimeout, store, server, Threads
<1>31. CASE Crash
  BY <1>31 DEF CompleteInv, Verified, TypeOK, Crash, store, server, Threads
<1>32. CASE UNCHANGED vars
  BY <1>32 DEF CompleteInv, Verified, TypeOK, vars, store, server, Threads
<1>33. QED
  BY <1>1, <1>2, <1>3, <1>4, <1>5, <1>6, <1>7, <1>8, <1>9, <1>10, <1>11, <1>12, <1>13, <1>14, <1>15, <1>16, <1>17, <1>18, <1>19, <1>20, <1>21, <1>22, <1>23, <1>24, <1>25, <1>26, <1>27, <1>28, <1>29, <1>30, <1>31, <1>32 DEF Next, Serve, Flush, Upload, User, Incident, Threads

CountInv == ForgetInv /\ ReloadInv /\ SnapInv /\ RowNeverAhead
(* A step keeps the counts in order.                                         *)
LEMMA CountNext == TypeOK /\ ServesInv /\ FreshInv /\ CountInv /\ [Next]_vars => CountInv'
<1> SUFFICES ASSUME TypeOK, ServesInv, FreshInv, CountInv, [Next]_vars PROVE CountInv'
  OBVIOUS
<1> USE UploadAssumption
<1>1. ASSUME NEW h \in Handlers, NEW q \in requests, ChunkLoad(h, q) PROVE CountInv'
  BY <1>1 DEF CountInv, ForgetInv, ReloadInv, SnapInv, RowNeverAhead, TypeOK, ChunkLoad, Take, Goto, NoEntry, store, server, Threads
<1>2. ASSUME NEW h \in Handlers, NEW q \in requests, ChunkInvalid(h, q) PROVE CountInv'
  BY <1>2 DEF CountInv, ForgetInv, ReloadInv, SnapInv, RowNeverAhead, TypeOK, ChunkInvalid, Take, Goto, store, server, Threads
<1>3. ASSUME NEW h \in Handlers, NEW q \in requests, Resume(h, q) PROVE CountInv'
  BY <1>3 DEF CountInv, ForgetInv, ReloadInv, SnapInv, RowNeverAhead, TypeOK, Resume, Take, Goto, store, server, Threads
<1>4. ASSUME NEW h \in Handlers, NEW q \in requests, Finish(h, q) PROVE CountInv'
  BY <1>4 DEF CountInv, ForgetInv, ReloadInv, SnapInv, RowNeverAhead, TypeOK, Finish, Take, Goto, store, server, Threads
<1>5. ASSUME NEW h \in Handlers, ChunkWrite(h) PROVE CountInv'
  BY <1>5 DEF CountInv, ForgetInv, ReloadInv, SnapInv, RowNeverAhead, TypeOK, ChunkWrite, Goto, store, server, Threads
<1>6. ASSUME NEW h \in Handlers, ChunkCount(h) PROVE CountInv'
  BY <1>6 DEF CountInv, ForgetInv, ReloadInv, SnapInv, RowNeverAhead, TypeOK, ChunkCount, Goto, store, server, Threads
<1>7. ASSUME NEW h \in Handlers, ChunkError(h) PROVE CountInv'
  BY <1>7 DEF CountInv, ForgetInv, ReloadInv, SnapInv, RowNeverAhead, TypeOK, ChunkError, AnswerError, Goto, store, server, Threads
<1>8. ASSUME NEW h \in Handlers, ChunkAck(h) PROVE CountInv'
  BY <1>8 DEF CountInv, ForgetInv, ReloadInv, SnapInv, RowNeverAhead, TypeOK, ChunkAck, Goto, store, server, Threads
<1>9. ASSUME NEW h \in Handlers, ResumeReady(h) PROVE CountInv'
  BY <1>9 DEF CountInv, ForgetInv, ReloadInv, SnapInv, RowNeverAhead, TypeOK, ResumeReady, Goto, store, server, Threads
<1>10. ASSUME NEW h \in Handlers, ResumeInvalid(h) PROVE CountInv'
  BY <1>10 DEF CountInv, ForgetInv, ReloadInv, SnapInv, RowNeverAhead, TypeOK, ResumeInvalid, AnswerError, Goto, store, server, Threads
<1>11. ASSUME NEW h \in Handlers, FinishVerify(h) PROVE CountInv'
  BY <1>11 DEF CountInv, ForgetInv, ReloadInv, SnapInv, RowNeverAhead, TypeOK, FinishVerify, AnswerError, Goto, store, server, Threads
<1>12. ASSUME NEW h \in Handlers, FinishCommit(h) PROVE CountInv'
  BY <1>12 DEF CountInv, ForgetInv, ReloadInv, SnapInv, RowNeverAhead, TypeOK, FinishCommit, Goto, store, server, Threads
<1>13. ASSUME NEW h \in Handlers, FinishForget(h) PROVE CountInv'
  BY <1>13 DEF CountInv, ForgetInv, ReloadInv, SnapInv, RowNeverAhead, TypeOK, FinishForget, Goto, NoEntry, store, server, Threads
<1>14. ASSUME NEW h \in Handlers, FinishSuccess(h) PROVE CountInv'
  BY <1>14 DEF CountInv, ForgetInv, ReloadInv, SnapInv, RowNeverAhead, TypeOK, FinishSuccess, Goto, store, server, Threads
<1>15. ASSUME NEW h \in Handlers, FinishAnnounce(h) PROVE CountInv'
  BY <1>15 DEF CountInv, ForgetInv, ReloadInv, SnapInv, RowNeverAhead, TypeOK, FinishAnnounce, Goto, store, server, Threads
<1>16. ASSUME NEW t \in Threads, FlushSnapshot(t) PROVE CountInv'
  BY <1>16, FlushedFacts DEF CountInv, ForgetInv, ReloadInv, SnapInv, RowNeverAhead, TypeOK, FlushSnapshot, Goto, store, server, Threads
<1>17. ASSUME NEW t \in Threads, FlushCommit(t) PROVE CountInv'
  BY <1>17 DEF CountInv, ForgetInv, ReloadInv, SnapInv, RowNeverAhead, TypeOK, FlushCommit, Goto, store, server, Threads
<1>18. ASSUME NEW t \in Threads, FlushClean(t) PROVE CountInv'
  BY <1>18, FlushedFacts DEF CountInv, ForgetInv, ReloadInv, SnapInv, RowNeverAhead, TypeOK, FlushClean, Goto, store, server, Threads
<1>19. ASSUME NEW f \in Flushers, FlushAll(f) PROVE CountInv'
  BY <1>19 DEF CountInv, ForgetInv, ReloadInv, SnapInv, RowNeverAhead, TypeOK, FlushAll, Goto, store, server, Threads
<1>20. ASSUME NEW f \in Flushers, FlushAllClose(f) PROVE CountInv'
  BY <1>20 DEF CountInv, ForgetInv, ReloadInv, SnapInv, RowNeverAhead, TypeOK, FlushAllClose, Goto, store, server, Threads
<1>21. ASSUME NEW r \in Runs, SendChunk(r) PROVE CountInv'
  BY <1>21 DEF CountInv, ForgetInv, ReloadInv, SnapInv, RowNeverAhead, TypeOK, SendChunk, store, server, Threads
<1>22. ASSUME NEW r \in Runs, SendFinish(r) PROVE CountInv'
  BY <1>22 DEF CountInv, ForgetInv, ReloadInv, SnapInv, RowNeverAhead, TypeOK, SendFinish, store, server, Threads
<1>23. ASSUME NEW r \in Runs, StopSending(r) PROVE CountInv'
  BY <1>23 DEF CountInv, ForgetInv, ReloadInv, SnapInv, RowNeverAhead, TypeOK, StopSending, store, server, Threads
<1>24. ASSUME NEW r \in Runs, UploadInit(r) PROVE CountInv'
  BY <1>24 DEF CountInv, ForgetInv, ReloadInv, SnapInv, RowNeverAhead, TypeOK, UploadInit, store, server, Threads, FreshInv
<1>25. ASSUME NEW r \in Runs, ResumeUpload(r) PROVE CountInv'
  BY <1>25 DEF CountInv, ForgetInv, ReloadInv, SnapInv, RowNeverAhead, TypeOK, ResumeUpload, store, server, Threads
<1>26. ASSUME NEW r \in Runs, GiveUp(r) PROVE CountInv'
  BY <1>26 DEF CountInv, ForgetInv, ReloadInv, SnapInv, RowNeverAhead, TypeOK, GiveUp, store, server, Threads
<1>27. CASE Pause
  BY <1>27 DEF CountInv, ForgetInv, ReloadInv, SnapInv, RowNeverAhead, TypeOK, Pause, store, server, Threads
<1>28. CASE DeleteFile
  BY <1>28 DEF CountInv, ForgetInv, ReloadInv, SnapInv, RowNeverAhead, TypeOK, DeleteFile, store, server, Threads
<1>29. ASSUME NEW all \in BOOLEAN, Age(all) PROVE CountInv'
  BY <1>29 DEF CountInv, ForgetInv, ReloadInv, SnapInv, RowNeverAhead, TypeOK, Age, store, server, Threads
<1>30. CASE TransferTimeout
  BY <1>30 DEF CountInv, ForgetInv, ReloadInv, SnapInv, RowNeverAhead, TypeOK, TransferTimeout, store, server, Threads
<1>31. CASE Crash
  BY <1>31 DEF CountInv, ForgetInv, ReloadInv, SnapInv, RowNeverAhead, TypeOK, Crash, NoEntry, store, server, Threads
<1>32. CASE UNCHANGED vars
  BY <1>32 DEF CountInv, ForgetInv, ReloadInv, SnapInv, RowNeverAhead, TypeOK, vars, store, server, Threads
<1>33. QED
  BY <1>1, <1>2, <1>3, <1>4, <1>5, <1>6, <1>7, <1>8, <1>9, <1>10, <1>11, <1>12, <1>13, <1>14, <1>15, <1>16, <1>17, <1>18, <1>19, <1>20, <1>21, <1>22, <1>23, <1>24, <1>25, <1>26, <1>27, <1>28, <1>29, <1>30, <1>31, <1>32 DEF Next, Serve, Flush, Upload, User, Incident, Threads

-----------------------------------------------------------------------------
(* The invariant holds before the first upload.                              *)
LEMMA InitIInv == Init => IInv
BY UploadAssumption DEF Init, IInv, TypeOK, ServesInv, FreshInv, CompleteInv, Verified, ForgetInv,
   ReloadInv, SnapInv, RowNeverAhead, Threads, Labels, NoEntry, Active, Ended

(* Every step of browser, bridge and server keeps it.                        *)
LEMMA NextIInv == IInv /\ [Next]_vars => IInv'
BY TypeNext, ServesNext, FreshNext, CompleteNext, CountNext DEF IInv, CountInv

(* Every reachable state satisfies the inductive invariant.                  *)
THEOREM Invariance == Spec => []IInv
BY InitIInv, NextIInv, PTL DEF Spec

(* The variables of server, database and browser keep their types.           *)
THEOREM TypeCorrect == Spec => []TypeOK
<1>1. IInv => TypeOK
  BY DEF IInv
<1>2. QED
  BY <1>1, Invariance, PTL

(* A file that was announced as available has all of its chunks, for every   *)
(* number of connections, workers, chunks and repeated uploads, and through  *)
(* aborts, timeouts and restarts.                                            *)
THEOREM CompleteTheorem == Spec => []AvailableIsComplete
<1>1. IInv => AvailableIsComplete
  BY DEF IInv, CompleteInv, AvailableIsComplete
<1>2. QED
  BY <1>1, Invariance, PTL

(* The stored count is never ahead of the cached one, whichever threads      *)
(* flush.                                                                    *)
THEOREM RowTheorem == Spec => []RowNeverAhead
<1>1. IInv => RowNeverAhead
  BY DEF IInv
<1>2. QED
  BY <1>1, Invariance, PTL

(* A finished upload stays finished.                                         *)
THEOREM CompletedTheorem == Spec => CompletedIsFinal
<1>1. IInv /\ [Next]_vars => (row.status = "completed" => row'.status = "completed")
  <2> SUFFICES ASSUME IInv, [Next]_vars, row.status = "completed"
               PROVE  row'.status = "completed"
    OBVIOUS
  <2>1. status # "none" /\ row \in [status : {"none", "in_progress", "completed", "failed"},
                                    count : Nat, old : BOOLEAN]
    BY DEF IInv, FreshInv, TypeOK
  <2>2. CASE UNCHANGED row
    BY <2>2
  <2>3. ASSUME NEW t \in Threads, FlushCommit(t) PROVE row'.status = "completed"
    BY <2>1, <2>3 DEF FlushCommit
  <2>4. ASSUME NEW h \in Handlers, FinishCommit(h) PROVE row'.status = "completed"
    BY <2>1, <2>4 DEF FinishCommit
  <2>5. ~(\E r \in Runs : UploadInit(r)) /\ ~TransferTimeout
        /\ ~(\E all \in BOOLEAN : Age(all))
    BY <2>1 DEF UploadInit, TransferTimeout, Age
  <2>6. QED
    BY <2>2, <2>3, <2>4, <2>5
       DEF Next, Serve, Flush, Upload, User, Incident, vars, store, Threads,
           ChunkLoad, ChunkInvalid, Resume, Finish, ChunkWrite, ChunkCount, ChunkError,
           ChunkAck, ResumeReady, ResumeInvalid, FinishVerify, FinishForget, FinishSuccess,
           FinishAnnounce, FlushSnapshot, FlushClean, FlushAll, FlushAllClose, SendChunk,
           SendFinish, StopSending, ResumeUpload, GiveUp, Pause, DeleteFile, Crash
<1>2. QED
  BY <1>1, Invariance, PTL DEF Spec, CompletedIsFinal

-----------------------------------------------------------------------------
(* Cards                                                                     *)

(* An invocation that has sent its UPLOAD_FINISH.                            *)
Past(r) == phase[r] \in {"finish"} \cup Ended /\ next[r] >= Total

(* A handler that serves UPLOAD_FINISH of r.                                 *)
Finishes(h, r) == pc[h] # "recv" /\ req[h].kind = "finish" /\ req[h].run = r

(* UPLOAD_FINISH of r is on its way.                                         *)
Sent(r) == \E q \in requests : q.kind = "finish" /\ q.run = r

(* An invocation's UPLOAD_FINISH exists once, on its way or being served.    *)
OnceInv ==
    \A r \in Runs :
        /\ Sent(r) => Past(r)
        /\ \A h \in Handlers : Finishes(h, r) => Past(r) /\ ~Sent(r)
        /\ \A h, g \in Handlers : Finishes(h, r) /\ Finishes(g, r) => h = g

(* The invocations whose UPLOAD_FINISH has been served.                      *)
Served(S) == \A r \in S : Past(r) /\ ~Sent(r) /\ \A h \in Handlers : ~Finishes(h, r)

(* There are no more cards than those.                                       *)
CardInv == \E S \in SUBSET Runs : Served(S) /\ cards <= Cardinality(S)

CardsIInv == TypeOK /\ ServesInv /\ FreshInv /\ OnceInv /\ CardInv

(* What every step does but UPLOAD_FINISH, when it is sent and when it is    *)
(* taken up.                                                                 *)
Quiet ==
    /\ \A r \in Runs : Sent(r)' => Sent(r)
    /\ \A h \in Handlers, r \in Runs : Finishes(h, r)' => Finishes(h, r)
    /\ \A r \in Runs : Past(r) => Past(r)'

(* Then no UPLOAD_FINISH is made, and none is served twice.                  *)
LEMMA QuietKeeps ==
    ASSUME OnceInv, CardInv, Quiet
    PROVE  OnceInv' /\ (cards' <= cards /\ cards' \in Nat /\ cards \in Nat => CardInv')
<1>1. OnceInv'
  BY DEF OnceInv, Quiet
<1>2. ASSUME cards' <= cards, cards' \in Nat, cards \in Nat PROVE CardInv'
  <2>1. PICK S \in SUBSET Runs : Served(S) /\ cards <= Cardinality(S)
    BY DEF CardInv
  <2>2. \A r \in S : Past(r)' /\ ~Sent(r)' /\ \A h \in Handlers : ~Finishes(h, r)'
    BY <2>1 DEF Served, Quiet
  <2>3. Cardinality(S) \in Nat
    BY UploadAssumption, FS_Subset, FS_CardinalityType
  <2>4. cards' <= Cardinality(S)
    BY <1>2, <2>1, <2>3
  <2> QED BY <2>2, <2>4 DEF CardInv, Served
<1> QED BY <1>1, <1>2

(* Those that abort and fail leave no UPLOAD_FINISH that was not there.      *)
LEMMA AbortKeeps ==
    ASSUME TypeOK, NEW r \in Runs, NEW fate, NEW q \in AfterAbort(r, fate), q.kind # "chunk"
    PROVE  q \in requests
<1>1. CASE q \in requests \ Aborting(r)
  BY <1>1
<1>2. CASE q \in {p \in Aborting(r) : fate[p] = "late"}
  BY <1>2 DEF Aborting
<1>3. CASE q \in {[p EXCEPT !.whole = FALSE] : p \in {p \in Aborting(r) : fate[p] = "cut"}}
  <2>1. PICK p \in Aborting(r) : q = [p EXCEPT !.whole = FALSE]
    BY <1>3
  <2>2. p \in ChunkRequest
    BY RequestKinds DEF TypeOK, Aborting
  <2>3. q.kind = "chunk"
    BY <2>1, <2>2 DEF ChunkRequest
  <2> QED
    BY <2>3
<1> QED
  BY <1>1, <1>2, <1>3 DEF AfterAbort

(* What a step does that ends an invocation which is active, or none.        *)
BrowserQuiet ==
    /\ \A r \in Runs : Sent(r)' => Sent(r)
    /\ \A r \in Runs : Past(r) => Past(r)'

(* The end of an invocation that is active.                                  *)
LEMMA EndsQuiet ==
    ASSUME TypeOK, NEW r \in Runs, NEW o \in Ended, RunEnds(r, o)
    PROVE  BrowserQuiet
<1>1. \A q \in requests' : q.kind # "chunk" => q \in requests
  BY AbortKeeps DEF RunEnds
<1>2. \A s \in Runs : Sent(s)' => Sent(s)
  BY <1>1 DEF Sent
<1>3. /\ phase' = [phase EXCEPT ![r] = o] /\ next' = next
  BY DEF RunEnds
<1>4. \A s \in Runs : Past(s) => Past(s)'
  BY <1>3 DEF Past, TypeOK
<1> QED
  BY <1>2, <1>4 DEF BrowserQuiet

(* An error, awaited or not.                                                 *)
LEMMA FailQuiet ==
    ASSUME TypeOK, NEW q \in Request, Fail(q)
    PROVE  BrowserQuiet
<1>1. CASE Awaited(q)
  BY <1>1, RequestKinds, EndsQuiet DEF Fail, Ended
<1>2. CASE ~Awaited(q)
  BY <1>2 DEF Fail, BrowserQuiet, browser, Sent, Past
<1> QED
  BY <1>1, <1>2

(* Steps of a handler that serves what it served, or is through with it.     *)
LEMMA HandlerQuiet ==
    ASSUME TypeOK, NEW h \in Handlers, BrowserQuiet, pc[h] # "recv",
           \/ req' = req
           \/ pc'[h] = "recv" /\ \A g \in Handlers \ {h} : req'[g] = req[g],
           \A g \in Handlers \ {h} : pc'[g] = pc[g]
    PROVE  Quiet
BY DEF Quiet, BrowserQuiet, Finishes

(* A handler that takes up a request of another kind.                        *)
LEMMA TakeQuiet ==
    ASSUME TypeOK, NEW h \in Handlers, NEW q \in requests, NEW label \in Labels, Take(h, q, label),
           q.kind # "finish", UNCHANGED browser
    PROVE  Quiet
<1>1. /\ req' = [req EXCEPT ![h] = q] /\ requests' = requests \ {q}
      /\ pc' = [pc EXCEPT ![h] = label]
  BY DEF Take, Goto
<1>2. \A g \in Handlers, r \in Runs : Finishes(g, r)' => Finishes(g, r)
  BY <1>1 DEF Finishes, TypeOK, Threads
<1> QED BY <1>1, <1>2 DEF Quiet, Sent, Past, browser

(* Every step but the three of UPLOAD_FINISH is quiet and adds no card.      *)
LEMMA OtherSteps ==
    ASSUME CardsIInv, Next,
           ~\E h \in Handlers, q \in requests : Finish(h, q),
           ~\E h \in Handlers : FinishAnnounce(h),
           ~\E r \in Runs : SendFinish(r)
    PROVE  Quiet /\ cards' <= cards
<1>0. TypeOK /\ ServesInv /\ FreshInv /\ cards \in Nat BY DEF CardsIInv, TypeOK
<1>1. ASSUME NEW h \in Handlers, NEW q \in requests,
             ChunkLoad(h, q) \/ ChunkInvalid(h, q) \/ Resume(h, q)
      PROVE  Quiet /\ cards' <= cards
  <2>1. q.kind # "finish" /\ UNCHANGED browser /\ cards' = cards
    BY <1>1 DEF ChunkLoad, ChunkInvalid, Resume, store
  <2>2. Take(h, q, "write") \/ Take(h, q, "invalid") \/ Take(h, q, "snap")
    BY <1>1 DEF ChunkLoad, ChunkInvalid, Resume
  <2> QED BY <1>0, <2>1, <2>2, TakeQuiet DEF Labels
<1>2. ASSUME NEW h \in Handlers,
             \/ ChunkWrite(h) \/ ChunkCount(h) \/ ChunkAck(h) \/ FinishCommit(h) \/ FinishForget(h)
             \/ Flush(h)
      PROVE  Quiet /\ cards' <= cards
  <2>1. /\ requests' = requests /\ phase' = phase /\ next' = next /\ cards' = cards
        /\ pc[h] # "recv" /\ (req' = req \/ pc'[h] = "recv")
        /\ \A g \in Handlers \ {h} : pc'[g] = pc[g] /\ req'[g] = req[g]
    BY <1>0, <1>2 DEF ChunkWrite, ChunkCount, ChunkAck, FinishCommit, FinishForget, Flush,
       FlushSnapshot, FlushCommit, FlushClean, Goto, TypeOK, Threads, store, browser
  <2>2. BrowserQuiet BY <2>1 DEF BrowserQuiet, Sent, Past
  <2> QED BY <1>0, <2>1, <2>2, HandlerQuiet
<1>3. ASSUME NEW h \in Handlers,
             ChunkError(h) \/ ResumeInvalid(h) \/ (FinishVerify(h) /\ AnswerError(h))
      PROVE  Quiet /\ cards' <= cards
  <2>1. /\ cards' = cards /\ pc[h] # "recv" /\ pc'[h] = "recv" /\ Fail(req[h])
        /\ \A g \in Handlers \ {h} : pc'[g] = pc[g] /\ req'[g] = req[g]
    BY <1>0, <1>3 DEF ChunkError, ResumeInvalid, FinishVerify, AnswerError, Goto, TypeOK, Threads, store
  <2>2. req[h] \in Request BY <1>0, <2>1 DEF ServesInv
  <2>3. BrowserQuiet BY <1>0, <2>1, <2>2, FailQuiet
  <2> QED BY <1>0, <2>1, <2>3, HandlerQuiet
<1>4. ASSUME NEW h \in Handlers, FinishVerify(h) PROVE Quiet /\ cards' <= cards
  <2>1. CASE disk = Chunks
    <3>1. /\ requests' = requests /\ phase' = phase /\ next' = next /\ cards' = cards
          /\ pc[h] # "recv" /\ req' = req
          /\ \A g \in Handlers \ {h} : pc'[g] = pc[g]
      BY <1>0, <1>4, <2>1 DEF FinishVerify, Goto, TypeOK, Threads, store, browser
    <3>2. BrowserQuiet BY <3>1 DEF BrowserQuiet, Sent, Past
    <3> QED BY <1>0, <3>1, <3>2, HandlerQuiet
  <2>2. CASE disk # Chunks
    <3>1. AnswerError(h) BY <1>4, <2>2 DEF FinishVerify
    <3> QED BY <1>3, <1>4, <3>1
  <2> QED BY <2>1, <2>2
<1>5. ASSUME NEW h \in Handlers, ResumeReady(h) PROVE Quiet /\ cards' <= cards
  <2>1. /\ requests' = requests /\ cards' = cards /\ pc[h] # "recv" /\ pc'[h] = "recv"
        /\ \A g \in Handlers \ {h} : pc'[g] = pc[g] /\ req'[g] = req[g]
    BY <1>0, <1>5 DEF ResumeReady, Goto, TypeOK, Threads, store
  <2>2. req[h] \in Request /\ req[h].kind = "resume" BY <1>0, <1>5, <2>1 DEF ServesInv, ResumeReady
  <2>3. \A r \in Runs : (phase'[r] = phase[r] /\ next'[r] = next[r]) \/ phase[r] = "resume"
    BY <1>0, <1>5, <2>2 DEF ResumeReady, StartSending, Awaited, TypeOK, browser
  <2>4. BrowserQuiet BY <2>1, <2>3 DEF BrowserQuiet, Sent, Past, Ended
  <2> QED BY <1>0, <2>1, <2>4, HandlerQuiet
<1>6. ASSUME NEW h \in Handlers, FinishSuccess(h) PROVE Quiet /\ cards' <= cards
  <2>1. /\ cards' = cards /\ pc[h] # "recv" /\ req' = req
        /\ \A g \in Handlers \ {h} : pc'[g] = pc[g]
    BY <1>0, <1>6 DEF FinishSuccess, Goto, TypeOK, Threads, store
  <2>2. req[h].run \in Runs BY <1>0, <2>1, RequestKinds DEF ServesInv
  <2>3. RunEnds(req[h].run, "done") \/ UNCHANGED <<browser, requests>>
    BY <1>6 DEF FinishSuccess
  <2>4. BrowserQuiet
    <3>1. CASE RunEnds(req[h].run, "done")
      BY <1>0, <2>2, <3>1, EndsQuiet DEF Ended
    <3>2. CASE UNCHANGED <<browser, requests>>
      BY <3>2 DEF BrowserQuiet, browser, Sent, Past
    <3> QED BY <2>3, <3>1, <3>2
  <2> QED BY <1>0, <2>1, <2>4, HandlerQuiet
<1>7. ASSUME NEW f \in Flushers, FlushAll(f) \/ Flush(f) \/ FlushAllClose(f)
      PROVE  Quiet /\ cards' <= cards
  <2>1. f \notin Handlers BY UploadAssumption
  <2>2. /\ requests' = requests /\ phase' = phase /\ next' = next /\ cards' = cards /\ req' = req
        /\ \A g \in Handlers : pc'[g] = pc[g]
    BY <1>0, <1>7, <2>1 DEF FlushAll, Flush, FlushAllClose, FlushSnapshot, FlushCommit, FlushClean,
       Goto, TypeOK, Threads, store, browser
  <2> QED BY <1>0, <2>2 DEF Quiet, Sent, Past, Finishes
<1>8. ASSUME NEW r \in Runs, StopSending(r) \/ GiveUp(r) PROVE Quiet /\ cards' <= cards
  <2>1. (\E o \in Ended : RunEnds(r, o)) /\ UNCHANGED <<cards, pc, req>>
    BY <1>8 DEF StopSending, GiveUp, Ended, store, server
  <2>2. BrowserQuiet BY <1>0, <2>1, EndsQuiet
  <2> QED BY <1>0, <2>1, <2>2 DEF Quiet, BrowserQuiet, Finishes
<1>9. ASSUME NEW r \in Runs, UploadInit(r) PROVE Quiet /\ cards' <= cards
  <2>1. \A s \in Runs : phase[s] = "idle" BY <1>0, <1>9 DEF UploadInit, FreshInv
  <2>2. UNCHANGED <<cards, pc, req, requests>> BY <1>9 DEF UploadInit, server
  <2> QED BY <1>0, <2>1, <2>2 DEF Quiet, Sent, Past, Finishes, Ended
<1>10. ASSUME NEW r \in Runs, ResumeUpload(r) PROVE Quiet /\ cards' <= cards
  <2>1. /\ phase[r] = "idle" /\ phase' = [phase EXCEPT ![r] = "resume"] /\ next' = next
        /\ requests' = requests \cup {[run |-> r, kind |-> "resume"]}
        /\ UNCHANGED <<cards, pc, req>>
    BY <1>10 DEF ResumeUpload, store, server
  <2>2. \A s \in Runs : Past(s) => Past(s)' BY <1>0, <2>1 DEF Past, TypeOK, Ended
  <2> QED BY <1>0, <2>1, <2>2 DEF Quiet, Sent, Finishes
<1>11. ASSUME NEW r \in Runs, SendChunk(r) PROVE Quiet /\ cards' <= cards
  <2>1. /\ phase[r] = "send" /\ phase' = phase /\ next' = [next EXCEPT ![r] = @ + 1]
        /\ requests' = requests \cup {[run |-> r, kind |-> "chunk", index |-> next[r], whole |-> TRUE]}
        /\ UNCHANGED <<cards, pc, req>>
    BY <1>11 DEF SendChunk, store, server
  <2>2. \A s \in Runs : Past(s) => Past(s)' BY <1>0, <2>1 DEF Past, TypeOK, Ended
  <2> QED BY <1>0, <2>1, <2>2 DEF Quiet, Sent, Finishes
<1>12. CASE Pause
  <2>1. UNCHANGED <<cards, pc, req, next>> BY <1>12 DEF Pause, store, server
  <2>2. CASE xhrs # NoRun /\ out[xhrs] # {}
    <3>1. xhrs \in Runs BY <1>0, <2>2 DEF TypeOK
    <3>2. PICK fate : requests' = AfterAbort(xhrs, fate) BY <1>12, <2>2 DEF Pause
    <3>3. \A q \in requests' : q.kind # "chunk" => q \in requests BY <1>0, <3>1, <3>2, AbortKeeps
    <3>4. phase' = [phase EXCEPT ![xhrs] = "paused"] BY <1>12, <2>2 DEF Pause
    <3>5. \A s \in Runs : Past(s) => Past(s)' BY <1>0, <2>1, <3>4 DEF Past, TypeOK, Ended
    <3>6. \A s \in Runs : Sent(s)' => Sent(s) BY <3>3 DEF Sent
    <3> QED BY <1>0, <2>1, <3>5, <3>6 DEF Quiet, Finishes
  <2>3. CASE ~(xhrs # NoRun /\ out[xhrs] # {})
    <3>1. UNCHANGED <<phase, requests>> BY <1>12, <2>3 DEF Pause
    <3> QED BY <1>0, <2>1, <3>1 DEF Quiet, Sent, Past, Finishes
  <2> QED BY <2>2, <2>3
<1>13. CASE DeleteFile \/ (\E all \in BOOLEAN : Age(all)) \/ TransferTimeout
  <2>1. UNCHANGED <<pc, req, requests, phase, next>> /\ cards' <= cards
    BY <1>0, <1>13 DEF DeleteFile, Age, TransferTimeout, server, browser
  <2> QED BY <2>1 DEF Quiet, Sent, Past, Finishes
<1>14. CASE Crash
  <2>1. /\ requests' = {} /\ next' = next /\ cards' = cards
        /\ \A t \in Handlers : pc'[t] = "recv"
        /\ \A r \in Runs : phase'[r] = IF phase[r] \in Active THEN "failed" ELSE phase[r]
    BY <1>14 DEF Crash, store, Threads
  <2> QED BY <1>0, <2>1 DEF Quiet, Sent, Past, Finishes, Ended, Active
<1> QED
  BY <1>1, <1>2, <1>3, <1>4, <1>5, <1>6, <1>7, <1>8, <1>9, <1>10, <1>11, <1>12, <1>13, <1>14
  DEF Next, Serve, Upload, User, Incident

(* UPLOAD_FINISH is sent when the invocation has sent its chunks, and never  *)
(* was before.                                                               *)
LEMMA SendFinishStep ==
    ASSUME CardsIInv, NEW r \in Runs, SendFinish(r)
    PROVE  OnceInv' /\ CardInv'
<1>1. /\ phase[r] = "send" /\ next[r] >= Total /\ next' = next
      /\ phase' = [phase EXCEPT ![r] = "finish"]
      /\ requests' = requests \cup {[run |-> r, kind |-> "finish"]}
      /\ UNCHANGED <<cards, pc, req>>
  BY DEF SendFinish, store, server
<1>2. /\ \A s \in Runs : Past(s) => Past(s)' /\ s # r
      /\ Past(r)'
  BY <1>1 DEF Past, Ended, CardsIInv, TypeOK
<1>3. \A s \in Runs : Sent(s)' => Sent(s) \/ s = r
  BY <1>1 DEF Sent
<1>4. \A h \in Handlers, s \in Runs : Finishes(h, s)' = Finishes(h, s)
  BY <1>1 DEF Finishes
<1>5. OnceInv'
  BY <1>2, <1>3, <1>4 DEF OnceInv, CardsIInv
<1>6. PICK S \in SUBSET Runs : Served(S) /\ cards <= Cardinality(S)
  BY DEF CardInv, CardsIInv
<1>7. Served(S)' BY <1>2, <1>3, <1>4, <1>6 DEF Served
<1> QED BY <1>1, <1>5, <1>6, <1>7 DEF CardInv

(* A handler that takes it up is the only one that has it.                   *)
LEMMA FinishStep ==
    ASSUME CardsIInv, NEW h \in Handlers, NEW q \in requests, Finish(h, q)
    PROVE  OnceInv' /\ CardInv'
<1>1. /\ q.kind = "finish" /\ pc[h] = "recv"
      /\ req' = [req EXCEPT ![h] = q] /\ requests' = requests \ {q}
      /\ pc' = [pc EXCEPT ![h] = "snap"]
      /\ UNCHANGED <<cards, phase, next>>
  BY DEF Finish, Take, Goto, store, browser
<1>2. q \in Request /\ q.run \in Runs /\ q = [run |-> q.run, kind |-> "finish"]
  <2>1. q \in Request BY DEF CardsIInv, TypeOK
  <2>2. q \in [run : Runs, kind : {"resume", "finish"}]
    BY <1>1, <2>1 DEF Request, ChunkRequest
  <2> QED BY <1>1, <2>1, <2>2
<1>3. ASSUME NEW p \in requests, p.kind = "finish", p.run = q.run PROVE p = q
  <2>1. p \in Request BY DEF CardsIInv, TypeOK
  <2>2. p \in [run : Runs, kind : {"resume", "finish"}]
    BY <1>3, <2>1 DEF Request, ChunkRequest
  <2> QED BY <1>2, <1>3, <2>2
<1>4. Sent(q.run) /\ ~Sent(q.run)' /\ \A s \in Runs : Sent(s)' => Sent(s)
  BY <1>1, <1>3 DEF Sent
<1>5. \A g \in Handlers, s \in Runs : Finishes(g, s)' => Finishes(g, s) \/ (g = h /\ s = q.run)
  BY <1>1 DEF Finishes, CardsIInv, TypeOK, Threads
<1>6. \A s \in Runs : Past(s)' = Past(s)
  BY <1>1 DEF Past
<1>7. OnceInv'
  BY <1>2, <1>4, <1>5, <1>6 DEF OnceInv, CardsIInv
<1>8. PICK S \in SUBSET Runs : Served(S) /\ cards <= Cardinality(S)
  BY DEF CardInv, CardsIInv
<1>9. Served(S)' BY <1>4, <1>5, <1>6, <1>8 DEF Served
<1> QED BY <1>1, <1>7, <1>8, <1>9 DEF CardInv

(* The card of an invocation that had none: it has been served now.          *)
LEMMA AnnounceStep ==
    ASSUME CardsIInv, NEW h \in Handlers, FinishAnnounce(h)
    PROVE  OnceInv' /\ CardInv'
<1> DEFINE r == req[h].run
<1>1. /\ pc[h] = "announce" /\ cards' = cards + 1
      /\ pc' = [pc EXCEPT ![h] = "recv"] /\ req' = [req EXCEPT ![h] = NoRequest]
      /\ UNCHANGED <<requests, phase, next>>
  BY DEF FinishAnnounce, Goto, browser
<1>2. req[h] \in Request /\ req[h].kind = "finish" /\ r \in Runs
  BY <1>1, RequestKinds DEF CardsIInv, ServesInv
<1>3. Finishes(h, r) BY <1>1, <1>2 DEF Finishes
<1>4. Past(r) /\ ~Sent(r) /\ \A g \in Handlers : Finishes(g, r) => g = h
  BY <1>2, <1>3 DEF OnceInv, CardsIInv
<1>5. /\ \A s \in Runs : Sent(s)' = Sent(s) /\ Past(s)' = Past(s)
      /\ \A g \in Handlers, s \in Runs : Finishes(g, s)' => Finishes(g, s) /\ g # h
  BY <1>1 DEF Sent, Past, Finishes, CardsIInv, TypeOK, Threads
<1>6. OnceInv' BY <1>5 DEF OnceInv, CardsIInv
<1>7. PICK S \in SUBSET Runs : Served(S) /\ cards <= Cardinality(S)
  BY DEF CardInv, CardsIInv
<1>8. PICK T \in SUBSET Runs : T = S \cup {r} BY <1>2
<1>9. \A s \in T : Past(s)' /\ ~Sent(s)' /\ \A g \in Handlers : ~Finishes(g, s)'
  <2> HIDE DEF r
  <2> QED BY <1>4, <1>5, <1>7, <1>8 DEF Served
<1>10. r \notin S BY <1>3, <1>7 DEF Served
<1>11. IsFiniteSet(S) /\ Cardinality(S) \in Nat
  BY UploadAssumption, FS_Subset, FS_CardinalityType
<1>12. Cardinality(T) = Cardinality(S) + 1
  <2> HIDE DEF r
  <2> QED BY <1>8, <1>10, <1>11, FS_AddElement
<1>13. cards' <= Cardinality(T)
  BY <1>1, <1>7, <1>11, <1>12 DEF CardsIInv, TypeOK
<1> QED BY <1>6, <1>9, <1>13 DEF CardInv, Served

(* There is no card and no UPLOAD_FINISH at the start.                       *)
LEMMA InitCards == Init => CardsIInv
<1> SUFFICES ASSUME Init PROVE CardsIInv OBVIOUS
<1>1. TypeOK /\ ServesInv /\ FreshInv BY InitIInv DEF IInv
<1>2. OnceInv BY DEF Init, OnceInv, Sent, Finishes, Threads
<1>3. Served({}) /\ cards <= Cardinality({})
  BY FS_EmptySet DEF Init, Served
<1> QED BY <1>1, <1>2, <1>3 DEF CardsIInv, CardInv

(* Every step keeps the number of cards within the invocations served.       *)
LEMMA NextCards == CardsIInv /\ [Next]_vars => CardsIInv'
<1> SUFFICES ASSUME CardsIInv, [Next]_vars PROVE CardsIInv' OBVIOUS
<1>1. TypeOK' /\ ServesInv' /\ FreshInv'
  BY TypeNext, ServesNext, FreshNext DEF CardsIInv
<1>2. CASE \E h \in Handlers, q \in requests : Finish(h, q)
  BY <1>1, <1>2, FinishStep DEF CardsIInv
<1>3. CASE \E h \in Handlers : FinishAnnounce(h)
  BY <1>1, <1>3, AnnounceStep DEF CardsIInv
<1>4. CASE \E r \in Runs : SendFinish(r)
  BY <1>1, <1>4, SendFinishStep DEF CardsIInv
<1>5. CASE /\ Next /\ ~\E h \in Handlers, q \in requests : Finish(h, q)
           /\ ~\E h \in Handlers : FinishAnnounce(h)
           /\ ~\E r \in Runs : SendFinish(r)
  <2>1. Quiet /\ cards' <= cards BY <1>5, OtherSteps
  <2>2. cards \in Nat /\ cards' \in Nat BY <1>1 DEF CardsIInv, TypeOK
  <2> QED BY <1>1, <2>1, <2>2, QuietKeeps DEF CardsIInv
<1>6. CASE UNCHANGED vars
  <2>1. UNCHANGED <<cards, pc, req, requests, phase, next>>
    BY <1>6 DEF vars, store, server, browser
  <2>2. cards \in Nat /\ cards' <= cards BY <2>1 DEF CardsIInv, TypeOK
  <2>3. Quiet BY <2>1 DEF Quiet, Sent, Past, Finishes
  <2> QED BY <1>1, <2>1, <2>2, <2>3, QuietKeeps DEF CardsIInv
<1> QED
  BY <1>2, <1>3, <1>4, <1>5, <1>6

(* An invocation of uploadFile gets the room one card at most, whatever      *)
(* overlaps, is paused, given up or cut off: for any number of invocations,  *)
(* connections, workers and chunks.                                          *)
THEOREM OneCardTheorem == Spec => []OneCardEach
<1>1. ASSUME CardsIInv PROVE OneCardEach
  <2> DEFINE Through == {r \in Runs : next[r] >= Total}
  <2>1. PICK S \in SUBSET Runs : Served(S) /\ cards <= Cardinality(S)
    BY <1>1 DEF CardsIInv, CardInv
  <2>2. S \subseteq Through BY <2>1 DEF Served, Past
  <2>3. IsFiniteSet(Through) /\ IsFiniteSet(S) BY UploadAssumption, FS_Subset
  <2>4. Cardinality(S) <= Cardinality(Through)
        /\ Cardinality(S) \in Nat /\ Cardinality(Through) \in Nat
    BY <2>2, <2>3, FS_Subset, FS_CardinalityType
  <2>5. cards \in Nat BY <1>1 DEF CardsIInv, TypeOK
  <2>6. cards <= Cardinality(Through)
    <3> HIDE DEF Through
    <3> QED BY <2>1, <2>4, <2>5
  <2> QED BY <2>6 DEF OneCardEach
<1> QED
  BY <1>1, InitCards, NextCards, PTL DEF Spec
=============================================================================
