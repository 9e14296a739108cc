-------------------------- MODULE FileDownloadProofs --------------------------
(***************************************************************************)
(* Proofs about a download and the connection it runs over, for every set  *)
(* of threads, every choice of ids for what the server pushes and every    *)
(* number of chunks.  That the count of handle_chunk stands for the set of *)
(* chunks follows from the order they keep on their way: the pusher's      *)
(* index, the queue of the connection, the chunk in the receiver's hands   *)
(* and the response, each behind the next.  WaitsForSomething follows from *)
(* the ids being unique among the threads with a request.                  *)
(***************************************************************************)
EXTENDS FileDownload, TLAPS

(* The requests *)

\* The types of a packet that answers a request.
Answers == {"answer", "refusal"}

\* A thread with a request has an id that was given out, and only the thread of
\* the download route is ever at its steps.
ThreadInv ==
    \A t \in Threads :
        /\ pc[t] # "idle" => req_id[t] \in 1..(next_id - 1)
        /\ pc[t] \in {"ready", "stream"} => t = Downloader
        /\ t = Downloader /\ pc[t] # "idle" => kind[t] = "download"
        /\ kind[t] = "download" => t = Downloader

\* No two of them have the same id.
UniqueInv ==
    \A t, u \in Threads : pc[t] # "idle" /\ pc[u] # "idle" /\ req_id[t] = req_id[u] => t = u

\* A thread that has no packet yet has its callback, and a request or an answer
\* under way once it has sent it.
Waiting(t, label) == pc[t] = label /\ header[t] = NoPacket /\ ~Broken

Requested(i) == \E n \in 1..Len(toServer) : toServer[n].id = i
Answered(i)  == \E n \in 1..Len(toClient) : toClient[n].id = i /\ toClient[n].type \in Answers

WaitInv ==
    \A t \in Threads :
        /\ Waiting(t, "send") \/ Waiting(t, "wait") => req_id[t] \in pending_requests
        /\ Waiting(t, "wait") => Requested(req_id[t]) \/ Answered(req_id[t])

(* The download *)

\* The one request of a download is on its way, or served, or was never sent.
Asked(n) == n \in 1..Len(toServer) /\ toServer[n].kind = "download"

DownloadInv ==
    /\ kind[Downloader] # "download" \/ pc[Downloader] \in {"register", "send"} =>
          pusher = "idle" /\ result = "open" /\ \A n \in 1..Len(toServer) : ~Asked(n)
    /\ \A n \in 1..Len(toServer) : Asked(n) => pusher = "idle"
    /\ \A m, n \in 1..Len(toServer) : Asked(m) /\ Asked(n) => m = n
    /\ active_downloader # NoThread => pc[Downloader] = "stream"
    /\ result # "open" => pc[Downloader] = "idle"
    /\ pusher = "tail" => next_chunk < Total

\* The chunk of this index has been pushed.
Pushed(i) ==
    i \in 0..Total /\ i < Total /\ (i < next_chunk \/ (i = next_chunk /\ pusher \in {"tail", "done"}))

InHand == rx \in {"check", "write"}

IsChunk(n) == n \in 1..Len(toClient) /\ toClient[n].type = "chunk"

\* The chunks on the connection are in order, ...
QueueInv ==
    /\ \A n \in 1..Len(toClient) : IsChunk(n) => Pushed(toClient[n].index)
    /\ \A m, n \in 1..Len(toClient) : IsChunk(m) /\ IsChunk(n) /\ m < n => toClient[m].index < toClient[n].index

\* ... behind the one in the receiver's hands, ...
HandInv ==
    InHand =>
        /\ chunk \in Chunk /\ Pushed(chunk.index)
        /\ \A n \in 1..Len(toClient) : IsChunk(n) => chunk.index < toClient[n].index

\* ... and those that were streamed are ahead of both: in order and, as indices
\* start at 0, never more than the index of the last one tells.
StreamInv ==
    /\ \A m \in 1..Len(streamed) :
          /\ Pushed(streamed[m].index) /\ m <= streamed[m].index + 1
          /\ \A n \in 1..Len(toClient) : IsChunk(n) => streamed[m].index < toClient[n].index
          /\ InHand => streamed[m].index < chunk.index
    /\ \A m, n \in 1..Len(streamed) : m < n => streamed[m].index < streamed[n].index

\* handle_chunk counts what was streamed.
CountInv ==
    /\ expected_chunk = Len(streamed)
    /\ ev /\ ~error_occurred => Len(streamed) = Total

IInv == TypeOK /\ ThreadInv /\ UniqueInv /\ WaitInv /\ DownloadInv
               /\ QueueInv /\ HandInv /\ StreamInv /\ CountInv

-----------------------------------------------------------------------------
(* Lemmas about queues, packets and types *)

Packet == Plain \cup Chunk \cup {Garbage}

\* A queue with one more at its end.
LEMMA AppendFacts ==
    ASSUME NEW S, NEW s \in Seq(S), NEW e \in S
    PROVE  /\ Append(s, e) \in Seq(S) /\ Len(Append(s, e)) = Len(s) + 1 /\ Len(s) \in Nat
           /\ Append(s, e)[Len(s) + 1] = e
           /\ \A n \in 1..Len(s) : Append(s, e)[n] = s[n]
OBVIOUS

\* A queue without its first.
LEMMA TailFacts ==
    ASSUME NEW S, NEW s \in Seq(S), s # <<>>
    PROVE  /\ Len(s) \in Nat \ {0} /\ Head(s) = s[1] /\ Head(s) \in S
           /\ Tail(s) \in Seq(S) /\ Len(Tail(s)) = Len(s) - 1
           /\ \A n \in 1..Len(Tail(s)) : Tail(s)[n] = s[n + 1]
<1>1. Len(s) \in Nat \ {0}
  OBVIOUS
<1>2. Head(s) = s[1] /\ Tail(s) \in Seq(S) /\ Len(Tail(s)) = Len(s) - 1
  BY <1>1
<1>3. s[1] \in S
  BY <1>1
<1>4. \A n \in 1..Len(Tail(s)) : Tail(s)[n] = s[n + 1]
  BY <1>1
<1> QED
  BY <1>1, <1>2, <1>3, <1>4

\* A queue with another packet in place of its first.
LEMMA TornFacts ==
    ASSUME NEW S, NEW s \in Seq(S), s # <<>>, NEW e \in S
    PROVE  /\ <<e>> \o Tail(s) \in Seq(S) /\ Len(<<e>> \o Tail(s)) = Len(s)
           /\ (<<e>> \o Tail(s))[1] = e
           /\ \A n \in 2..Len(s) : (<<e>> \o Tail(s))[n] = s[n]
<1>1. Len(s) \in Nat \ {0} /\ Tail(s) \in Seq(S) /\ Len(Tail(s)) = Len(s) - 1
      /\ \A n \in 1..Len(Tail(s)) : Tail(s)[n] = s[n + 1]
  BY TailFacts
<1>2. <<e>> \in Seq(S) /\ Len(<<e>>) = 1 /\ <<e>>[1] = e
  OBVIOUS
<1> DEFINE t == Tail(s)
<1> HIDE DEF t
<1>3. t \in Seq(S) /\ Len(t) = Len(s) - 1 /\ \A n \in 1..Len(t) : t[n] = s[n + 1]
  BY <1>1 DEF t
<1>4. <<e>> \o t \in Seq(S) /\ Len(<<e>> \o t) = Len(s) /\ (<<e>> \o t)[1] = e
  <2>1. <<e>> \o t \in Seq(S)
    BY <1>2, <1>3
  <2>2. Len(<<e>> \o t) = Len(s)
    <3>1. Len(<<e>> \o t) = 1 + Len(t)
      BY <1>2, <1>3
    <3>2. 1 + Len(t) = Len(s)
      BY <1>1, <1>3
    <3> QED
      BY <3>1, <3>2, Zenon
  <2>3. (<<e>> \o t)[1] = e
    BY <1>1, <1>2, <1>3
  <2> QED
    BY <2>1, <2>2, <2>3, Zenon
<1>5. ASSUME NEW n \in 2..Len(s) PROVE (<<e>> \o t)[n] = s[n]
  <2>1. (<<e>> \o t)[n] = t[n - 1]
    BY <1>1, <1>2, <1>3
  <2>2. n - 1 \in 1..Len(t) /\ (n - 1) + 1 = n
    BY <1>1, <1>3
  <2> QED
    BY <1>3, <2>1, <2>2
<1> QED
  BY <1>4, <1>5 DEF t

\* The kinds of packets.
LEMMA PacketFacts ==
    ASSUME NEW p \in Packet
    PROVE  /\ p.type \in PlainTypes => p \in Plain /\ p.id \in Ids
           /\ p.type = "chunk" => p \in Chunk /\ p.id \in Ids /\ p.index \in 0..Total
           /\ p.type \in PlainTypes \cup {"chunk", "garbage"}
<1>1. CASE p \in Plain
  BY <1>1 DEF Plain, PlainTypes
<1>2. CASE p \in Chunk
  BY <1>2 DEF Chunk, PlainTypes
<1>3. CASE p = Garbage
  BY <1>3 DEF Garbage, PlainTypes
<1> QED
  BY <1>1, <1>2, <1>3 DEF Packet

\* The packets the server sends.
LEMMA PacketValues ==
    /\ \A i \in Ids, y \in PlainTypes :
          LET p == [id |-> i, type |-> y] IN p \in Packet /\ p.id = i /\ p.type = y
    /\ \A i \in Ids, x \in 0..Total, b \in {"half", "torn", "whole"} :
          LET p == [id |-> i, type |-> "chunk", index |-> x, bytes |-> b]
          IN p \in Packet /\ p.id = i /\ p.type = "chunk" /\ p.index = x
    /\ Garbage \in Packet /\ Garbage.type = "garbage"
    /\ PlainTypes = {"answer", "refusal", "event"}
BY DEF Packet, Plain, Chunk, Garbage, PlainTypes

\* The queues have their types.
LEMMA QueueTypes ==
    ASSUME TypeOK
    PROVE  /\ toClient \in Seq(Packet) /\ toServer \in Seq([id : Ids, kind : Kinds])
           /\ streamed \in Seq(Chunk)
BY DEF TypeOK, Packet

\* Once broken, a connection stays so.
LEMMA BrokenStays ==
    ASSUME running' \in {running, FALSE}, sock' \in {sock, "closed"}, peer' \in {peer, "closed"},
           rx = "ended" => rx' = "ended"
    PROVE  Broken => Broken'
BY DEF Broken

-----------------------------------------------------------------------------
(* What the parts of the invariant depend on *)

\* The chunks of the new queue are those of the old one, k places further on.
Shifted(k) ==
    \A n \in 1..Len(toClient') :
        IsChunk(n)' => IsChunk(n + k) /\ toClient'[n].index = toClient[n + k].index

\* Packets that go, or come and are no chunks, leave the order alone.
LEMMA OrderKept ==
    ASSUME QueueInv, HandInv, StreamInv, NEW k \in {0, 1}, Shifted(k),
           \A i : Pushed(i) => Pushed(i)',
           InHand' => InHand /\ chunk' = chunk, streamed' = streamed
    PROVE  QueueInv' /\ HandInv' /\ StreamInv'
<1>1. ASSUME NEW n \in 1..Len(toClient'), IsChunk(n)'
      PROVE  IsChunk(n + k) /\ toClient'[n].index = toClient[n + k].index
             /\ n + k \in 1..Len(toClient)
  BY <1>1 DEF Shifted, IsChunk
<1>2. QueueInv'
  <2>1. ASSUME NEW m \in 1..Len(toClient'), NEW n \in 1..Len(toClient'),
               IsChunk(m)', IsChunk(n)', m < n
        PROVE  toClient'[m].index < toClient'[n].index
    <3>1. m + k < n + k
      BY <2>1
    <3> QED
      BY <1>1, <2>1, <3>1 DEF QueueInv
  <2>2. ASSUME NEW n \in 1..Len(toClient'), IsChunk(n)' PROVE Pushed(toClient[n].index)'
    <3>1. PICK i : i = toClient'[n].index
      OBVIOUS
    <3>2. Pushed(i)
      BY <1>1, <2>2, <3>1 DEF QueueInv
    <3>3. Pushed(i)'
      BY <3>2
    <3> QED
      BY <3>1, <3>3
  <2> QED
    BY <2>1, <2>2 DEF QueueInv
<1>3. HandInv'
  <2>1. ASSUME InHand' PROVE chunk \in Chunk /\ Pushed(chunk.index)'
    BY <2>1 DEF HandInv, Pushed
  <2> QED
    BY <1>1, <2>1 DEF HandInv
<1>4. StreamInv'
  <2>1. ASSUME NEW m \in 1..Len(streamed) PROVE Pushed(streamed[m].index)'
    BY DEF StreamInv, Pushed
  <2> QED
    BY <1>1, <2>1 DEF StreamInv
<1> QED
  BY <1>2, <1>3, <1>4

\* A thread that waits waited before, and has not lost what it waits for.
LEMMA WaitKept ==
    ASSUME WaitInv,
           \A t \in Threads : Waiting(t, "send")' =>
               Waiting(t, "send") /\ req_id'[t] = req_id[t] /\ req_id[t] \in pending_requests',
           \A t \in Threads : Waiting(t, "wait")' =>
               Waiting(t, "wait") /\ req_id'[t] = req_id[t] /\ req_id[t] \in pending_requests',
           \A t \in Threads : \A i : Waiting(t, "wait")' /\ req_id[t] = i
                                 /\ (Requested(i) \/ Answered(i)) => Requested(i)' \/ Answered(i)'
    PROVE  WaitInv'
<1>1. ASSUME NEW t \in Threads, Waiting(t, "wait")'
      PROVE  (Requested(req_id[t]) \/ Answered(req_id[t]))'
  <2>1. PICK i : i = req_id[t]
    OBVIOUS
  <2>2. Requested(i)' \/ Answered(i)'
    BY <1>1, <2>1 DEF WaitInv
  <2>3. req_id'[t] = i
    BY <1>1, <2>1
  <2> QED
    BY <2>2, <2>3 DEF Requested, Answered
<1> QED
  BY <1>1 DEF WaitInv

-----------------------------------------------------------------------------
(* The HTTP threads *)

\* What all the ways to be done with a request have in common.
Done(t) ==
    /\ Leave(t) /\ pc[t] \in {"send", "wait", "stream"}
    /\ running' \in {running, FALSE}
    /\ pending_requests' \in {pending_requests, pending_requests \ {req_id[t]}}
    /\ active_downloader' \in {active_downloader, NoThread} /\ result' \in {result, "cut", "finished"}
    /\ t = Downloader /\ pc[t] = "stream" => active_downloader' = NoThread
    /\ t # Downloader => active_downloader' = active_downloader /\ result' = result
    /\ UNCHANGED <<sock, peer, rx, pushed, next_id, toServer, toClient, push, expected_chunk,
                   error_occurred, ev, chunk, streamed>>

\* A thread that is done takes nothing from the others, whose ids are not its.
LEMMA DoneKeeps ==
    ASSUME IInv, NEW t \in Threads, Done(t)
    PROVE  IInv'
<1>1. /\ pc' \in [Threads -> {"idle", "register", "send", "wait", "ready", "stream"}]
      /\ req_id' \in [Threads -> Ids \cup {NoId}]
      /\ header' \in [Threads -> Plain \cup Chunk \cup {NoPacket}]
      /\ pc'[t] = "idle" /\ kind' = kind
      /\ \A u \in Threads : u # t => pc'[u] = pc[u] /\ req_id'[u] = req_id[u] /\ header'[u] = header[u]
  BY DEF Done, Leave, Goto, IInv, TypeOK
<1>2. /\ sock' = sock /\ peer' = peer /\ rx' = rx /\ pushed' = pushed /\ next_id' = next_id
      /\ toServer' = toServer /\ toClient' = toClient /\ pusher' = pusher
      /\ next_chunk' = next_chunk /\ expected_chunk' = expected_chunk
      /\ error_occurred' = error_occurred /\ ev' = ev /\ chunk' = chunk /\ streamed' = streamed
  BY DEF Done, push
<1>3. pc[t] # "idle" /\ pc[t] # "register"
  BY DEF Done
<1>4. TypeOK'
  <2>1. /\ running' \in BOOLEAN /\ pending_requests' \subseteq pending_requests
        /\ active_downloader' \in {Downloader, NoThread} /\ result' \in {"open", "finished", "cut"}
    BY DEF Done, IInv, TypeOK
  <2> QED
    BY <1>1, <1>2, <2>1 DEF IInv, TypeOK
<1>5. ThreadInv' /\ UniqueInv'
  BY <1>1, <1>2 DEF IInv, ThreadInv, UniqueInv
<1>6. WaitInv'
  <2>1. Broken => Broken'
    BY <1>2, BrokenStays DEF Done
  <2>2. ASSUME NEW u \in Threads, pc'[u] # "idle", req_id[u] \in pending_requests
        PROVE  req_id[u] \in pending_requests'
    BY <1>1, <1>3, <2>2 DEF IInv, UniqueInv, Done
  <2>3. \A u \in Threads, l \in {"send", "wait"} :
            Waiting(u, l)' => Waiting(u, l) /\ req_id'[u] = req_id[u] /\ pc'[u] # "idle"
    BY <1>1, <2>1 DEF Waiting
  <2>4. \A i : (Requested(i)' <=> Requested(i)) /\ (Answered(i)' <=> Answered(i))
    BY <1>2 DEF Requested, Answered
  <2>5. \A u \in Threads, l \in {"send", "wait"} : Waiting(u, l) => req_id[u] \in pending_requests
    BY DEF IInv, WaitInv
  <2> QED
    BY <2>2, <2>3, <2>4, <2>5, WaitKept DEF IInv
<1>7. DownloadInv'
  <2>1. \A n : Asked(n)' <=> Asked(n)
    BY <1>2 DEF Asked
  <2>2. CASE t = Downloader
    <3>1. kind[t] = "download" /\ active_downloader' = NoThread
      BY <1>3, <2>2 DEF Done, IInv, ThreadInv, DownloadInv
    <3> QED
      BY <1>1, <1>2, <2>1, <2>2, <3>1 DEF IInv, DownloadInv
  <2>3. CASE t # Downloader
    <3>1. active_downloader' = active_downloader /\ result' = result
          /\ pc'[Downloader] = pc[Downloader]
      BY <1>1, <2>3, DownloaderAssumption DEF Done
    <3> QED
      BY <1>1, <1>2, <2>1, <3>1 DEF IInv, DownloadInv
  <2> QED
    BY <2>2, <2>3
<1>8. QueueInv' /\ HandInv' /\ StreamInv' /\ CountInv'
  BY <1>2 DEF IInv, QueueInv, HandInv, StreamInv, CountInv, Pushed, InHand, IsChunk
<1> QED
  BY <1>4, <1>5, <1>6, <1>7, <1>8 DEF IInv

\* These are the ways to be done.
LEMMA DoneSteps ==
    ASSUME IInv
    PROVE  /\ \A t \in Threads :
                 (SendFails(t) \/ Return(t) \/ Timeout(t)) /\ UNCHANGED <<push, stream>> => Done(t)
           /\ NotReady => Done(Downloader)
           /\ Ready => Done(Downloader) \/ (Goto(Downloader, "ready")
                 /\ UNCHANGED <<kind, req_id, header, result>>)
           /\ StreamDone \/ StreamTimeout => Done(Downloader)
<1> USE DEF Done, push, stream, conn
<1>1. ASSUME NEW t \in Threads, SendFails(t), UNCHANGED <<push, stream>> PROVE Done(t)
  BY <1>1 DEF SendFails, IInv, DownloadInv
<1>2. ASSUME NEW t \in Threads, Return(t) \/ Timeout(t), UNCHANGED <<push, stream>> PROVE Done(t)
  BY <1>2 DEF Return, Timeout
<1>3. ASSUME NotReady PROVE Done(Downloader)
  BY <1>3 DEF NotReady
<1>4. ASSUME Ready, ~Goto(Downloader, "ready") PROVE Done(Downloader)
  BY <1>4 DEF Ready
<1>5. ASSUME StreamDone \/ StreamTimeout PROVE Done(Downloader)
  BY <1>5 DEF StreamDone, StreamTimeout, EndStream
<1>6. ASSUME Ready PROVE Done(Downloader) \/ (Goto(Downloader, "ready")
                         /\ UNCHANGED <<kind, req_id, header, result>>)
  BY <1>6 DEF Ready
<1> QED
  BY <1>1, <1>2, <1>3, <1>5, <1>6

\* A new request has an id that no thread has.
LEMMA BeginKeeps ==
    ASSUME IInv, NEW t \in Threads, NEW k \in Kinds, Begin(t, k), UNCHANGED <<push, stream>>,
           IF k = "download" THEN t = Downloader /\ kind[t] # "download" ELSE t # Downloader
    PROVE  IInv'
<1>1. /\ pc' = [pc EXCEPT ![t] = "register"] /\ kind' = [kind EXCEPT ![t] = k]
      /\ req_id' = [req_id EXCEPT ![t] = next_id] /\ next_id' = next_id + 1
      /\ pc[t] = "idle" /\ next_id <= MaxId /\ header' = header
      /\ running' = running /\ sock' = sock /\ peer' = peer /\ rx' = rx /\ pushed' = pushed
      /\ pending_requests' = pending_requests /\ toServer' = toServer /\ toClient' = toClient
  BY DEF Begin, Goto, conn
<1>2. /\ pusher' = pusher /\ next_chunk' = next_chunk /\ expected_chunk' = expected_chunk
      /\ active_downloader' = active_downloader /\ result' = result
      /\ error_occurred' = error_occurred /\ ev' = ev /\ chunk' = chunk /\ streamed' = streamed
  BY DEF push, stream
<1>3. next_id \in Ids /\ next_id' \in 1..(MaxId + 1) /\ next_id \in Nat \ {0}
  BY <1>1, BoundsAssumption DEF IInv, TypeOK, Ids
<1>4. /\ pc' \in [Threads -> {"idle", "register", "send", "wait", "ready", "stream"}]
      /\ kind' \in [Threads -> Kinds] /\ req_id' \in [Threads -> Ids \cup {NoId}]
      /\ pc'[t] = "register" /\ kind'[t] = k /\ req_id'[t] = next_id
      /\ \A u \in Threads : u # t => pc'[u] = pc[u] /\ req_id'[u] = req_id[u] /\ kind'[u] = kind[u]
  BY <1>1, <1>3 DEF IInv, TypeOK
<1>5. TypeOK'
  <2>1. pending_requests' \subseteq 1..(next_id' - 1)
    BY <1>1, <1>3 DEF IInv, TypeOK
  <2> QED
    BY <1>1, <1>2, <1>3, <1>4, <2>1 DEF IInv, TypeOK
<1>6. ThreadInv'
  <2>1. next_id \in 1..(next_id' - 1) /\ \A i \in 1..(next_id - 1) : i \in 1..(next_id' - 1)
    BY <1>1, <1>3
  <2>2. ASSUME NEW u \in Threads, pc'[u] # "idle" PROVE req_id'[u] \in 1..(next_id' - 1)
    BY <1>4, <2>1, <2>2 DEF IInv, ThreadInv
  <2>3. ASSUME NEW u \in Threads
        PROVE  /\ pc'[u] \in {"ready", "stream"} => u = Downloader
               /\ u = Downloader /\ pc'[u] # "idle" => kind'[u] = "download"
               /\ kind'[u] = "download" => u = Downloader
    BY <1>4 DEF IInv, ThreadInv
  <2> QED
    BY <2>2, <2>3 DEF ThreadInv
<1>7. UniqueInv'
  <2>1. \A u \in Threads : pc[u] # "idle" => req_id[u] # next_id
    BY <1>3 DEF IInv, ThreadInv
  <2> QED
    BY <1>4, <2>1 DEF IInv, UniqueInv
<1>8. WaitInv'
  <2>1. \A u \in Threads, l \in {"send", "wait"} :
            Waiting(u, l)' => Waiting(u, l) /\ req_id'[u] = req_id[u]
    BY <1>1, <1>4 DEF Waiting, Broken
  <2>2. \A i : (Requested(i)' <=> Requested(i)) /\ (Answered(i)' <=> Answered(i))
    BY <1>1 DEF Requested, Answered
  <2>3. \A u \in Threads, l \in {"send", "wait"} : Waiting(u, l) => req_id[u] \in pending_requests
    BY DEF IInv, WaitInv
  <2> QED
    BY <1>1, <2>1, <2>2, <2>3, WaitKept DEF IInv
<1>9. DownloadInv'
  <2>1. \A n : Asked(n)' <=> Asked(n)
    BY <1>1 DEF Asked
  <2>2. CASE k = "download"
    <3>1. t = Downloader /\ kind[Downloader] # "download"
      BY <2>2
    <3> QED
      BY <1>1, <1>2, <1>4, <2>1, <3>1 DEF IInv, DownloadInv
  <2>3. CASE k # "download"
    <3>1. pc'[Downloader] = pc[Downloader] /\ kind'[Downloader] = kind[Downloader]
      BY <1>4, <2>3, DownloaderAssumption
    <3> QED
      BY <1>1, <1>2, <2>1, <3>1 DEF IInv, DownloadInv
  <2> QED
    BY <2>2, <2>3
<1>10. QueueInv' /\ HandInv' /\ StreamInv' /\ CountInv'
  BY <1>1, <1>2 DEF IInv, QueueInv, HandInv, StreamInv, CountInv, Pushed, InHand, IsChunk
<1> QED
  BY <1>5, <1>6, <1>7, <1>8, <1>9, <1>10 DEF IInv

\* The callback is there before the packet is written.
LEMMA RegisterKeeps ==
    ASSUME IInv, NEW t \in Threads, Register(t), UNCHANGED <<push, stream>>
    PROVE  IInv'
<1>1. /\ pc' = [pc EXCEPT ![t] = "send"] /\ kind' = kind /\ req_id' = req_id
      /\ next_id' = next_id /\ pc[t] = "register" /\ header' = header
      /\ running' = running /\ sock' = sock /\ peer' = peer /\ rx' = rx /\ pushed' = pushed
      /\ pending_requests' = pending_requests \cup {req_id[t]}
      /\ toServer' = toServer /\ toClient' = toClient
  BY DEF Register, Goto, conn
<1>2. /\ pusher' = pusher /\ next_chunk' = next_chunk /\ expected_chunk' = expected_chunk
      /\ active_downloader' = active_downloader /\ result' = result
      /\ error_occurred' = error_occurred /\ ev' = ev /\ chunk' = chunk /\ streamed' = streamed
  BY DEF push, stream
<1>3. /\ pc' \in [Threads -> {"idle", "register", "send", "wait", "ready", "stream"}]
      /\ pc'[t] = "send" /\ \A u \in Threads : u # t => pc'[u] = pc[u]
      /\ req_id[t] \in 1..(next_id - 1)
  BY <1>1 DEF IInv, TypeOK, ThreadInv
<1>4. TypeOK'
  <2>1. pending_requests' \subseteq 1..(next_id' - 1)
    BY <1>1, <1>3 DEF IInv, TypeOK
  <2> QED
    BY <1>1, <1>2, <1>3, <2>1 DEF IInv, TypeOK
<1>5. ThreadInv' /\ UniqueInv'
  BY <1>1, <1>3 DEF IInv, ThreadInv, UniqueInv
<1>6. WaitInv'
  <2>1. \A u \in Threads : Waiting(u, "send")' \/ Waiting(u, "wait")' => req_id[u] \in pending_requests'
    BY <1>1, <1>3 DEF Waiting, Broken, IInv, WaitInv
  <2>2. ASSUME NEW u \in Threads, Waiting(u, "wait")'
        PROVE  (Requested(req_id[u]) \/ Answered(req_id[u]))'
    <3>1. Waiting(u, "wait")
      BY <1>1, <1>3, <2>2 DEF Waiting, Broken
    <3>2. Requested(req_id[u]) \/ Answered(req_id[u])
      BY <3>1 DEF IInv, WaitInv
    <3> QED
      BY <1>1, <3>2 DEF Requested, Answered
  <2> QED
    BY <1>1, <2>1, <2>2 DEF WaitInv
<1>7. DownloadInv'
  <2>1. \A n : Asked(n)' <=> Asked(n)
    BY <1>1 DEF Asked
  <2>2. /\ pc'[Downloader] \in {"register", "send"} => pc[Downloader] \in {"register", "send"}
        /\ pc[Downloader] \in {"stream", "idle"} => pc'[Downloader] = pc[Downloader]
    BY <1>1, <1>3, DownloaderAssumption
  <2> QED
    BY <1>1, <1>2, <2>1, <2>2 DEF IInv, DownloadInv
<1>8. QueueInv' /\ HandInv' /\ StreamInv' /\ CountInv'
  BY <1>1, <1>2 DEF IInv, QueueInv, HandInv, StreamInv, CountInv, Pushed, InHand, IsChunk
<1> QED
  BY <1>4, <1>5, <1>6, <1>7, <1>8 DEF IInv

\* The request is written, its callback registered.
LEMMA SendKeeps ==
    ASSUME IInv, NEW t \in Threads, Send(t), UNCHANGED <<push, stream>>
    PROVE  IInv'
<1> DEFINE e == [id |-> req_id[t], kind |-> kind[t]]
<1>1. /\ pc' = [pc EXCEPT ![t] = "wait"] /\ kind' = kind /\ req_id' = req_id
      /\ next_id' = next_id /\ pc[t] = "send" /\ header' = header
      /\ running' = running /\ sock' = sock /\ peer' = peer /\ rx' = rx /\ pushed' = pushed
      /\ pending_requests' = pending_requests
      /\ toServer' = Append(toServer, e) /\ toClient' = toClient
  BY DEF Send, Goto, conn
<1>2. /\ pusher' = pusher /\ next_chunk' = next_chunk /\ expected_chunk' = expected_chunk
      /\ active_downloader' = active_downloader /\ result' = result
      /\ error_occurred' = error_occurred /\ ev' = ev /\ chunk' = chunk /\ streamed' = streamed
  BY DEF push, stream
<1>3. req_id[t] \in Ids /\ kind[t] \in Kinds
  <2>1. req_id[t] \in 1..(next_id - 1) /\ next_id \in 1..(MaxId + 1) /\ kind[t] \in Kinds
    BY <1>1 DEF IInv, ThreadInv, TypeOK
  <2> QED
    BY <2>1, BoundsAssumption DEF Ids
<1>4. e \in [id : Ids, kind : Kinds] /\ e.id = req_id[t] /\ e.kind = kind[t]
  BY <1>3
<1> HIDE DEF e
<1>5. toServer \in Seq([id : Ids, kind : Kinds])
  BY DEF IInv, TypeOK
<1>6. /\ toServer' \in Seq([id : Ids, kind : Kinds]) /\ Len(toServer) \in Nat
      /\ Len(toServer') = Len(toServer) + 1 /\ toServer'[Len(toServer) + 1] = e
      /\ \A n \in 1..Len(toServer) : toServer'[n] = toServer[n]
  BY <1>1, <1>4, <1>5, AppendFacts
<1>7. /\ pc' \in [Threads -> {"idle", "register", "send", "wait", "ready", "stream"}]
      /\ pc'[t] = "wait" /\ \A u \in Threads : u # t => pc'[u] = pc[u]
  BY <1>1 DEF IInv, TypeOK
<1>8. TypeOK'
  BY <1>1, <1>2, <1>6, <1>7 DEF IInv, TypeOK
<1>9. ThreadInv' /\ UniqueInv'
  BY <1>1, <1>7 DEF IInv, ThreadInv, UniqueInv
<1>10. WaitInv'
  <2>1. /\ \A i : Requested(i) => Requested(i)'
        /\ \A i : Answered(i) => Answered(i)'
        /\ \A i : i = req_id[t] => Requested(i)'
    BY <1>1, <1>4, <1>6 DEF Requested, Answered
  <2>2. ASSUME NEW u \in Threads, Waiting(u, "send")' \/ Waiting(u, "wait")'
        PROVE  req_id[u] \in pending_requests
    BY <1>1, <1>7, <2>2 DEF Waiting, Broken, IInv, WaitInv
  <2>3. ASSUME NEW u \in Threads, Waiting(u, "wait")'
        PROVE  (Requested(req_id[u]) \/ Answered(req_id[u]))'
    <3>1. PICK i : i = req_id[u]
      OBVIOUS
    <3>2. u # t => Waiting(u, "wait")
      BY <1>1, <1>7, <2>3 DEF Waiting, Broken
    <3>3. Requested(i)' \/ Answered(i)'
      BY <2>1, <3>1, <3>2 DEF IInv, WaitInv
    <3>4. i = req_id'[u]
      BY <1>1, <3>1
    <3> QED
      BY <3>3, <3>4 DEF Requested, Answered
  <2> QED
    BY <1>1, <2>2, <2>3 DEF WaitInv
<1>11. DownloadInv'
  <2>1. \A n : Asked(n)' => Asked(n) \/ (n = Len(toServer) + 1 /\ kind[t] = "download")
    BY <1>4, <1>6 DEF Asked
  <2>2. CASE kind[t] = "download"
    <3>1. t = Downloader
      BY <2>2 DEF IInv, ThreadInv
    <3>2. /\ pusher = "idle" /\ result = "open" /\ active_downloader = NoThread
          /\ \A n \in 1..Len(toServer) : ~Asked(n)
      BY <1>1, <3>1 DEF IInv, DownloadInv
    <3>3. \A n : ~Asked(n)
      BY <3>2 DEF Asked
    <3> QED
      BY <1>1, <1>2, <1>7, <2>1, <2>2, <3>1, <3>2, <3>3 DEF IInv, DownloadInv
  <2>3. CASE kind[t] # "download"
    <3>1. t # Downloader
      BY <1>1, <2>3 DEF IInv, ThreadInv
    <3>2. pc'[Downloader] = pc[Downloader]
      BY <1>7, <3>1, DownloaderAssumption
    <3>3. \A n : Asked(n)' => Asked(n)
      BY <2>1, <2>3
    <3>4. \A n : Asked(n) => n \in 1..Len(toServer)
      BY DEF Asked
    <3> QED
      BY <1>1, <1>2, <3>2, <3>3, <3>4 DEF IInv, DownloadInv
  <2> QED
    BY <2>2, <2>3
<1>12. QueueInv' /\ HandInv' /\ StreamInv' /\ CountInv'
  BY <1>1, <1>2 DEF IInv, QueueInv, HandInv, StreamInv, CountInv, Pushed, InHand, IsChunk
<1> QED
  BY <1>8, <1>9, <1>10, <1>11, <1>12 DEF IInv

\* The downloader goes on to its stream.
LEMMA StreamBeginsKeeps ==
    ASSUME IInv,
           \/ Ready /\ Goto(Downloader, "ready") /\ UNCHANGED <<kind, req_id, header, result>>
           \/ SetDownloader
    PROVE  IInv'
<1>1. /\ kind' = kind /\ req_id' = req_id /\ header' = header /\ result' = result
      /\ next_id' = next_id /\ pending_requests' = pending_requests
      /\ running' = running /\ sock' = sock /\ peer' = peer /\ rx' = rx /\ pushed' = pushed
      /\ toServer' = toServer /\ toClient' = toClient
      /\ pusher' = pusher /\ next_chunk' = next_chunk /\ expected_chunk' = expected_chunk
      /\ error_occurred' = error_occurred /\ ev' = ev /\ chunk' = chunk /\ streamed' = streamed
  BY DEF Ready, SetDownloader, conn, push
<1>2. PICK l \in {"ready", "stream"} :
          /\ pc' = [pc EXCEPT ![Downloader] = l] /\ pc[Downloader] \in {"wait", "ready"}
          /\ active_downloader' = IF l = "stream" THEN Downloader ELSE active_downloader
  BY DEF Ready, SetDownloader, Goto
<1>3. /\ pc' \in [Threads -> {"idle", "register", "send", "wait", "ready", "stream"}]
      /\ pc'[Downloader] = l /\ \A u \in Threads : u # Downloader => pc'[u] = pc[u]
  BY <1>2, DownloaderAssumption DEF IInv, TypeOK
<1>4. TypeOK'
  <2>1. active_downloader' \in {Downloader, NoThread}
    BY <1>2 DEF IInv, TypeOK
  <2> QED
    BY <1>1, <1>3, <2>1 DEF IInv, TypeOK
<1>5. ThreadInv' /\ UniqueInv'
  BY <1>1, <1>2, <1>3 DEF IInv, ThreadInv, UniqueInv
<1>6. WaitInv'
  <2>1. \A u \in Threads, k \in {"send", "wait"} : Waiting(u, k)' => Waiting(u, k)
    BY <1>1, <1>3 DEF Waiting, Broken
  <2>2. \A i : (Requested(i)' <=> Requested(i)) /\ (Answered(i)' <=> Answered(i))
    BY <1>1 DEF Requested, Answered
  <2>3. \A u \in Threads, k \in {"send", "wait"} : Waiting(u, k) => req_id[u] \in pending_requests
    BY DEF IInv, WaitInv
  <2> QED
    BY <1>1, <2>1, <2>2, <2>3, WaitKept DEF IInv
<1>7. DownloadInv'
  <2>1. \A n : Asked(n)' <=> Asked(n)
    BY <1>1 DEF Asked
  <2>2. active_downloader' # NoThread => l = "stream"
    BY <1>2 DEF IInv, DownloadInv
  <2> QED
    BY <1>1, <1>2, <1>3, <2>1, <2>2 DEF IInv, DownloadInv
<1>8. QueueInv' /\ HandInv' /\ StreamInv' /\ CountInv'
  BY <1>1 DEF IInv, QueueInv, HandInv, StreamInv, CountInv, Pushed, InHand, IsChunk
<1> QED
  BY <1>4, <1>5, <1>6, <1>7, <1>8 DEF IInv

-----------------------------------------------------------------------------
(* The server and the connection *)

\* A step that moves no thread and no packet, and does not mend a broken
\* connection.
LEMMA LinkKeeps ==
    ASSUME IInv, UNCHANGED threads, UNCHANGED push, UNCHANGED stream,
           UNCHANGED <<next_id, pending_requests, toServer, toClient>>,
           pushed' = pushed, running' \in {running, FALSE}, sock' \in {sock, "closed"},
           peer' \in {peer, "closed"}, rx' \in {rx, "ended"}
    PROVE  IInv'
<1>1. /\ pc' = pc /\ kind' = kind /\ req_id' = req_id /\ header' = header /\ next_id' = next_id
      /\ pending_requests' = pending_requests /\ toServer' = toServer /\ toClient' = toClient
      /\ pusher' = pusher /\ next_chunk' = next_chunk /\ expected_chunk' = expected_chunk
      /\ active_downloader' = active_downloader /\ result' = result
      /\ error_occurred' = error_occurred /\ ev' = ev /\ chunk' = chunk /\ streamed' = streamed
  BY DEF threads, push, stream
<1>2. TypeOK'
  <2>1. /\ running' \in BOOLEAN /\ sock' \in {"open", "closed"} /\ peer' \in {"open", "closed"}
        /\ rx' \in {"loop", "check", "write", "ended"}
    BY DEF IInv, TypeOK
  <2> QED
    BY <1>1, <2>1 DEF IInv, TypeOK
<1>3. ThreadInv' /\ UniqueInv'
  BY <1>1 DEF IInv, ThreadInv, UniqueInv
<1>4. Broken => Broken'
  BY BrokenStays
<1>5. WaitInv'
  BY <1>1, <1>4 DEF IInv, WaitInv, Waiting, Requested, Answered
<1>6. DownloadInv'
  BY <1>1 DEF IInv, DownloadInv, Asked
<1>7. QueueInv' /\ HandInv' /\ StreamInv' /\ CountInv'
  BY <1>1 DEF IInv, QueueInv, HandInv, StreamInv, CountInv, Pushed, InHand, IsChunk
<1> QED
  BY <1>2, <1>3, <1>5, <1>6, <1>7 DEF IInv

\* A plain packet joins the queue.
LEMMA PlainJoins ==
    ASSUME TypeOK, NEW i \in Ids, NEW y \in PlainTypes,
           toClient' = Append(toClient, [id |-> i, type |-> y])
    PROVE  /\ toClient' \in Seq(Packet) /\ Shifted(0)
           /\ \A j : Answered(j) => Answered(j)'
           /\ y \in Answers => Answered(i)'
<1> DEFINE p == [id |-> i, type |-> y]
<1>1. p \in Packet /\ p.id = i /\ p.type = y /\ y # "chunk"
  BY PacketValues
<1>2. toClient' = Append(toClient, p)
  OBVIOUS
<1> HIDE DEF p
<1>3. /\ toClient' \in Seq(Packet) /\ Len(toClient) \in Nat
      /\ Len(toClient') = Len(toClient) + 1 /\ toClient'[Len(toClient) + 1] = p
      /\ \A n \in 1..Len(toClient) : toClient'[n] = toClient[n]
  BY <1>1, <1>2, QueueTypes, AppendFacts
<1>4. Shifted(0)
  <2>1. ASSUME NEW n \in 1..Len(toClient'), IsChunk(n)'
        PROVE  IsChunk(n + 0) /\ toClient'[n].index = toClient[n + 0].index
    <3>1. n + 0 = n /\ n # Len(toClient) + 1
      BY <1>1, <1>3, <2>1 DEF IsChunk
    <3> QED
      BY <1>3, <2>1, <3>1 DEF IsChunk
  <2> QED
    BY <2>1 DEF Shifted
<1>5. \A j : Answered(j) => Answered(j)'
  BY <1>3 DEF Answered
<1>6. y \in Answers => Answered(i)'
  BY <1>1, <1>3 DEF Answered
<1> QED
  BY <1>3, <1>4, <1>5, <1>6

\* An event is pushed.
LEMMA PushKeeps ==
    ASSUME IInv, NEW i \in PushIds, Push(i), UNCHANGED <<push, stream>>
    PROVE  IInv'
<1>1. /\ pc' = pc /\ kind' = kind /\ req_id' = req_id /\ header' = header /\ next_id' = next_id
      /\ pending_requests' = pending_requests /\ toServer' = toServer
      /\ running' = running /\ sock' = sock /\ peer' = peer /\ rx' = rx
      /\ toClient' = Append(toClient, [id |-> i, type |-> "event"])
      /\ pushed < MaxPush /\ pushed' = pushed + 1
      /\ pusher' = pusher /\ next_chunk' = next_chunk /\ expected_chunk' = expected_chunk
      /\ active_downloader' = active_downloader /\ result' = result
      /\ error_occurred' = error_occurred /\ ev' = ev /\ chunk' = chunk /\ streamed' = streamed
  BY DEF Push, threads, push, stream
<1>2. i \in Ids /\ "event" \in PlainTypes
  BY PushIdsAssumption DEF PlainTypes
<1>3. toClient' \in Seq(Packet) /\ Shifted(0) /\ \A j : Answered(j) => Answered(j)'
  BY <1>1, <1>2, PlainJoins DEF IInv
<1>4. TypeOK'
  <2>1. pushed' \in 0..MaxPush
    BY <1>1, BoundsAssumption DEF IInv, TypeOK
  <2> QED
    BY <1>1, <1>3, <2>1 DEF IInv, TypeOK, Packet
<1>5. ThreadInv' /\ UniqueInv'
  BY <1>1 DEF IInv, ThreadInv, UniqueInv
<1>6. WaitInv'
  <2>1. \A u \in Threads, k \in {"send", "wait"} : Waiting(u, k)' => Waiting(u, k)
    BY <1>1 DEF Waiting, Broken
  <2>2. \A j : Requested(j)' <=> Requested(j)
    BY <1>1 DEF Requested
  <2>3. \A u \in Threads, k \in {"send", "wait"} : Waiting(u, k) => req_id[u] \in pending_requests
    BY DEF IInv, WaitInv
  <2> QED
    BY <1>1, <1>3, <2>1, <2>2, <2>3, WaitKept DEF IInv
<1>7. DownloadInv'
  BY <1>1 DEF IInv, DownloadInv, Asked
<1>8. QueueInv' /\ HandInv' /\ StreamInv'
  <2>1. \A j : Pushed(j) => Pushed(j)'
    BY <1>1 DEF Pushed
  <2>2. InHand' => InHand /\ chunk' = chunk
    BY <1>1 DEF InHand
  <2> QED
    BY <1>1, <1>3, <2>1, <2>2, OrderKept DEF IInv
<1>9. CountInv'
  BY <1>1 DEF IInv, CountInv
<1> QED
  BY <1>4, <1>5, <1>6, <1>7, <1>8, <1>9 DEF IInv

\* The oldest request is answered: the answer is on its way in its place.
LEMMA ServeKeeps ==
    ASSUME IInv, NEW y \in Answers, peer = "open", toServer # <<>>,
           toServer' = Tail(toServer),
           toClient' = Append(toClient, [id |-> Head(toServer).id, type |-> y]),
           pusher' = (IF y = "answer" /\ Head(toServer).kind = "download" THEN "head" ELSE pusher),
           UNCHANGED <<conn, next_id, pending_requests, threads, next_chunk, stream>>
    PROVE  IInv'
<1>1. /\ pc' = pc /\ kind' = kind /\ req_id' = req_id /\ header' = header /\ next_id' = next_id
      /\ pending_requests' = pending_requests
      /\ running' = running /\ sock' = sock /\ peer' = peer /\ rx' = rx /\ pushed' = pushed
      /\ next_chunk' = next_chunk /\ expected_chunk' = expected_chunk
      /\ active_downloader' = active_downloader /\ result' = result
      /\ error_occurred' = error_occurred /\ ev' = ev /\ chunk' = chunk /\ streamed' = streamed
  BY DEF conn, threads, stream
<1>2. toServer \in Seq([id : Ids, kind : Kinds])
  BY DEF IInv, TypeOK
<1>3. /\ Len(toServer) \in Nat \ {0} /\ Head(toServer) = toServer[1]
      /\ Head(toServer) \in [id : Ids, kind : Kinds]
      /\ toServer' \in Seq([id : Ids, kind : Kinds]) /\ Len(toServer') = Len(toServer) - 1
      /\ \A n \in 1..Len(toServer') : toServer'[n] = toServer[n + 1]
  BY <1>2, TailFacts
<1>4. Head(toServer).id \in Ids /\ y \in PlainTypes
  BY <1>3 DEF Answers, PlainTypes
<1>5. /\ toClient' \in Seq(Packet) /\ Shifted(0) /\ \A j : Answered(j) => Answered(j)'
      /\ \A j : j = Head(toServer).id => Answered(j)'
  BY <1>4, PlainJoins DEF IInv
<1>6. \A j : Requested(j) => Requested(j)' \/ j = Head(toServer).id
  <2>1. ASSUME NEW j, NEW n \in 1..Len(toServer), toServer[n].id = j, n # 1
        PROVE  Requested(j)'
    <3>1. n - 1 \in 1..Len(toServer') /\ (n - 1) + 1 = n
      BY <1>3, <2>1
    <3>2. toServer'[n - 1].id = j
      BY <1>3, <2>1, <3>1
    <3> QED
      BY <3>1, <3>2 DEF Requested
  <2> QED
    BY <1>3, <2>1 DEF Requested
<1>7. TypeOK'
  <2>1. pusher' \in {"idle", "head", "tail", "done"}
    BY DEF IInv, TypeOK
  <2> QED
    BY <1>1, <1>3, <1>5, <2>1 DEF IInv, TypeOK, Packet
<1>8. ThreadInv' /\ UniqueInv'
  BY <1>1 DEF IInv, ThreadInv, UniqueInv
<1>9. WaitInv'
  <2>1. \A u \in Threads, k \in {"send", "wait"} : Waiting(u, k)' => Waiting(u, k)
    BY <1>1 DEF Waiting, Broken
  <2>2. \A j : Requested(j) \/ Answered(j) => Requested(j)' \/ Answered(j)'
    BY <1>5, <1>6
  <2>3. \A u \in Threads, k \in {"send", "wait"} : Waiting(u, k) => req_id[u] \in pending_requests
    BY DEF IInv, WaitInv
  <2> QED
    BY <1>1, <2>1, <2>2, <2>3, WaitKept DEF IInv
<1>10. \A n : Asked(n)' => Asked(n + 1) /\ n \in 1..Len(toServer') /\ n + 1 \in 1..Len(toServer) /\ n + 1 # 1
  <2>1. ASSUME NEW n, Asked(n)'
        PROVE  Asked(n + 1) /\ n \in 1..Len(toServer') /\ n + 1 \in 1..Len(toServer) /\ n + 1 # 1
    <3>1. n \in 1..Len(toServer') /\ toServer'[n].kind = "download"
      BY <2>1 DEF Asked
    <3>2. n + 1 \in 1..Len(toServer) /\ n + 1 # 1
      BY <1>3, <3>1
    <3> QED
      BY <1>3, <3>1, <3>2 DEF Asked
  <2> QED
    BY <2>1
<1>11. /\ pusher' = pusher
       \/ /\ Asked(1) /\ 1 \in 1..Len(toServer) /\ pusher' = "head"
  BY <1>3 DEF Asked
<1>12. DownloadInv'
  <2>1. \A m, n : Asked(m)' /\ Asked(n)' => m = n
    <3>1. ASSUME NEW m, NEW n, Asked(m)', Asked(n)' PROVE m = n
      <4>1. m + 1 = n + 1
        BY <1>10, <3>1 DEF IInv, DownloadInv
      <4>2. m \in 1..Len(toServer') /\ n \in 1..Len(toServer')
        BY <1>10, <3>1
      <4> QED
        BY <1>3, <4>1, <4>2
    <3> QED
      BY <3>1
  <2>2. CASE pusher' = pusher
    BY <1>1, <1>10, <2>1, <2>2 DEF IInv, DownloadInv
  <2>3. CASE Asked(1) /\ 1 \in 1..Len(toServer) /\ pusher' = "head"
    <3>1. \A n : ~Asked(n)'
      BY <1>10, <2>3 DEF IInv, DownloadInv
    <3>2. kind[Downloader] = "download" /\ pc[Downloader] \notin {"register", "send"}
      BY <2>3 DEF IInv, DownloadInv
    <3> QED
      BY <1>1, <2>3, <3>1, <3>2 DEF IInv, DownloadInv
  <2> QED
    BY <1>11, <2>2, <2>3
<1>13. QueueInv' /\ HandInv' /\ StreamInv'
  <2>1. Asked(1) /\ 1 \in 1..Len(toServer) => pusher = "idle"
    BY DEF IInv, DownloadInv
  <2>2. \A j : Pushed(j) => Pushed(j)'
    BY <1>1, <1>11, <2>1 DEF Pushed
  <2>3. InHand' => InHand /\ chunk' = chunk
    BY <1>1 DEF InHand
  <2> QED
    BY <1>1, <1>5, <2>2, <2>3, OrderKept DEF IInv
<1>14. CountInv'
  BY <1>1 DEF IInv, CountInv
<1> QED
  BY <1>7, <1>8, <1>9, <1>12, <1>13, <1>14 DEF IInv


\* A step of the pusher keeps what is not about the order of the chunks.
LEMMA PusherKeeps ==
    ASSUME IInv, pusher \in {"head", "tail"}, pusher' \in {"head", "tail", "done"},
           next_chunk' \in 0..Total, pusher' = "tail" => next_chunk' < Total,
           toClient' \in Seq(Packet), \A j : Answered(j) => Answered(j)',
           UNCHANGED conn, UNCHANGED threads, UNCHANGED stream,
           UNCHANGED <<next_id, pending_requests, toServer>>
    PROVE  /\ TypeOK' /\ ThreadInv' /\ UniqueInv' /\ WaitInv' /\ DownloadInv' /\ CountInv'
           /\ streamed' = streamed /\ chunk' = chunk /\ rx' = rx
<1>1. /\ pc' = pc /\ kind' = kind /\ req_id' = req_id /\ header' = header /\ next_id' = next_id
      /\ pending_requests' = pending_requests /\ toServer' = toServer
      /\ running' = running /\ sock' = sock /\ peer' = peer /\ rx' = rx /\ pushed' = pushed
      /\ expected_chunk' = expected_chunk
      /\ active_downloader' = active_downloader /\ result' = result
      /\ error_occurred' = error_occurred /\ ev' = ev /\ chunk' = chunk /\ streamed' = streamed
  BY DEF conn, threads, stream
<1>2. TypeOK'
  <2>1. pusher' \in {"idle", "head", "tail", "done"}
    OBVIOUS
  <2>2. toClient' \in Seq(Plain \cup Chunk \cup {Garbage})
    BY DEF Packet
  <2> QED
    BY <1>1, <2>1, <2>2 DEF IInv, TypeOK
<1>3. ThreadInv' /\ UniqueInv'
  BY <1>1 DEF IInv, ThreadInv, UniqueInv
<1>4. WaitInv'
  <2>1. \A u \in Threads, k \in {"send", "wait"} : Waiting(u, k)' => Waiting(u, k)
    BY <1>1 DEF Waiting, Broken
  <2>2. \A j : Requested(j)' <=> Requested(j)
    BY <1>1 DEF Requested
  <2>3. \A u \in Threads, k \in {"send", "wait"} : Waiting(u, k) => req_id[u] \in pending_requests
    BY DEF IInv, WaitInv
  <2> QED
    BY <1>1, <2>1, <2>2, <2>3, WaitKept DEF IInv
<1>5. DownloadInv'
  <2>1. \A n : Asked(n)' <=> Asked(n)
    BY <1>1 DEF Asked
  <2> QED
    BY <1>1, <2>1 DEF IInv, DownloadInv
<1>6. CountInv'
  BY <1>1 DEF IInv, CountInv
<1> QED
  BY <1>1, <1>2, <1>3, <1>4, <1>5, <1>6

\* The header of a chunk is pushed: it is behind all that were pushed.
LEMMA PushHeadKeeps ==
    ASSUME IInv, NEW i \in PushIds, PushHead(i)
    PROVE  IInv'
<1> DEFINE p == [id |-> i, type |-> "chunk", index |-> next_chunk, bytes |-> "half"]
<1>1. /\ pusher = "head" /\ next_chunk < Total /\ toClient' = Append(toClient, p)
      /\ pusher' = "tail" /\ next_chunk' = next_chunk
      /\ UNCHANGED conn /\ UNCHANGED threads /\ UNCHANGED stream
      /\ UNCHANGED <<next_id, pending_requests, toServer>>
  BY DEF PushHead
<1>2. i \in Ids /\ next_chunk \in 0..Total
  BY PushIdsAssumption DEF IInv, TypeOK
<1>3. p \in Packet /\ p.type = "chunk" /\ p.index = next_chunk
  BY <1>2, PacketValues
<1> HIDE DEF p
<1>4. /\ toClient' \in Seq(Packet) /\ Len(toClient) \in Nat
      /\ Len(toClient') = Len(toClient) + 1 /\ toClient'[Len(toClient) + 1] = p
      /\ \A n \in 1..Len(toClient) : toClient'[n] = toClient[n]
  BY <1>1, <1>3, QueueTypes, AppendFacts DEF IInv
<1>5. \A j : Answered(j) => Answered(j)'
  BY <1>4 DEF Answered
<1>6. /\ TypeOK' /\ ThreadInv' /\ UniqueInv' /\ WaitInv' /\ DownloadInv' /\ CountInv'
      /\ streamed' = streamed /\ chunk' = chunk /\ rx' = rx
  BY <1>1, <1>2, <1>4, <1>5, PusherKeeps
<1>7. /\ \A x : Pushed(x) => Pushed(x)' /\ x < next_chunk
      /\ \A x : x = next_chunk => Pushed(x)'
  BY <1>1, <1>2 DEF Pushed
<1>8. \A n : IsChunk(n)' => \/ IsChunk(n) /\ toClient'[n] = toClient[n] /\ Pushed(toClient[n].index)
                            \/ n = Len(toClient) + 1 /\ toClient'[n].index = next_chunk
  <2>1. ASSUME NEW n, IsChunk(n)', n # Len(toClient) + 1
        PROVE  IsChunk(n) /\ toClient'[n] = toClient[n] /\ Pushed(toClient[n].index)
    <3>1. n \in 1..Len(toClient) /\ toClient'[n] = toClient[n]
      BY <1>4, <2>1 DEF IsChunk
    <3>2. IsChunk(n)
      BY <2>1, <3>1 DEF IsChunk
    <3> QED
      BY <3>1, <3>2 DEF IInv, QueueInv
  <2> QED
    BY <1>3, <1>4, <2>1
<1>9. QueueInv'
  <2>1. ASSUME NEW n \in 1..Len(toClient'), IsChunk(n)' PROVE Pushed(toClient[n].index)'
    <3>1. PICK x : x = toClient'[n].index
      OBVIOUS
    <3>2. Pushed(x)'
      BY <1>7, <1>8, <2>1, <3>1
    <3> QED
      BY <3>1, <3>2
  <2>2. ASSUME NEW m \in 1..Len(toClient'), NEW n \in 1..Len(toClient'),
               IsChunk(m)', IsChunk(n)', m < n
        PROVE  toClient'[m].index < toClient'[n].index
    <3>1. m # Len(toClient) + 1
      BY <1>4, <2>2
    <3>2. IsChunk(m) /\ toClient'[m] = toClient[m] /\ Pushed(toClient[m].index)
      BY <1>8, <2>2, <3>1
    <3>3. CASE n = Len(toClient) + 1
      BY <1>7, <1>8, <2>2, <3>2, <3>3 DEF IsChunk
    <3>4. CASE n # Len(toClient) + 1
      BY <1>8, <2>2, <3>2, <3>4 DEF IInv, QueueInv, IsChunk
    <3> QED
      BY <3>3, <3>4
  <2> QED
    BY <2>1, <2>2 DEF QueueInv
<1>10. HandInv'
  <2>1. InHand' <=> InHand
    BY <1>6 DEF InHand
  <2>2. ASSUME InHand PROVE chunk \in Chunk /\ Pushed(chunk.index)' /\ chunk.index < next_chunk
    <3>1. PICK x : x = chunk.index
      OBVIOUS
    <3>2. Pushed(x) /\ chunk \in Chunk
      BY <2>2, <3>1 DEF IInv, HandInv
    <3>3. Pushed(x)' /\ x < next_chunk
      BY <1>7, <3>2
    <3> QED
      BY <1>6, <3>1, <3>2, <3>3
  <2>3. ASSUME InHand, NEW n \in 1..Len(toClient'), IsChunk(n)' PROVE chunk.index < toClient'[n].index
    <3>1. CASE n = Len(toClient) + 1 /\ toClient'[n].index = next_chunk
      BY <2>2, <2>3, <3>1
    <3>2. CASE IsChunk(n) /\ toClient'[n] = toClient[n]
      BY <2>3, <3>2 DEF IInv, HandInv, IsChunk
    <3> QED
      BY <1>8, <2>3, <3>1, <3>2
  <2> QED
    BY <1>6, <2>1, <2>2, <2>3 DEF HandInv
<1>11. StreamInv'
  <2>1. InHand' <=> InHand
    BY <1>6 DEF InHand
  <2>2. ASSUME NEW m \in 1..Len(streamed) PROVE Pushed(streamed[m].index)' /\ streamed[m].index < next_chunk
    <3>1. PICK x : x = streamed[m].index
      OBVIOUS
    <3>2. Pushed(x)
      BY <3>1 DEF IInv, StreamInv
    <3>3. Pushed(x)' /\ x < next_chunk
      BY <1>7, <3>2
    <3> QED
      BY <1>6, <3>1, <3>3
  <2>3. ASSUME NEW m \in 1..Len(streamed), NEW n \in 1..Len(toClient'), IsChunk(n)'
        PROVE  streamed[m].index < toClient'[n].index
    <3>1. CASE n = Len(toClient) + 1 /\ toClient'[n].index = next_chunk
      BY <2>2, <3>1
    <3>2. CASE IsChunk(n) /\ toClient'[n] = toClient[n]
      BY <3>2 DEF IInv, StreamInv, IsChunk
    <3> QED
      BY <1>8, <2>3, <3>1, <3>2
  <2> QED
    BY <1>6, <2>1, <2>2, <2>3 DEF IInv, StreamInv
<1> QED
  BY <1>6, <1>9, <1>10, <1>11 DEF IInv

\* The rest of a chunk is pushed: no packet moves and none changes its kind.
LEMMA PushTailKeeps ==
    ASSUME IInv, PushTail
    PROVE  IInv'
<1>1. /\ pusher = "tail" /\ pusher' = "head" /\ next_chunk' = next_chunk + 1
      /\ UNCHANGED conn /\ UNCHANGED threads /\ UNCHANGED stream
      /\ UNCHANGED <<next_id, pending_requests, toServer>>
  BY DEF PushTail
<1>2. next_chunk \in 0..Total /\ next_chunk < Total /\ Total \in Nat
  BY <1>1, TotalAssumption DEF IInv, TypeOK, DownloadInv
<1>3. toClient \in Seq(Packet) /\ Len(toClient) \in Nat /\ DOMAIN toClient = 1..Len(toClient)
  BY QueueTypes DEF IInv
<1>4. DOMAIN toClient' = 1..Len(toClient)
  BY <1>3 DEF PushTail
<1>5. ASSUME NEW n \in 1..Len(toClient)
      PROVE  /\ toClient'[n] \in Packet /\ toClient'[n].type = toClient[n].type
             /\ toClient'[n].id = toClient[n].id
             /\ toClient[n].type = "chunk" => toClient'[n].index = toClient[n].index
  <2>1. toClient[n] \in Packet
    BY <1>3
  <2>2. CASE toClient'[n] = toClient[n]
    BY <2>1, <2>2
  <2>3. CASE toClient'[n] # toClient[n]
    <3>1. PICK b \in {"whole", "torn"} :
              toClient[n].type = "chunk" /\ toClient'[n] = [toClient[n] EXCEPT !.bytes = b]
      BY <1>3, <2>3 DEF PushTail
    <3>2. toClient[n] \in Chunk
      BY <2>1, <3>1, PacketFacts
    <3>3. /\ toClient'[n] \in Chunk /\ toClient'[n].type = toClient[n].type
          /\ toClient'[n].id = toClient[n].id /\ toClient'[n].index = toClient[n].index
      BY <3>1, <3>2 DEF Chunk
    <3> QED
      BY <3>3 DEF Packet
  <2> QED
    BY <2>2, <2>3
<1>6. toClient' \in Seq(Packet) /\ Len(toClient') = Len(toClient)
  <2>1. toClient' = [n \in 1..Len(toClient) |-> toClient'[n]]
    BY <1>3, <1>4 DEF PushTail
  <2> QED
    BY <1>3, <1>4, <1>5, <2>1
<1>7. \A j : Answered(j) => Answered(j)'
  BY <1>5, <1>6 DEF Answered
<1>8. /\ TypeOK' /\ ThreadInv' /\ UniqueInv' /\ WaitInv' /\ DownloadInv' /\ CountInv'
      /\ streamed' = streamed /\ chunk' = chunk /\ rx' = rx
  <2>1. next_chunk' \in 0..Total
    BY <1>1, <1>2
  <2> QED
    BY <1>1, <1>6, <1>7, <2>1, PusherKeeps
<1>9. Shifted(0)
  <2>1. ASSUME NEW n \in 1..Len(toClient'), IsChunk(n)'
        PROVE  IsChunk(n + 0) /\ toClient'[n].index = toClient[n + 0].index
    <3>1. n + 0 = n /\ n \in 1..Len(toClient)
      BY <1>6
    <3>2. IsChunk(n) /\ toClient'[n].index = toClient[n].index
      BY <1>5, <2>1, <3>1 DEF IsChunk
    <3> QED
      BY <3>1, <3>2
  <2> QED
    BY <2>1 DEF Shifted
<1>10. \A x : Pushed(x) => Pushed(x)'
  BY <1>1, <1>2 DEF Pushed
<1>11. InHand' => InHand /\ chunk' = chunk
  BY <1>8 DEF InHand
<1> QED
  BY <1>8, <1>9, <1>10, <1>11, OrderKept DEF IInv

\* Nothing more is pushed.
LEMMA PushDoneKeeps ==
    ASSUME IInv, PushDone
    PROVE  IInv'
<1>1. /\ pusher \in {"head", "tail"} /\ pusher' = "done" /\ next_chunk' = next_chunk
      /\ UNCHANGED conn /\ UNCHANGED threads /\ UNCHANGED stream
      /\ UNCHANGED <<next_id, pending_requests, toServer>> /\ toClient' = toClient
  BY DEF PushDone, rvars
<1>2. next_chunk' \in 0..Total /\ toClient' \in Seq(Packet)
  BY <1>1, QueueTypes DEF IInv, TypeOK
<1>3. \A j : Answered(j) => Answered(j)'
  BY <1>1 DEF Answered
<1>4. /\ TypeOK' /\ ThreadInv' /\ UniqueInv' /\ WaitInv' /\ DownloadInv' /\ CountInv'
      /\ streamed' = streamed /\ chunk' = chunk /\ rx' = rx
  BY <1>1, <1>2, <1>3, PusherKeeps
<1>5. Shifted(0)
  BY <1>1 DEF Shifted, IsChunk
<1>6. \A x : Pushed(x) => Pushed(x)'
  BY <1>1 DEF Pushed
<1>7. InHand' => InHand /\ chunk' = chunk
  BY <1>4 DEF InHand
<1> QED
  BY <1>4, <1>5, <1>6, <1>7, OrderKept DEF IInv

-----------------------------------------------------------------------------
(* The receiver *)

\* The first packet is taken off the queue.
LEMMA TailShifts ==
    ASSUME TypeOK, toClient # <<>>, toClient' = Tail(toClient)
    PROVE  /\ toClient' \in Seq(Packet) /\ Shifted(1)
           /\ Len(toClient) \in Nat \ {0} /\ Head(toClient) = toClient[1] /\ Head(toClient) \in Packet
           /\ \A j : Answered(j) => Answered(j)' \/ (j = Head(toClient).id /\ Head(toClient).type \in Answers)
<1>1. /\ Len(toClient) \in Nat \ {0} /\ Head(toClient) = toClient[1] /\ Head(toClient) \in Packet
      /\ toClient' \in Seq(Packet) /\ Len(toClient') = Len(toClient) - 1
      /\ \A n \in 1..Len(toClient') : toClient'[n] = toClient[n + 1]
  BY QueueTypes, TailFacts
<1>2. Shifted(1)
  <2>1. ASSUME NEW n \in 1..Len(toClient'), IsChunk(n)'
        PROVE  IsChunk(n + 1) /\ toClient'[n].index = toClient[n + 1].index
    BY <1>1, <2>1 DEF IsChunk
  <2> QED
    BY <2>1 DEF Shifted
<1>3. ASSUME NEW j, Answered(j)
      PROVE  Answered(j)' \/ (j = Head(toClient).id /\ Head(toClient).type \in Answers)
  <2>1. PICK n \in 1..Len(toClient) : toClient[n].id = j /\ toClient[n].type \in Answers
    BY <1>3 DEF Answered
  <2>2. CASE n = 1
    BY <1>1, <2>1, <2>2
  <2>3. CASE n # 1
    <3>1. n - 1 \in 1..Len(toClient') /\ (n - 1) + 1 = n
      BY <1>1, <2>1, <2>3
    <3>2. toClient'[n - 1].id = j /\ toClient'[n - 1].type \in Answers
      BY <1>1, <2>1, <3>1
    <3> QED
      BY <3>1, <3>2 DEF Answered
  <2> QED
    BY <2>2, <2>3
<1> QED
  BY <1>1, <1>2, <1>3

\* A chunk is taken, with the beginning of what follows when it is torn.
LEMMA TakeChunkFacts ==
    ASSUME TypeOK, TakeChunk
    PROVE  /\ toClient' \in Seq(Packet) /\ Head(toClient) = toClient[1] /\ Head(toClient) \in Chunk
           /\ 1 \in 1..Len(toClient) /\ IsChunk(1) /\ rx = "loop"
           /\ \E k \in {0, 1} : Shifted(k) /\ \A n \in 1..Len(toClient') : IsChunk(n)' => n + k > 1
           /\ \A j : Answered(j) => Answered(j)'
<1>1. /\ rx = "loop" /\ toClient # <<>> /\ Head(toClient).type = "chunk"
      /\ \/ toClient' = <<Garbage>> \o Tail(toClient)
         \/ toClient' = Tail(toClient)
  BY DEF TakeChunk
<1>2. /\ Len(toClient) \in Nat \ {0} /\ Head(toClient) = toClient[1] /\ Head(toClient) \in Packet
  BY <1>1, QueueTypes, TailFacts
<1>3. Head(toClient) \in Chunk /\ 1 \in 1..Len(toClient) /\ IsChunk(1)
  BY <1>1, <1>2, PacketFacts DEF IsChunk
<1>4. CASE toClient' = Tail(toClient)
  <2>1. toClient' \in Seq(Packet) /\ Shifted(1) /\ \A j : Answered(j) => Answered(j)'
    BY <1>1, <1>4, TailShifts DEF Answers
  <2>2. \A n \in 1..Len(toClient') : n + 1 > 1
    BY <2>1
  <2> QED
    BY <1>1, <1>2, <1>3, <2>1, <2>2
<1>5. CASE toClient' = <<Garbage>> \o Tail(toClient)
  <2>1. Garbage \in Packet /\ Garbage.type = "garbage"
    BY PacketValues
  <2>2. /\ toClient' \in Seq(Packet) /\ Len(toClient') = Len(toClient) /\ toClient'[1] = Garbage
        /\ \A n \in 2..Len(toClient) : toClient'[n] = toClient[n]
    BY <1>1, <1>5, <2>1, QueueTypes, TornFacts
  <2>3. ASSUME NEW n \in 1..Len(toClient'), IsChunk(n)'
        PROVE  IsChunk(n + 0) /\ toClient'[n].index = toClient[n + 0].index /\ n + 0 > 1
    <3>1. n # 1
      BY <2>1, <2>2, <2>3 DEF IsChunk
    <3>2. n \in 2..Len(toClient) /\ n + 0 = n /\ n + 0 > 1 /\ n \in 1..Len(toClient)
      BY <1>2, <2>2, <3>1
    <3>3. toClient'[n] = toClient[n]
      BY <2>2, <3>2
    <3> QED
      BY <2>3, <3>2, <3>3 DEF IsChunk
  <2>4. \A j : Answered(j) => Answered(j)'
    <3>1. ASSUME NEW j, Answered(j) PROVE Answered(j)'
      <4>1. PICK n \in 1..Len(toClient) : toClient[n].id = j /\ toClient[n].type \in Answers
        BY <3>1 DEF Answered
      <4>2. n # 1
        BY <1>1, <1>2, <4>1 DEF Answers
      <4>3. n \in 2..Len(toClient) /\ n \in 1..Len(toClient')
        BY <1>2, <2>2, <4>1, <4>2
      <4> QED
        BY <2>2, <4>1, <4>3 DEF Answered
    <3> QED
      BY <3>1
  <2>5. Shifted(0) /\ \A n \in 1..Len(toClient') : IsChunk(n)' => n + 0 > 1
    BY <2>3 DEF Shifted
  <2> QED
    BY <1>1, <1>2, <1>3, <2>2, <2>4, <2>5
<1> QED
  BY <1>1, <1>4, <1>5

\* A step of the receiver that changes no thread keeps what is about threads.
LEMMA ReceiverKeeps ==
    ASSUME IInv, UNCHANGED <<sock, peer, pushed>>, UNCHANGED threads, UNCHANGED push,
           UNCHANGED <<next_id, pending_requests, toServer, active_downloader, result>>,
           running' \in {running, FALSE}, rx' \in {"loop", "check", "write", "ended"},
           rx = "ended" => rx' = "ended", toClient' \in Seq(Packet),
           \A j \in pending_requests : Answered(j) => Answered(j)',
           expected_chunk' \in 0..Total, error_occurred' \in BOOLEAN, ev' \in BOOLEAN,
           chunk' \in Chunk \cup {NoPacket}, streamed' \in Seq(Chunk)
    PROVE  TypeOK' /\ ThreadInv' /\ UniqueInv' /\ WaitInv' /\ DownloadInv'
<1>1. /\ pc' = pc /\ kind' = kind /\ req_id' = req_id /\ header' = header /\ next_id' = next_id
      /\ pending_requests' = pending_requests /\ toServer' = toServer
      /\ sock' = sock /\ peer' = peer /\ pushed' = pushed
      /\ pusher' = pusher /\ next_chunk' = next_chunk
      /\ active_downloader' = active_downloader /\ result' = result
  BY DEF threads, push
<1>2. TypeOK'
  <2>1. toClient' \in Seq(Plain \cup Chunk \cup {Garbage})
    BY DEF Packet
  <2>2. running' \in BOOLEAN
    BY DEF IInv, TypeOK
  <2> QED
    BY <1>1, <2>1, <2>2 DEF IInv, TypeOK
<1>3. ThreadInv' /\ UniqueInv'
  BY <1>1 DEF IInv, ThreadInv, UniqueInv
<1>4. WaitInv'
  <2>1. Broken => Broken'
    BY <1>1, BrokenStays
  <2>2. \A u \in Threads, k \in {"send", "wait"} : Waiting(u, k)' => Waiting(u, k)
    BY <1>1, <2>1 DEF Waiting
  <2>3. \A j : Requested(j)' <=> Requested(j)
    BY <1>1 DEF Requested
  <2>4. \A u \in Threads, k \in {"send", "wait"} : Waiting(u, k) => req_id[u] \in pending_requests
    BY DEF IInv, WaitInv
  <2> QED
    BY <1>1, <2>2, <2>3, <2>4, WaitKept DEF IInv
<1>5. DownloadInv'
  <2>1. \A n : Asked(n)' <=> Asked(n)
    BY <1>1 DEF Asked
  <2> QED
    BY <1>1, <2>1 DEF IInv, DownloadInv
<1> QED
  BY <1>2, <1>3, <1>4, <1>5

\* A packet is given to the thread that waits for its id, and to nobody else.
LEMMA DeliverKeeps ==
    ASSUME IInv, NEW p \in Plain \cup Chunk, NEW k \in {0, 1}, rx = "loop", Deliver(p.id, p), LoopOn,
           toClient' \in Seq(Packet), Shifted(k), \A j : Answered(j) => Answered(j)' \/ j = p.id,
           UNCHANGED push, UNCHANGED stream,
           UNCHANGED <<sock, peer, pushed, next_id, toServer, pc, kind, req_id>>
    PROVE  IInv'
<1>1. /\ pc' = pc /\ kind' = kind /\ req_id' = req_id /\ next_id' = next_id /\ toServer' = toServer
      /\ sock' = sock /\ peer' = peer /\ pushed' = pushed /\ running' = running
      /\ pusher' = pusher /\ next_chunk' = next_chunk /\ expected_chunk' = expected_chunk
      /\ active_downloader' = active_downloader /\ result' = result
      /\ error_occurred' = error_occurred /\ ev' = ev /\ chunk' = chunk /\ streamed' = streamed
      /\ rx' \in {"loop", "ended"}
  BY DEF push, stream, LoopOn
<1>2. /\ pending_requests' = pending_requests \ {p.id}
      /\ header' = [t \in Threads |-> IF req_id[t] = p.id /\ pc[t] \in {"send", "wait"}
                                      THEN p ELSE header[t]]
  BY DEF Deliver
<1>3. p # NoPacket
  BY PacketAssumption
<1>4. TypeOK'
  <2>1. header' \in [Threads -> Plain \cup Chunk \cup {NoPacket}]
    BY <1>2 DEF IInv, TypeOK
  <2>2. pending_requests' \subseteq 1..(next_id - 1)
    BY <1>2 DEF IInv, TypeOK
  <2>3. toClient' \in Seq(Plain \cup Chunk \cup {Garbage})
    BY DEF Packet
  <2> QED
    BY <1>1, <2>1, <2>2, <2>3 DEF IInv, TypeOK
<1>5. ThreadInv' /\ UniqueInv'
  BY <1>1 DEF IInv, ThreadInv, UniqueInv
<1>6. WaitInv'
  <2>1. Broken => Broken'
    BY <1>1, BrokenStays
  <2>2. ASSUME NEW u \in Threads, NEW l \in {"send", "wait"}, Waiting(u, l)'
        PROVE  Waiting(u, l) /\ req_id[u] # p.id
    <3>1. header'[u] = NoPacket /\ pc[u] = l /\ ~Broken
      BY <1>1, <2>1, <2>2 DEF Waiting
    <3>2. header'[u] = IF req_id[u] = p.id /\ pc[u] \in {"send", "wait"} THEN p ELSE header[u]
      BY <1>2
    <3> QED
      BY <1>3, <3>1, <3>2 DEF Waiting
  <2>3. \A j : Requested(j)' <=> Requested(j)
    BY <1>1 DEF Requested
  <2>4. \A u \in Threads, l \in {"send", "wait"} : Waiting(u, l) => req_id[u] \in pending_requests
    BY DEF IInv, WaitInv
  <2>5. \A u \in Threads, l \in {"send", "wait"} : Waiting(u, l)' => req_id[u] \in pending_requests'
    BY <1>2, <2>2, <2>4
  <2> QED
    BY <1>1, <2>2, <2>3, <2>5, WaitKept DEF IInv
<1>7. DownloadInv'
  <2>1. \A n : Asked(n)' <=> Asked(n)
    BY <1>1 DEF Asked
  <2> QED
    BY <1>1, <2>1 DEF IInv, DownloadInv
<1>8. QueueInv' /\ HandInv' /\ StreamInv'
  <2>1. \A x : Pushed(x) => Pushed(x)'
    BY <1>1 DEF Pushed
  <2>2. InHand' => InHand /\ chunk' = chunk
    BY <1>1 DEF InHand
  <2> QED
    BY <1>1, <2>1, <2>2, OrderKept DEF IInv
<1>9. CountInv'
  BY <1>1 DEF IInv, CountInv
<1> QED
  BY <1>4, <1>5, <1>6, <1>7, <1>8, <1>9 DEF IInv

\* An answer or an event whose id has a callback.
LEMMA ReceiveMatchedKeeps ==
    ASSUME IInv, ReceiveMatched, UNCHANGED <<push, stream>>
    PROVE  IInv'
<1>1. PICK p : p = Head(toClient)
  OBVIOUS
<1>2. /\ rx = "loop" /\ toClient # <<>> /\ p.type \in PlainTypes /\ Deliver(p.id, p) /\ LoopOn
      /\ toClient' = Tail(toClient) /\ UNCHANGED push /\ UNCHANGED stream
      /\ UNCHANGED <<sock, peer, pushed, next_id, toServer, pc, kind, req_id>>
  BY <1>1 DEF ReceiveMatched
<1>3. /\ toClient' \in Seq(Packet) /\ Shifted(1) /\ p \in Packet
      /\ \A j : Answered(j) => Answered(j)' \/ j = p.id
  BY <1>1, <1>2, TailShifts DEF IInv
<1>4. p \in Plain \cup Chunk
  BY <1>2, <1>3, PacketFacts
<1> QED
  BY <1>2, <1>3, <1>4, DeliverKeeps

\* A chunk whose id has a callback.
LEMMA ReceiveChunkMatchedKeeps ==
    ASSUME IInv, ReceiveChunkMatched
    PROVE  IInv'
<1>1. PICK p : p = Head(toClient)
  OBVIOUS
<1>2. /\ TakeChunk /\ Deliver(p.id, p) /\ LoopOn /\ UNCHANGED push /\ UNCHANGED stream
      /\ UNCHANGED <<sock, peer, pushed, next_id, toServer, pc, kind, req_id>>
  BY <1>1 DEF ReceiveChunkMatched
<1>3. /\ toClient' \in Seq(Packet) /\ p \in Plain \cup Chunk /\ rx = "loop"
      /\ \A j : Answered(j) => Answered(j)' \/ j = p.id
  BY <1>1, <1>2, TakeChunkFacts DEF IInv
<1>4. PICK k \in {0, 1} : Shifted(k)
  BY <1>2, TakeChunkFacts DEF IInv
<1> QED
  BY <1>2, <1>3, <1>4, DeliverKeeps

\* A packet without a callback.
LEMMA ReceiveUnmatchedKeeps ==
    ASSUME IInv, ReceiveUnmatched, UNCHANGED <<push, stream>>
    PROVE  IInv'
<1>1. PICK p : p = Head(toClient)
  OBVIOUS
<1>2. /\ rx = "loop" /\ toClient # <<>> /\ toClient' = Tail(toClient) /\ p.id \notin pending_requests
      /\ rx' \in {"loop", "ended"} /\ running' \in {running, FALSE}
      /\ UNCHANGED push /\ UNCHANGED threads /\ UNCHANGED <<sock, peer, pushed>>
      /\ UNCHANGED <<next_id, pending_requests, toServer, active_downloader, result>>
      /\ UNCHANGED <<expected_chunk, error_occurred, ev, chunk, streamed>>
  BY <1>1 DEF ReceiveUnmatched, LoopOn, LoopEnd, stream
<1>3. /\ toClient' \in Seq(Packet) /\ Shifted(1)
      /\ \A j \in pending_requests : Answered(j) => Answered(j)'
  BY <1>1, <1>2, TailShifts DEF IInv
<1>4. TypeOK' /\ ThreadInv' /\ UniqueInv' /\ WaitInv' /\ DownloadInv'
  <2>1. /\ expected_chunk' \in 0..Total /\ error_occurred' \in BOOLEAN /\ ev' \in BOOLEAN
        /\ chunk' \in Chunk \cup {NoPacket} /\ streamed' \in Seq(Chunk)
    BY <1>2 DEF IInv, TypeOK
  <2> QED
    BY <1>2, <1>3, <2>1, ReceiverKeeps
<1>5. QueueInv' /\ HandInv' /\ StreamInv'
  <2>1. \A x : Pushed(x) => Pushed(x)'
    BY <1>2 DEF Pushed, push
  <2>2. InHand' => InHand /\ chunk' = chunk
    BY <1>2 DEF InHand
  <2> QED
    BY <1>2, <1>3, <2>1, <2>2, OrderKept DEF IInv
<1>6. CountInv'
  BY <1>2 DEF IInv, CountInv
<1> QED
  BY <1>4, <1>5, <1>6 DEF IInv

\* A chunk is taken into the hands, or dropped for want of a downloader.
LEMMA ReceiveChunkKeeps ==
    ASSUME IInv, ReceiveChunk
    PROVE  IInv'
<1>1. /\ TakeChunk /\ running' = running
      /\ \/ rx' \in {"loop", "ended"} /\ chunk' = chunk
         \/ rx' = "check" /\ chunk' = Head(toClient)
      /\ UNCHANGED push /\ UNCHANGED threads /\ UNCHANGED <<sock, peer, pushed>>
      /\ UNCHANGED <<next_id, pending_requests, toServer, active_downloader, result>>
      /\ UNCHANGED <<expected_chunk, error_occurred, ev, streamed>>
  BY DEF ReceiveChunk, LoopOn
<1>2. /\ toClient' \in Seq(Packet) /\ Head(toClient) = toClient[1] /\ Head(toClient) \in Chunk
      /\ 1 \in 1..Len(toClient) /\ IsChunk(1) /\ rx = "loop"
      /\ \A j : Answered(j) => Answered(j)'
  BY <1>1, TakeChunkFacts DEF IInv
<1>3. PICK k \in {0, 1} : Shifted(k) /\ \A n \in 1..Len(toClient') : IsChunk(n)' => n + k > 1
  BY <1>1, TakeChunkFacts DEF IInv
<1>4. TypeOK' /\ ThreadInv' /\ UniqueInv' /\ WaitInv' /\ DownloadInv'
  <2>1. /\ expected_chunk' \in 0..Total /\ error_occurred' \in BOOLEAN /\ ev' \in BOOLEAN
        /\ chunk' \in Chunk \cup {NoPacket} /\ streamed' \in Seq(Chunk)
    BY <1>1, <1>2 DEF IInv, TypeOK
  <2>2. running' \in {running, FALSE} /\ rx' \in {"loop", "check", "write", "ended"} /\ rx # "ended"
    BY <1>1, <1>2
  <2> QED
    BY <1>1, <1>2, <2>1, <2>2, ReceiverKeeps
<1>5. \A x : Pushed(x) => Pushed(x)'
  BY <1>1 DEF Pushed, push
<1>6. ~InHand
  BY <1>2 DEF InHand
<1>7. QueueInv' /\ HandInv' /\ StreamInv'
  <2>1. CASE rx' \in {"loop", "ended"} /\ chunk' = chunk
    <3>1. InHand' => InHand /\ chunk' = chunk
      BY <2>1 DEF InHand
    <3> QED
      BY <1>1, <1>3, <1>5, <3>1, OrderKept DEF IInv
  <2>2. CASE rx' = "check" /\ chunk' = Head(toClient)
    <3>1. ASSUME NEW n \in 1..Len(toClient'), IsChunk(n)'
          PROVE  /\ IsChunk(n + k) /\ toClient'[n].index = toClient[n + k].index
                 /\ n + k \in 1..Len(toClient) /\ 1 < n + k
      BY <1>3, <3>1 DEF Shifted, IsChunk
    <3>2. QueueInv'
      <4>1. ASSUME NEW n \in 1..Len(toClient'), IsChunk(n)' PROVE Pushed(toClient[n].index)'
        <5>1. PICK x : x = toClient'[n].index
          OBVIOUS
        <5>2. Pushed(x)
          BY <3>1, <4>1, <5>1 DEF IInv, QueueInv
        <5>3. Pushed(x)'
          BY <1>5, <5>2
        <5> QED
          BY <5>1, <5>3
      <4>2. ASSUME NEW m \in 1..Len(toClient'), NEW n \in 1..Len(toClient'),
                   IsChunk(m)', IsChunk(n)', m < n
            PROVE  toClient'[m].index < toClient'[n].index
        <5>1. m + k < n + k
          BY <4>2
        <5> QED
          BY <3>1, <4>2, <5>1 DEF IInv, QueueInv
      <4> QED
        BY <4>1, <4>2 DEF QueueInv
    <3>3. HandInv'
      <4>1. PICK x : x = toClient[1].index
        OBVIOUS
      <4>2. Pushed(x)' /\ chunk' \in Chunk /\ chunk'.index = x
        BY <1>2, <1>5, <2>2, <4>1 DEF IInv, QueueInv
      <4>3. Pushed(chunk.index)'
        BY <4>2
      <4>4. \A n \in 1..Len(toClient') : IsChunk(n)' => x < toClient'[n].index
        BY <1>2, <3>1, <4>1 DEF IInv, QueueInv
      <4> QED
        BY <4>2, <4>3, <4>4 DEF HandInv
    <3>4. StreamInv'
      <4>1. ASSUME NEW m \in 1..Len(streamed) PROVE Pushed(streamed[m].index)'
        <5>1. PICK x : x = streamed[m].index
          OBVIOUS
        <5>2. Pushed(x)'
          BY <1>5, <5>1 DEF IInv, StreamInv
        <5> QED
          BY <1>1, <5>1, <5>2
      <4>2. \A m \in 1..Len(streamed) : streamed[m].index < chunk'.index
        BY <1>2, <2>2 DEF IInv, StreamInv
      <4>3. \A m \in 1..Len(streamed), n \in 1..Len(toClient') :
                IsChunk(n)' => streamed[m].index < toClient'[n].index
        BY <3>1 DEF IInv, StreamInv
      <4> QED
        BY <1>1, <4>1, <4>2, <4>3 DEF IInv, StreamInv
    <3> QED
      BY <3>2, <3>3, <3>4
  <2> QED
    BY <1>1, <2>1, <2>2
<1>8. CountInv'
  BY <1>1 DEF IInv, CountInv
<1> QED
  BY <1>4, <1>7, <1>8 DEF IInv

\* The downloader is still there, or the receiver ends.
LEMMA UseDownloaderKeeps ==
    ASSUME IInv, UseDownloader
    PROVE  IInv'
<1>1. /\ rx = "check" /\ toClient' = toClient /\ running' \in {running, FALSE}
      /\ \/ rx' = "ended" /\ chunk' = NoPacket
         \/ rx' = "write" /\ chunk' = chunk
      /\ UNCHANGED push /\ UNCHANGED threads /\ UNCHANGED <<sock, peer, pushed>>
      /\ UNCHANGED <<next_id, pending_requests, toServer, active_downloader, result>>
      /\ UNCHANGED <<expected_chunk, error_occurred, ev, streamed>>
  BY DEF UseDownloader, LoopEnd
<1>2. TypeOK' /\ ThreadInv' /\ UniqueInv' /\ WaitInv' /\ DownloadInv'
  <2>1. /\ expected_chunk' \in 0..Total /\ error_occurred' \in BOOLEAN /\ ev' \in BOOLEAN
        /\ chunk' \in Chunk \cup {NoPacket} /\ streamed' \in Seq(Chunk)
    BY <1>1 DEF IInv, TypeOK
  <2>2. rx' \in {"loop", "check", "write", "ended"} /\ rx # "ended" /\ toClient' \in Seq(Packet)
    BY <1>1, QueueTypes DEF IInv
  <2>3. \A j \in pending_requests : Answered(j) => Answered(j)'
    BY <1>1 DEF Answered
  <2> QED
    BY <1>1, <2>1, <2>2, <2>3, ReceiverKeeps
<1>3. QueueInv' /\ HandInv' /\ StreamInv'
  <2>1. Shifted(0) /\ \A x : Pushed(x) => Pushed(x)'
    BY <1>1 DEF Shifted, IsChunk, Pushed, push
  <2>2. InHand' => InHand /\ chunk' = chunk
    BY <1>1 DEF InHand
  <2> QED
    BY <1>1, <2>1, <2>2, OrderKept DEF IInv
<1>4. CountInv'
  BY <1>1 DEF IInv, CountInv
<1> QED
  BY <1>2, <1>3, <1>4 DEF IInv

\* The chunk is counted and streamed, or the response is found broken.
LEMMA WriteChunkKeeps ==
    ASSUME IInv, WriteChunk
    PROVE  IInv'
<1>1. /\ rx = "write" /\ toClient' = toClient /\ running' = running /\ chunk' = NoPacket
      /\ rx' \in {"loop", "ended"}
      /\ UNCHANGED push /\ UNCHANGED threads /\ UNCHANGED <<sock, peer, pushed>>
      /\ UNCHANGED <<next_id, pending_requests, toServer, active_downloader, result>>
  BY DEF WriteChunk, LoopOn
<1>2. \/ /\ streamed' = streamed /\ expected_chunk' = expected_chunk
         /\ \/ ev' = ev /\ error_occurred' = error_occurred
            \/ ev' = TRUE /\ error_occurred' = TRUE
      \/ /\ ~error_occurred /\ Streamed
  BY DEF WriteChunk, StreamFails
<1>3. /\ chunk \in Chunk /\ Pushed(chunk.index) /\ InHand
      /\ \A n \in 1..Len(toClient) : IsChunk(n) => chunk.index < toClient[n].index
  BY <1>1 DEF IInv, HandInv, InHand
<1>4. /\ streamed \in Seq(Chunk) /\ Len(streamed) \in Nat /\ expected_chunk = Len(streamed)
      /\ \A m \in 1..Len(streamed) : streamed[m] \in Chunk
      /\ ev \in BOOLEAN /\ error_occurred \in BOOLEAN
  BY DEF IInv, TypeOK, CountInv
<1>5. Len(streamed) + 1 <= chunk.index + 1 /\ chunk.index + 1 <= Total /\ chunk.index \in 0..Total
  <2>1. chunk.index \in 0..Total /\ chunk.index < Total /\ Total \in Nat
    BY <1>3, TotalAssumption DEF Pushed
  <2>2. CASE Len(streamed) = 0
    BY <2>1, <2>2
  <2>3. CASE Len(streamed) # 0
    <3>1. Len(streamed) \in 1..Len(streamed)
      BY <1>4, <2>3
    <3>2. PICK x \in 0..Total : x = streamed[Len(streamed)].index
      BY <1>4, <3>1 DEF Chunk
    <3>3. Len(streamed) <= x + 1 /\ x < chunk.index
      BY <1>3, <3>1, <3>2 DEF IInv, StreamInv
    <3> QED
      BY <1>4, <2>1, <3>2, <3>3
  <2> QED
    BY <2>2, <2>3
<1>6. Shifted(0) /\ \A x : Pushed(x) => Pushed(x)'
  BY <1>1 DEF Shifted, IsChunk, Pushed, push
<1>7. ~InHand'
  BY <1>1 DEF InHand
<1>8. ASSUME /\ expected_chunk' \in 0..Total /\ error_occurred' \in BOOLEAN /\ ev' \in BOOLEAN
             /\ streamed' \in Seq(Chunk)
      PROVE  TypeOK' /\ ThreadInv' /\ UniqueInv' /\ WaitInv' /\ DownloadInv'
  <2>1. rx' \in {"loop", "check", "write", "ended"} /\ rx # "ended" /\ toClient' \in Seq(Packet)
    BY <1>1, QueueTypes DEF IInv
  <2>2. \A j \in pending_requests : Answered(j) => Answered(j)'
    BY <1>1 DEF Answered
  <2> QED
    BY <1>1, <1>8, <2>1, <2>2, ReceiverKeeps
<1>9. CASE /\ streamed' = streamed /\ expected_chunk' = expected_chunk
           /\ \/ ev' = ev /\ error_occurred' = error_occurred
              \/ ev' = TRUE /\ error_occurred' = TRUE
  <2>1. TypeOK' /\ ThreadInv' /\ UniqueInv' /\ WaitInv' /\ DownloadInv'
    <3>1. expected_chunk' \in 0..Total /\ streamed' \in Seq(Chunk)
      BY <1>9 DEF IInv, TypeOK
    <3>2. error_occurred' \in BOOLEAN /\ ev' \in BOOLEAN
      BY <1>4, <1>9
    <3> QED
      BY <1>8, <3>1, <3>2
  <2>2. QueueInv' /\ HandInv' /\ StreamInv'
    BY <1>6, <1>7, <1>9, OrderKept DEF IInv
  <2>3. CountInv'
    BY <1>9 DEF IInv, CountInv
  <2> QED
    BY <2>1, <2>2, <2>3 DEF IInv
<1>10. CASE ~error_occurred /\ Streamed
  <2>1. /\ streamed' = Append(streamed, chunk) /\ expected_chunk' = Len(streamed) + 1
        /\ ev' = (Len(streamed) + 1 >= Total \/ ev) /\ error_occurred' = error_occurred
    BY <1>4, <1>10 DEF Streamed
  <2>2. /\ streamed' \in Seq(Chunk) /\ Len(streamed') = Len(streamed) + 1
        /\ streamed'[Len(streamed) + 1] = chunk
        /\ \A n \in 1..Len(streamed) : streamed'[n] = streamed[n]
    BY <1>3, <1>4, <2>1, AppendFacts
  <2>3. Len(streamed) + 1 <= Total /\ Total \in Nat
    BY <1>4, <1>5, TotalAssumption
  <2>4. TypeOK' /\ ThreadInv' /\ UniqueInv' /\ WaitInv' /\ DownloadInv'
    <3>1. expected_chunk' \in 0..Total
      BY <1>4, <2>1, <2>3
    <3>2. error_occurred' \in BOOLEAN /\ ev' \in BOOLEAN
      BY <1>4, <2>1
    <3> QED
      BY <1>8, <2>2, <3>1, <3>2
  <2>5. QueueInv'
    BY <1>1 DEF IInv, QueueInv, IsChunk, Pushed, push
  <2>6. HandInv'
    BY <1>7 DEF HandInv
  <2>7. ASSUME NEW m \in 1..Len(streamed')
        PROVE  \/ m \in 1..Len(streamed) /\ streamed'[m] = streamed[m]
               \/ m = Len(streamed) + 1 /\ streamed'[m] = chunk
    BY <1>4, <2>2, <2>7
  <2>8. ASSUME NEW m \in 1..Len(streamed')
        PROVE  /\ Pushed(streamed[m].index)' /\ m <= streamed'[m].index + 1
               /\ \A n \in 1..Len(toClient') : IsChunk(n)' => streamed'[m].index < toClient'[n].index
    <3>1. PICK x : x = streamed'[m].index
      OBVIOUS
    <3>2. /\ Pushed(x) /\ m <= x + 1
          /\ \A n \in 1..Len(toClient) : IsChunk(n) => x < toClient[n].index
      BY <1>3, <1>5, <2>7, <3>1 DEF IInv, StreamInv
    <3>3. Pushed(x)'
      BY <1>6, <3>2
    <3>4. \A n \in 1..Len(toClient') : IsChunk(n)' => x < toClient'[n].index
      BY <1>1, <3>2 DEF IsChunk
    <3> QED
      BY <3>1, <3>2, <3>3, <3>4
  <2>9. ASSUME NEW m \in 1..Len(streamed'), NEW n \in 1..Len(streamed'), m < n
        PROVE  streamed'[m].index < streamed'[n].index
    <3>1. m \in 1..Len(streamed) /\ streamed'[m] = streamed[m]
      BY <1>4, <2>2, <2>9
    <3>2. CASE n \in 1..Len(streamed) /\ streamed'[n] = streamed[n]
      BY <2>9, <3>1, <3>2 DEF IInv, StreamInv
    <3>3. CASE n = Len(streamed) + 1 /\ streamed'[n] = chunk
      BY <1>3, <3>1, <3>3 DEF IInv, StreamInv
    <3> QED
      BY <2>7, <3>2, <3>3
  <2>10. StreamInv'
    BY <1>7, <2>8, <2>9 DEF StreamInv
  <2>11. CountInv'
    <3>1. expected_chunk' = Len(streamed')
      BY <2>1, <2>2
    <3>2. ASSUME ev' PROVE Len(streamed') = Total
      <4>1. CASE ev
        BY <1>4, <1>10, <2>3, <4>1 DEF IInv, CountInv
      <4>2. CASE Len(streamed) + 1 >= Total
        BY <1>4, <2>2, <2>3, <4>2
      <4> QED
        BY <2>1, <3>2, <4>1, <4>2
    <3> QED
      BY <3>1, <3>2 DEF CountInv
  <2> QED
    BY <2>4, <2>5, <2>6, <2>10, <2>11 DEF IInv
<1> QED
  BY <1>2, <1>9, <1>10

-----------------------------------------------------------------------------
(* The invariant *)

\* Nothing is under way at the beginning.
LEMMA InitIInv == Init => IInv
<1> SUFFICES ASSUME Init PROVE IInv
  OBVIOUS
<1>1. /\ running = TRUE /\ sock = "open" /\ peer = "open" /\ rx = "loop" /\ next_id = 1
      /\ pending_requests = {} /\ toServer = <<>> /\ toClient = <<>> /\ pushed = 0
      /\ pc = [t \in Threads |-> "idle"] /\ kind = [t \in Threads |-> "sync"]
      /\ req_id = [t \in Threads |-> NoId] /\ header = [t \in Threads |-> NoPacket]
      /\ pusher = "idle" /\ next_chunk = 0 /\ active_downloader = NoThread
      /\ expected_chunk = 0 /\ error_occurred = FALSE /\ ev = FALSE /\ chunk = NoPacket
      /\ streamed = <<>> /\ result = "open"
  BY DEF Init, RInit
<1>2. Len(toServer) = 0 /\ Len(toClient) = 0 /\ Len(streamed) = 0
  BY <1>1
<1>3. TypeOK
  <2>1. next_id \in 1..(MaxId + 1) /\ pushed \in 0..MaxPush
    BY <1>1, BoundsAssumption
  <2>2. next_chunk \in 0..Total /\ expected_chunk \in 0..Total
    BY <1>1, TotalAssumption
  <2>3. /\ toServer \in Seq([id : Ids, kind : Kinds]) /\ streamed \in Seq(Chunk)
        /\ toClient \in Seq(Plain \cup Chunk \cup {Garbage})
    BY <1>1
  <2>4. /\ pc \in [Threads -> {"idle", "register", "send", "wait", "ready", "stream"}]
        /\ kind \in [Threads -> Kinds] /\ req_id \in [Threads -> Ids \cup {NoId}]
        /\ header \in [Threads -> Plain \cup Chunk \cup {NoPacket}]
    BY <1>1 DEF Kinds
  <2> QED
    BY <1>1, <2>1, <2>2, <2>3, <2>4 DEF TypeOK
<1>4. ThreadInv /\ UniqueInv /\ WaitInv
  BY <1>1 DEF ThreadInv, UniqueInv, WaitInv, Waiting
<1>5. DownloadInv
  BY <1>1, <1>2, DownloaderAssumption DEF DownloadInv
<1>6. QueueInv /\ HandInv /\ StreamInv /\ CountInv
  BY <1>1, <1>2 DEF QueueInv, HandInv, InHand, StreamInv, CountInv
<1> QED
  BY <1>3, <1>4, <1>5, <1>6 DEF IInv

\* A step of the connection, its threads, the server or the receiver.
LEMMA RNextKeeps ==
    ASSUME IInv, RNext, UNCHANGED <<push, stream>>
    PROVE  IInv'
<1>1. UNCHANGED push /\ UNCHANGED stream
  OBVIOUS
<1>2. ASSUME NEW t \in Threads, ThreadStep(t) \/ Timeout(t) PROVE IInv'
  <2>1. CASE Register(t)
    BY <2>1, RegisterKeeps
  <2>2. CASE Send(t)
    BY <2>2, SendKeeps
  <2>3. CASE SendFails(t) \/ Return(t) \/ Timeout(t)
    BY <2>3, DoneSteps, DoneKeeps
  <2> QED
    BY <1>2, <2>1, <2>2, <2>3 DEF ThreadStep
<1>3. ASSUME NEW t \in Requesters, NEW k \in {"sync", "raw"}, Begin(t, k) PROVE IInv'
  <2>1. t \in Threads /\ t # Downloader /\ k \in Kinds /\ k # "download"
    BY RequestersAssumption, DownloaderAssumption DEF Kinds
  <2> QED
    BY <1>3, <2>1, BeginKeeps
<1>4. CASE Disconnect \/ ServerClose \/ ReceiveEnd
  <2>1. /\ UNCHANGED threads /\ UNCHANGED <<next_id, pending_requests, toServer, toClient>>
        /\ pushed' = pushed /\ running' \in {running, FALSE} /\ sock' \in {sock, "closed"}
        /\ peer' \in {peer, "closed"} /\ rx' \in {rx, "ended"}
    BY <1>4 DEF Disconnect, ServerClose, ReceiveEnd, LoopEnd
  <2> QED
    BY <1>1, <2>1, LinkKeeps
<1>5. CASE Serve
  <2>1. /\ peer = "open" /\ toServer # <<>> /\ toServer' = Tail(toServer)
        /\ toClient' = Append(toClient, [id |-> Head(toServer).id, type |-> "answer"])
        /\ pusher' = (IF Head(toServer).kind = "download" THEN "head" ELSE pusher)
        /\ UNCHANGED <<conn, next_id, pending_requests, threads, next_chunk, stream>>
    BY <1>1, <1>5 DEF Serve, push
  <2>2. "answer" \in Answers
    BY DEF Answers
  <2> QED
    BY <2>1, <2>2, ServeKeeps
<1>6. ASSUME NEW i \in PushIds, Push(i) PROVE IInv'
  BY <1>6, PushKeeps
<1>7. CASE ReceiveMatched
  BY <1>7, ReceiveMatchedKeeps
<1>8. CASE ReceiveUnmatched
  BY <1>8, ReceiveUnmatchedKeeps
<1> QED
  BY <1>2, <1>3, <1>4, <1>5, <1>6, <1>7, <1>8 DEF RNext, ServerStep, ReceiverStep

\* The request of a download is served or refused.
LEMMA ServeDownloadKeeps ==
    ASSUME IInv, ServeDownload
    PROVE  IInv'
<1>1. PICK y \in Answers :
          /\ peer = "open" /\ toServer # <<>> /\ toServer' = Tail(toServer)
          /\ toClient' = Append(toClient, [id |-> Head(toServer).id, type |-> y])
          /\ pusher' = (IF y = "answer" /\ Head(toServer).kind = "download" THEN "head" ELSE pusher)
          /\ UNCHANGED <<conn, next_id, pending_requests, threads, next_chunk, stream>>
  BY DEF ServeDownload, Answers
<1> QED
  BY <1>1, ServeKeeps

\* The invariant is inductive.
LEMMA NextIInv == IInv /\ [Next]_vars => IInv'
<1> SUFFICES ASSUME IInv, [Next]_vars PROVE IInv'
  OBVIOUS
<1>1. CASE RNext /\ UNCHANGED <<push, stream>>
  BY <1>1, RNextKeeps
<1>2. CASE BeginDownload
  BY <1>2, BeginKeeps, DownloaderAssumption DEF BeginDownload, Kinds
<1>3. CASE NotReady \/ StreamDone \/ StreamTimeout
  BY <1>3, DoneSteps, DoneKeeps, DownloaderAssumption
<1>4. CASE Ready
  BY <1>4, DoneSteps, DoneKeeps, StreamBeginsKeeps, DownloaderAssumption
<1>5. CASE SetDownloader
  BY <1>5, StreamBeginsKeeps
<1>6. CASE ServeDownload
  BY <1>6, ServeDownloadKeeps
<1>7. CASE PusherStep
  BY <1>7, PushHeadKeeps, PushTailKeeps, PushDoneKeeps DEF PusherStep
<1>8. CASE ReceiveChunkMatched
  BY <1>8, ReceiveChunkMatchedKeeps
<1>9. CASE ReceiveChunk
  BY <1>9, ReceiveChunkKeeps
<1>10. CASE UseDownloader
  BY <1>10, UseDownloaderKeeps
<1>11. CASE WriteChunk
  BY <1>11, WriteChunkKeeps
<1>12. CASE ReceiveBroken
  <2>1. /\ UNCHANGED threads /\ UNCHANGED <<next_id, pending_requests, toServer, toClient>>
        /\ UNCHANGED push /\ UNCHANGED stream
        /\ pushed' = pushed /\ running' \in {running, FALSE} /\ sock' \in {sock, "closed"}
        /\ peer' \in {peer, "closed"} /\ rx' \in {rx, "ended"}
    BY <1>12 DEF ReceiveBroken, LoopEnd
  <2> QED
    BY <2>1, LinkKeeps
<1>13. CASE UNCHANGED vars
  <2>1. /\ UNCHANGED threads /\ UNCHANGED <<next_id, pending_requests, toServer, toClient>>
        /\ UNCHANGED push /\ UNCHANGED stream /\ UNCHANGED conn
    BY <1>13 DEF vars, rvars
  <2>2. pushed' = pushed /\ running' = running /\ sock' = sock /\ peer' = peer /\ rx' = rx
    BY <2>1 DEF conn
  <2> QED
    BY <2>1, <2>2, LinkKeeps
<1> QED
  BY <1>1, <1>2, <1>3, <1>4, <1>5, <1>6, <1>7, <1>8, <1>9, <1>10, <1>11, <1>12, <1>13
     DEF Next, DownloadStep

\* The invariant holds throughout.
THEOREM Invariance == Spec => []IInv
<1>1. Init => IInv
  BY InitIInv
<1>2. IInv /\ [Next]_vars => IInv'
  BY NextIInv
<1> QED
  BY <1>1, <1>2, PTL DEF Spec

\* No thread waits in vain while the connection is up: its callback is
\* registered and its request or answer is under way, whatever ids the pushed
\* packets carry (send_request, routes.py:309).
THEOREM WaitsTheorem == Spec => []WaitsForSomething
<1>1. IInv => WaitsForSomething
  <2> SUFFICES ASSUME IInv, NEW t \in Threads, Waiting(t, "wait")
               PROVE  /\ req_id[t] \in pending_requests
                      /\ \/ \E n \in DOMAIN toServer : toServer[n].id = req_id[t]
                         \/ \E n \in DOMAIN toClient : /\ toClient[n].id = req_id[t]
                                                       /\ toClient[n].type # "event"
    BY DEF WaitsForSomething, Waiting
  <2>1. DOMAIN toServer = 1..Len(toServer) /\ DOMAIN toClient = 1..Len(toClient)
    BY QueueTypes DEF IInv
  <2> QED
    BY <2>1 DEF IInv, WaitInv, Requested, Answered, Answers
<1> QED
  BY <1>1, Invariance, PTL

\* A downloader that chunks are handed to has its thread, and none is left when
\* the response is over (routes.py:470-472).
THEOREM DownloaderTheorem == Spec => []DownloaderWaits
<1>1. IInv => DownloaderWaits
  <2> SUFFICES ASSUME IInv PROVE DownloaderWaits
    OBVIOUS
  <2>1. active_downloader # NoThread => pc[Downloader] = "stream"
    BY DEF IInv, DownloadInv
  <2>2. result # "open" => pc[Downloader] = "idle"
    BY DEF IInv, DownloadInv
  <2> QED
    BY <2>1, <2>2 DEF IInv, DownloaderWaits
<1> QED
  BY <1>1, Invariance, PTL

\* What is streamed is in order and without repetition, and a response that
\* ends because all chunks were counted has all of them (routes.py:464).
THEOREM StreamedTheorem == Spec => []StreamedInOrder
<1>1. IInv => StreamedInOrder
  <2> SUFFICES ASSUME IInv PROVE StreamedInOrder
    OBVIOUS
  <2>1. DOMAIN streamed = 1..Len(streamed)
    BY QueueTypes DEF IInv
  <2>2. \A m, n \in DOMAIN streamed : m < n => Indices[m] < Indices[n]
    BY <2>1 DEF IInv, StreamInv, Indices
  <2>3. ev /\ ~error_occurred => Len(streamed) = Total
    BY DEF IInv, CountInv
  <2> QED
    BY <2>2, <2>3 DEF StreamedInOrder
<1> QED
  BY <1>1, Invariance, PTL
=============================================================================
