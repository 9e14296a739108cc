--------------------------- MODULE WebSessionProofs ---------------------------
(***************************************************************************)
(* Proofs about a web session of the bridge, for every number of           *)
(* connections, rooms and pollers.  That the browser is where it was told  *)
(* to be follows from what can still be under way on the connection the    *)
(* session uses (no request to leave, requests to join one room only, none *)
(* to authenticate once it has joined, and a confirmation only of what the *)
(* server has done), and from what the other threads of the server can do  *)
(* to it: remove it in a kick, and delete its room without the lock.       *)
(***************************************************************************)
EXTENDS WebSession, SequenceTheorems, TLAPS

Requests == {q \in [type : {"AUTH_BACKEND", "JOIN_ROOM_BACKEND", "LEAVE_ROOM"},
                    room : Rooms \cup {NoRoom}] : q.type = "JOIN_ROOM_BACKEND" => q.room \in Rooms}

\* The variables of the routes, the receivers and the queue, ...
RouteTypes ==
    /\ pc \in {"idle", "connect", "auth", "auth_wait", "join", "join_wait"}
    /\ want \in Rooms \cup {NoRoom} /\ told \in Rooms \cup {NoRoom}
    /\ answer \in {"none", "ok", "error"}
    /\ room_conn \in Conns \cup {NoConn}
    /\ running \in [Conns -> BOOLEAN] /\ closed \in [Conns -> BOOLEAN]
    /\ rx \in [Conns -> {"none", "recv", "ended"}]
    /\ poll \in [Pollers -> {"idle", "waiting", "woken", "done"}] /\ page \in Pollers

\* ... and those of the server, with the packets on the way.
ThreadTypes ==
    /\ peer \in [Everyone -> {"none", "open", "closed"}]
    /\ at \in [Everyone -> Labels] /\ target \in [Others -> Conns \cup {NoConn}]
    /\ lock \in Everyone \cup {NoConn}
    /\ stuck \subseteq Everyone
    /\ toServer \in [Conns -> Seq(Requests)]

TableTypes ==
    /\ clients \subseteq Everyone
    /\ current \in [Everyone -> Rooms \cup {NoRoom}]
    /\ home \in [Everyone -> Rooms \cup {NoRoom}]
    /\ open \subseteq Rooms /\ rooms \in [Rooms -> SUBSET Everyone]
    /\ shut \subseteq Conns /\ kicked \subseteq Conns /\ wiped \subseteq Everyone
    /\ talked \in 0..MaxTalk /\ breaks \subseteq Everyone

TypeInv ==
    /\ RouteTypes /\ ThreadTypes /\ TableTypes
    /\ toClient \in [Conns -> Seq(Packets)]

\* A connection that was never connected has no packets.
FreshInv ==
    \A c \in Conns : peer[c] = "none" =>
        toServer[c] = <<>> /\ toClient[c] = <<>> /\ ~running[c] /\ rx[c] # "recv"

\* The thread of the join route has a connection and a room, and an answer only
\* while it waits for one; a room that was told is the one asked for last.
RouteInv ==
    /\ pc # "idle" => room_conn \in Conns
    /\ room_conn \in Conns => want \in Rooms
    /\ pc = "connect" => peer[room_conn] = "none"
    /\ answer # "none" => pc \in {"auth_wait", "join_wait"}
    /\ told # NoRoom => pc = "idle" /\ told = want /\ room_conn \in Conns

\* Every number is in the queue or was handed out, in order.
QueueInv ==
    /\ pushed \in Nat /\ events \in Seq(Nat) /\ handed \in Seq(Nat)
    /\ handed \o events = [n \in 1..pushed |-> n]

-----------------------------------------------------------------------------
(* The threads of the server *)

Inner == {"check", "discard", "empty", "del", "reset"}

Kicks(t) == t \in Others /\ target[t] # NoConn

\* Where a thread may be: _leave_room_logic runs under the lock just when it is
\* called by _cleanup_client, for a client that was kicked or whose socket is
\* closed, and then it deletes empty rooms only.
ThreadOK(t) ==
    /\ peer[t] = "none" => at[t] = "ended"
    /\ peer[t] = "open" /\ ~Kicks(t) => at[t] \in Inner \cup {"recv", "join", "greet", "part"}
    /\ peer[t] = "closed" => at[t] \in Inner \cup {"clean", "forget", "mourn", "ended"}
    /\ Kicks(t) => /\ peer[t] = "open"
                   /\ at[t] \in Inner \cup {"notice", "clean", "forget", "mourn", "shut"}
    /\ at[t] \in Inner => (lock = t <=> Kicks(t) \/ peer[t] = "closed")
    /\ lock = t => at[t] \in Inner \cup {"join", "forget"}
    /\ at[t] \in {"join", "forget"} => lock = t
    /\ Kicks(t) /\ at[t] \notin {"notice", "clean"} => target[t] \in kicked
    /\ at[t] = "del" /\ lock = t => \A r \in Rooms : home[About(t)] = r => rooms[r] = {}

ThreadInv == \A t \in Everyone : ThreadOK(t)

-----------------------------------------------------------------------------
(* The connection the session uses *)

\* No request asks to leave, and none for another room.
OnlyAsks(s, r) ==
    \A n \in 1..Len(s) :
        /\ s[n].type # "LEAVE_ROOM"
        /\ s[n].type = "JOIN_ROOM_BACKEND" => s[n].room = r

AsksAuth(s) == \E n \in 1..Len(s) : s[n].type = "AUTH_BACKEND"

\* The server confirms a join.
Confirmation == [type |-> "JOIN_ROOM_BACKEND", ok |-> TRUE]

Confirms(s) == \E n \in 1..Len(s) : s[n] = Confirmation

\* The server answers nothing.
Quiet(s) == \A n \in 1..Len(s) : s[n] = Event

Confirmed == \/ told # NoRoom
             \/ pc = "join_wait" /\ answer = "ok"
             \/ Confirms(toClient[room_conn])

Placed(u) == u \in clients /\ current[u] = want /\ u \in rooms[want] \cup wiped

\* It has requests for one room, its handler is in no leave, and what was
\* confirmed is so, unless it was kicked or its end is closed.
JoinOK(u) ==
    /\ OnlyAsks(toServer[u], want)
    /\ peer[u] = "open" => at[u] \in {"recv", "join", "greet"}
    /\ at[u] \in {"join", "greet"} => home[u] = want
    /\ peer[u] = "open" /\ u \notin kicked =>
          /\ at[u] = "join" => u \in clients
          /\ Confirmed \/ at[u] = "greet" => Placed(u)

\* Until its AUTH_BACKEND is handled it has asked for nothing else.
AuthOK(u) ==
    pc \in {"connect", "auth"} \/ AsksAuth(toServer[u]) =>
        /\ pc \in {"connect", "auth", "auth_wait", "idle"}
        /\ pc \in {"connect", "auth"} => toServer[u] = <<>>
        /\ Len(toServer[u]) <= 1
        /\ at[u] \notin {"join", "greet"}
        /\ Quiet(toClient[u]) /\ answer = "none" /\ told = NoRoom

JoinInv == room_conn \in Conns => JoinOK(room_conn) /\ AuthOK(room_conn)

IInv == TypeInv /\ OneOpenConnection /\ FreshInv /\ RouteInv /\ ThreadInv /\ JoinInv /\ QueueInv

-----------------------------------------------------------------------------
(* Lemmas about packets and queues *)

\* A queue with one more at its end.
LEMMA AppendFacts ==
    ASSUME NEW S, NEW s \in Seq(S), NEW e \in S
    PROVE  /\ Append(s, e) \in Seq(S) /\ Len(Append(s, e)) = Len(s) + 1 /\ Len(s) \in Nat
           /\ Append(s, e)[Len(s) + 1] = e
           /\ \A n \in 1..Len(s) : Append(s, e)[n] = s[n]
OBVIOUS

\* A queue without its first.
LEMMA TailFacts ==
    ASSUME NEW S, NEW s \in Seq(S), s # <<>>
    PROVE  /\ Len(s) \in Nat \ {0} /\ Head(s) = s[1] /\ Head(s) \in S
           /\ Tail(s) \in Seq(S) /\ Len(Tail(s)) = Len(s) - 1
           /\ \A n \in 1..Len(Tail(s)) : Tail(s)[n] = s[n + 1] /\ n + 1 \in 1..Len(s)
<1>1. Len(s) \in Nat \ {0}
  OBVIOUS
<1>2. Head(s) = s[1] /\ Tail(s) \in Seq(S) /\ Len(Tail(s)) = Len(s) - 1
  BY <1>1
<1>3. s[1] \in S
  BY <1>1
<1>4. \A n \in 1..Len(Tail(s)) : Tail(s)[n] = s[n + 1]
  BY <1>1
<1>5. \A n \in 1..Len(Tail(s)) : n + 1 \in 1..Len(s)
  BY <1>1, <1>2
<1> QED
  BY <1>1, <1>2, <1>3, <1>4, <1>5

\* A packet that is no confirmation confirms nothing, and an event is no answer.
LEMMA PacketsAppend ==
    ASSUME NEW s \in Seq(Packets), NEW e \in Packets
    PROVE  /\ Append(s, e) \in Seq(Packets)
           /\ Confirms(Append(s, e)) => Confirms(s) \/ e = Confirmation
           /\ Quiet(s) /\ e = Event => Quiet(Append(s, e))
<1>1. /\ Append(s, e) \in Seq(Packets) /\ Len(Append(s, e)) = Len(s) + 1 /\ Len(s) \in Nat
      /\ Append(s, e)[Len(s) + 1] = e
      /\ \A n \in 1..Len(s) : Append(s, e)[n] = s[n]
  BY AppendFacts
<1>2. \A n \in 1..(Len(s) + 1) : n \in 1..Len(s) \/ n = Len(s) + 1
  BY <1>1
<1> QED
  BY <1>1, <1>2 DEF Confirms, Quiet

\* What is left confirms what there was.
LEMMA PacketsTail ==
    ASSUME NEW s \in Seq(Packets), s # <<>>
    PROVE  /\ Tail(s) \in Seq(Packets) /\ Head(s) \in Packets
           /\ Confirms(Tail(s)) \/ Head(s) = Confirmation => Confirms(s)
           /\ Quiet(s) => Quiet(Tail(s)) /\ Head(s) = Event
<1>1. /\ Len(s) \in Nat \ {0} /\ Head(s) = s[1] /\ Head(s) \in Packets
      /\ Tail(s) \in Seq(Packets) /\ Len(Tail(s)) = Len(s) - 1
      /\ \A n \in 1..Len(Tail(s)) : Tail(s)[n] = s[n + 1] /\ n + 1 \in 1..Len(s)
  BY TailFacts
<1> QED
  BY <1>1 DEF Confirms, Quiet

\* An empty queue confirms nothing and asks for nothing.
LEMMA EmptyFacts ==
    /\ ~Confirms(<<>>) /\ Quiet(<<>>) /\ ~AsksAuth(<<>>) /\ Len(<<>>) <= 1
    /\ \A r : OnlyAsks(<<>>, r)
BY DEF Confirms, Quiet, AsksAuth, OnlyAsks

\* A request is added that does not ask for anything else.
LEMMA AsksAppend ==
    ASSUME NEW s \in Seq(Requests), NEW e \in Requests
    PROVE  /\ Append(s, e) \in Seq(Requests)
           /\ AsksAuth(Append(s, e)) => AsksAuth(s) \/ e.type = "AUTH_BACKEND"
           /\ s = <<>> => Len(Append(s, e)) <= 1
           /\ \A r : /\ OnlyAsks(s, r) /\ e.type # "LEAVE_ROOM"
                     /\ e.type = "JOIN_ROOM_BACKEND" => e.room = r
                     => OnlyAsks(Append(s, e), r)
<1>1. /\ Append(s, e) \in Seq(Requests) /\ Len(Append(s, e)) = Len(s) + 1 /\ Len(s) \in Nat
      /\ Append(s, e)[Len(s) + 1] = e
      /\ \A n \in 1..Len(s) : Append(s, e)[n] = s[n]
  BY AppendFacts
<1>2. \A n \in 1..(Len(s) + 1) : n \in 1..Len(s) \/ n = Len(s) + 1
  BY <1>1
<1>3. s = <<>> => Len(s) = 0
  OBVIOUS
<1> QED
  BY <1>1, <1>2, <1>3 DEF OnlyAsks, AsksAuth

\* The first of the requests asks for nothing else, nor do the others.
LEMMA AsksTail ==
    ASSUME NEW s \in Seq(Requests), s # <<>>
    PROVE  /\ Tail(s) \in Seq(Requests) /\ Head(s) \in Requests
           /\ Head(s).type = "AUTH_BACKEND" => AsksAuth(s)
           /\ AsksAuth(Tail(s)) => AsksAuth(s) /\ ~(Len(s) <= 1)
           /\ AsksAuth(s) /\ Len(s) <= 1 => Head(s).type = "AUTH_BACKEND"
           /\ \A r : OnlyAsks(s, r) =>
                /\ OnlyAsks(Tail(s), r) /\ Head(s).type # "LEAVE_ROOM"
                /\ Head(s).type = "JOIN_ROOM_BACKEND" => Head(s).room = r
<1>1. /\ Len(s) \in Nat \ {0} /\ Head(s) = s[1] /\ Head(s) \in Requests
      /\ Tail(s) \in Seq(Requests) /\ Len(Tail(s)) = Len(s) - 1
      /\ \A n \in 1..Len(Tail(s)) : Tail(s)[n] = s[n + 1] /\ n + 1 \in 1..Len(s)
  BY TailFacts
<1>2. 1 \in 1..Len(s)
  BY <1>1
<1>3. ASSUME NEW r, OnlyAsks(s, r)
      PROVE  /\ OnlyAsks(Tail(s), r) /\ Head(s).type # "LEAVE_ROOM"
             /\ Head(s).type = "JOIN_ROOM_BACKEND" => Head(s).room = r
  BY <1>1, <1>2, <1>3 DEF OnlyAsks
<1>4. Head(s).type = "AUTH_BACKEND" => AsksAuth(s)
  BY <1>1, <1>2 DEF AsksAuth
<1>5. AsksAuth(Tail(s)) => AsksAuth(s) /\ ~(Len(s) <= 1)
  BY <1>1 DEF AsksAuth
<1>6. AsksAuth(s) /\ Len(s) <= 1 => Head(s).type = "AUTH_BACKEND"
  <2>1. Len(s) <= 1 => 1..Len(s) = {1}
    BY <1>1
  <2> QED
    BY <1>1, <2>1 DEF AsksAuth
<1> QED
  BY <1>1, <1>3, <1>4, <1>5, <1>6

\* The packets of the server.
LEMMA PacketFacts ==
    /\ \A y \in {"AUTH_BACKEND", "JOIN_ROOM_BACKEND", "LEAVE_ROOM", "SYSTEM_EVENT"}, k \in BOOLEAN :
          (y = "SYSTEM_EVENT" => k) => [type |-> y, ok |-> k] \in Packets
    /\ \A y \in {"AUTH_BACKEND", "LEAVE_ROOM", "SYSTEM_EVENT"} : \A k : [type |-> y, ok |-> k] # Confirmation
    /\ \A k \in BOOLEAN : [type |-> "JOIN_ROOM_BACKEND", ok |-> k] = Confirmation => k
    /\ Event \in Packets /\ Event # Confirmation /\ Confirmation \in Packets
    /\ \A p \in Packets : p.type = "JOIN_ROOM_BACKEND" /\ p.ok => p = Confirmation
<1>1. Event \in Packets /\ Event # Confirmation /\ Confirmation \in Packets
  BY DEF Packets, Event, Confirmation
<1>2. \A p \in Packets : p.type = "JOIN_ROOM_BACKEND" /\ p.ok => p = Confirmation
  BY DEF Packets, Confirmation
<1>3. \A y \in {"AUTH_BACKEND", "LEAVE_ROOM", "SYSTEM_EVENT"} : \A k : [type |-> y, ok |-> k] # Confirmation
  BY DEF Confirmation
<1>4. \A k \in BOOLEAN : [type |-> "JOIN_ROOM_BACKEND", ok |-> k] = Confirmation => k
  BY DEF Confirmation
<1>5. \A y \in {"AUTH_BACKEND", "JOIN_ROOM_BACKEND", "LEAVE_ROOM", "SYSTEM_EVENT"}, k \in BOOLEAN :
          (y = "SYSTEM_EVENT" => k) => [type |-> y, ok |-> k] \in Packets
  BY DEF Packets
<1> QED
  BY <1>1, <1>2, <1>3, <1>4, <1>5

\* What is heard after s, if nothing but events was sent.
Hears(s, q) == (Confirms(q) => Confirms(s)) /\ (Quiet(s) => Quiet(q))

\* A packet reaches the connections it is for, if they receive.
LEMMA SendFacts ==
    ASSUME NEW ds, NEW p \in Packets, NEW sent \in [Conns -> Seq(Packets)]
    PROVE  /\ Send(ds, p, sent) \in [Conns -> Seq(Packets)]
           /\ \A c \in Conns : /\ c \notin ds \/ rx[c] # "recv" => Send(ds, p, sent)[c] = sent[c]
                               /\ Confirms(Send(ds, p, sent)[c]) => Confirms(sent[c]) \/ p = Confirmation
                               /\ p = Event => Hears(sent[c], Send(ds, p, sent)[c])
<1>1. \A c \in Conns : /\ Append(sent[c], p) \in Seq(Packets)
                       /\ Confirms(Append(sent[c], p)) => Confirms(sent[c]) \/ p = Confirmation
                       /\ Quiet(sent[c]) /\ p = Event => Quiet(Append(sent[c], p))
  BY PacketsAppend
<1>2. PICK q : q = Send(ds, p, sent)
  OBVIOUS
<1>3. q = [c \in Conns |-> IF c \in ds /\ rx[c] = "recv" THEN Append(sent[c], p) ELSE sent[c]]
  BY <1>2 DEF Send
<1>4. q \in [Conns -> Seq(Packets)]
  BY <1>1, <1>3
<1>5. \A c \in Conns : c \notin ds \/ rx[c] # "recv" => q[c] = sent[c]
  BY <1>3
<1>6. \A c \in Conns : Confirms(q[c]) => Confirms(sent[c]) \/ p = Confirmation
  BY <1>1, <1>3
<1>7. \A c \in Conns : p = Event => Hears(sent[c], q[c])
  BY <1>1, <1>3, PacketFacts DEF Hears
<1> QED
  BY <1>2, <1>4, <1>5, <1>6, <1>7

\* A broadcast confirms nothing.
LEMMA BroadcastFacts ==
    ASSUME NEW r, NEW sent \in [Conns -> Seq(Packets)]
    PROVE  /\ Broadcast(r, sent) \in [Conns -> Seq(Packets)]
           /\ \A c \in Conns : /\ Hears(sent[c], Broadcast(r, sent)[c])
                               /\ rx[c] # "recv" => Broadcast(r, sent)[c] = sent[c]
<1>1. PICK ds : ds = {c \in rooms[r] : peer[c] = "open" /\ c \notin shut}
  OBVIOUS
<1>2. Broadcast(r, sent) = Send(ds, Event, sent)
  BY <1>1 DEF Broadcast
<1>3. Event \in Packets
  BY PacketFacts
<1>4. /\ Send(ds, Event, sent) \in [Conns -> Seq(Packets)]
      /\ \A c \in Conns : /\ rx[c] # "recv" => Send(ds, Event, sent)[c] = sent[c]
                          /\ Hears(sent[c], Send(ds, Event, sent)[c])
  BY <1>3, SendFacts
<1> QED
  BY <1>2, <1>4

-----------------------------------------------------------------------------
(* The event queue *)

\* Numbers that follow numbers.
LEMMA NumbersFollow ==
    ASSUME NEW m \in Nat, NEW k \in Nat
    PROVE  /\ [n \in 1..m |-> n] \in Seq(Nat) /\ [n \in 1..k |-> m + n] \in Seq(Nat)
           /\ [n \in 1..m |-> n] \o [n \in 1..k |-> m + n] = [n \in 1..(m + k) |-> n]
<1> DEFINE s == [n \in 1..m |-> n]
           t == [n \in 1..k |-> m + n]
<1>1. s \in Seq(Nat) /\ Len(s) = m /\ \A n \in 1..m : s[n] = n
  OBVIOUS
<1>2. t \in Seq(Nat) /\ Len(t) = k /\ \A n \in 1..k : t[n] = m + n
  OBVIOUS
<1> HIDE DEF s, t
<1>3. /\ s \o t \in Seq(Nat) /\ Len(s \o t) = m + k
      /\ \A n \in 1..(m + k) : (s \o t)[n] = IF n <= m THEN s[n] ELSE t[n - m]
  BY <1>1, <1>2, ConcatProperties
<1>4. \A n \in 1..(m + k) : (s \o t)[n] = n
  <2>1. ASSUME NEW n \in 1..(m + k) PROVE (s \o t)[n] = n
    <3>1. CASE n <= m
      <4>1. n \in 1..m
        BY <3>1
      <4> QED
        BY <1>1, <1>3, <3>1, <4>1
    <3>2. CASE ~(n <= m)
      <4>1. n - m \in 1..k /\ m + (n - m) = n
        BY <3>2
      <4> QED
        BY <1>2, <1>3, <3>2, <4>1
    <3> QED
      BY <3>1, <3>2
  <2> QED
    BY <2>1
<1>5. s \o t = [n \in 1..(m + k) |-> n]
  <2>1. PICK w : w = s \o t
    OBVIOUS
  <2>2. w \in Seq(Nat) /\ Len(w) = m + k /\ \A n \in 1..(m + k) : w[n] = n
    BY <1>3, <1>4, <2>1, Zenon
  <2>3. w = [n \in 1..(m + k) |-> n]
    BY <2>2
  <2> QED
    BY <2>1, <2>3
<1> QED
  BY <1>1, <1>2, <1>5 DEF s, t

\* Numbers handed out, in the queue and new ones.
LEMMA ConcatRegroup ==
    ASSUME NEW s \in Seq(Nat), NEW t \in Seq(Nat), NEW u \in Seq(Nat)
    PROVE  t \o u \in Seq(Nat) /\ (s \o t) \o u = s \o (t \o u)
BY ConcatProperties, ConcatAssociative

\* push_event adds the next numbers.
LEMMA PushKeeps ==
    ASSUME QueueInv, NEW k \in Nat, Push(k)
    PROVE  QueueInv'
<1> DEFINE new == [n \in 1..k |-> pushed + n]
<1>1. pushed' = pushed + k /\ events' = events \o new /\ handed' = handed
  BY DEF Push
<1>2. /\ pushed \in Nat /\ events \in Seq(Nat) /\ handed \in Seq(Nat)
      /\ handed \o events = [n \in 1..pushed |-> n]
  BY DEF QueueInv
<1>3. new \in Seq(Nat) /\ [n \in 1..pushed |-> n] \o new = [n \in 1..(pushed + k) |-> n]
  BY <1>2, NumbersFollow
<1> HIDE DEF new
<1>4. events \o new \in Seq(Nat) /\ (handed \o events) \o new = handed \o (events \o new)
  <2>1. handed \in Seq(Nat) /\ events \in Seq(Nat) /\ new \in Seq(Nat)
    BY <1>2, <1>3
  <2> QED
    BY <2>1, ConcatRegroup
<1>5. handed' \o events' = [n \in 1..pushed' |-> n]
  BY <1>1, <1>2, <1>3, <1>4
<1>6. pushed' \in Nat /\ events' \in Seq(Nat) /\ handed' \in Seq(Nat)
  BY <1>1, <1>2, <1>4
<1> QED
  BY <1>5, <1>6 DEF QueueInv

\* get_events hands out what there is.
LEMMA TakenKeeps ==
    ASSUME QueueInv, NEW p \in Pollers, Take(p), pushed' = pushed
    PROVE  QueueInv'
<1>1. handed' = handed \o events /\ events' = <<>>
  BY DEF Take
<1>2. /\ pushed \in Nat /\ events \in Seq(Nat) /\ handed \in Seq(Nat)
      /\ handed \o events = [n \in 1..pushed |-> n]
  BY DEF QueueInv
<1>3. handed' \in Seq(Nat) /\ events' \in Seq(Nat) /\ handed' \o events' = handed'
  BY <1>1, <1>2, ConcatProperties, ConcatEmptySeq
<1> QED
  BY <1>1, <1>2, <1>3 DEF QueueInv

-----------------------------------------------------------------------------
(* The pollers *)

\* The server and its invariants: nothing of them changes with the server, the
\* packets and the route.
LEMMA ServerSame ==
    ASSUME IInv, UNCHANGED server
    PROVE  ThreadInv' /\ TableTypes' /\ peer' = peer /\ at' = at /\ home' = home
           /\ clients' = clients /\ current' = current /\ rooms' = rooms
           /\ kicked' = kicked /\ wiped' = wiped /\ target' = target /\ lock' = lock /\ stuck' = stuck
<1>1. /\ peer' = peer /\ shut' = shut /\ at' = at /\ target' = target /\ lock' = lock
      /\ clients' = clients /\ current' = current /\ home' = home /\ open' = open /\ rooms' = rooms
      /\ talked' = talked /\ breaks' = breaks
      /\ kicked' = kicked /\ wiped' = wiped /\ stuck' = stuck
  BY DEF server, thread, tables, limits, fate
<1>2. ThreadInv'
  <2>1. ThreadInv
    BY DEF IInv
  <2> QED
    BY <1>1, <2>1 DEF ThreadInv, ThreadOK, Kicks, About
<1>3. TableTypes'
  BY <1>1 DEF IInv, TypeInv, TableTypes
<1> QED
  BY <1>1, <1>2, <1>3

\* A step of a poller or of the page: only the queue changes.
LEMMA QueueStepKeeps ==
    ASSUME IInv, UNCHANGED route, UNCHANGED link, UNCHANGED wires, UNCHANGED server, QueueInv',
           poll' \in [Pollers -> {"idle", "waiting", "woken", "done"}], page' \in Pollers
    PROVE  IInv'
<1>1. /\ pc' = pc /\ want' = want /\ answer' = answer /\ room_conn' = room_conn /\ told' = told
      /\ running' = running /\ closed' = closed /\ rx' = rx
      /\ toServer' = toServer /\ toClient' = toClient
  BY DEF route, link, wires
<1>2. ThreadInv' /\ TableTypes' /\ peer' = peer /\ at' = at /\ home' = home
      /\ clients' = clients /\ current' = current /\ rooms' = rooms
      /\ kicked' = kicked /\ wiped' = wiped /\ target' = target /\ lock' = lock /\ stuck' = stuck
  BY ServerSame
<1>3. TypeInv'
  BY <1>1, <1>2 DEF IInv, TypeInv, RouteTypes, ThreadTypes
<1>4. OneOpenConnection' /\ FreshInv' /\ RouteInv'
  BY <1>1, <1>2 DEF IInv, OneOpenConnection, FreshInv, RouteInv
<1>5. JoinInv'
  BY <1>1, <1>2 DEF IInv, JoinInv, JoinOK, AuthOK, Confirmed, Placed
<1> QED
  BY <1>2, <1>3, <1>4, <1>5 DEF IInv

\* A poller asks, is handed events, or its page is loaded again.
LEMMA PollersKeep ==
    ASSUME IInv, NEW p \in Pollers, Poll(p) \/ PollWakes(p) \/ PollTimeout(p) \/ Reload(p)
    PROVE  IInv'
<1>1. UNCHANGED route /\ UNCHANGED link /\ UNCHANGED wires /\ UNCHANGED server /\ pushed' = pushed
  BY DEF Poll, PollWakes, PollTimeout, Reload
<1>2. QueueInv'
  <2>1. CASE Take(p)
    BY <1>1, <2>1, TakenKeeps DEF IInv
  <2>2. CASE UNCHANGED <<events, handed>>
    BY <1>1, <2>2 DEF IInv, QueueInv
  <2> QED
    BY <2>1, <2>2 DEF Poll, PollWakes, PollTimeout, Reload
<1>3. page' \in Pollers
  BY DEF Poll, PollWakes, PollTimeout, Reload, IInv, TypeInv, RouteTypes
<1>4. poll' \in [Pollers -> {"idle", "waiting", "woken", "done"}]
  <2>1. poll \in [Pollers -> {"idle", "waiting", "woken", "done"}]
    BY DEF IInv, TypeInv, RouteTypes
  <2>2. PICK q \in Pollers, l \in {"idle", "waiting", "done"} \cup {poll[page]} : poll' = [poll EXCEPT ![q] = l]
    <3>1. page \in Pollers
      BY DEF IInv, TypeInv, RouteTypes
    <3>2. CASE Take(p)
      BY <3>2 DEF Take
    <3>3. CASE poll' = [poll EXCEPT ![p] = "waiting"]
      BY <3>3
    <3>4. CASE Reload(p)
      BY <3>1, <3>4 DEF Reload
    <3> QED
      BY <3>2, <3>3, <3>4 DEF Poll, PollWakes, PollTimeout
  <2>3. page \in Pollers
    BY DEF IInv, TypeInv, RouteTypes
  <2> QED
    BY <2>1, <2>2, <2>3
<1> QED
  BY <1>1, <1>2, <1>3, <1>4, QueueStepKeeps

-----------------------------------------------------------------------------
(* The routes *)

\* A step of the join route that leaves the connections and their packets alone.
LEMMA RouteStepKeeps ==
    ASSUME IInv, UNCHANGED link, UNCHANGED wires, UNCHANGED server, UNCHANGED queue,
           UNCHANGED <<want, room_conn>>, pc # "idle", answer' = "none",
           pc' = "idle" \/ (pc' = "join" /\ answer # "none"),
           told' = told \/ (pc' = "idle" /\ told' = want /\ pc = "join_wait" /\ answer = "ok")
    PROVE  IInv'
<1>1. /\ want' = want /\ room_conn' = room_conn
      /\ running' = running /\ closed' = closed /\ rx' = rx
      /\ toServer' = toServer /\ toClient' = toClient
      /\ events' = events /\ pushed' = pushed /\ handed' = handed /\ poll' = poll /\ page' = page
  BY DEF link, wires, queue
<1>2. ThreadInv' /\ TableTypes' /\ peer' = peer /\ at' = at /\ home' = home
      /\ clients' = clients /\ current' = current /\ rooms' = rooms
      /\ kicked' = kicked /\ wiped' = wiped /\ target' = target /\ lock' = lock /\ stuck' = stuck
  BY ServerSame
<1>3. told = NoRoom /\ room_conn \in Conns
  BY DEF IInv, RouteInv
<1>4. TypeInv'
  BY <1>1, <1>2 DEF IInv, TypeInv, RouteTypes, ThreadTypes
<1>5. OneOpenConnection' /\ FreshInv' /\ QueueInv'
  BY <1>1, <1>2 DEF IInv, OneOpenConnection, FreshInv, QueueInv
<1>6. RouteInv'
  BY <1>1, <1>2, <1>3 DEF IInv, RouteInv
<1>7. JoinOK(room_conn)'
  <2>1. JoinOK(room_conn)
    BY <1>3 DEF IInv, JoinInv
  <2>2. Confirmed' => Confirmed
    BY <1>1, <1>3 DEF Confirmed
  <2> QED
    BY <1>1, <1>2, <2>1, <2>2 DEF JoinOK, Placed
<1>8. AuthOK(room_conn)'
  <2>1. AuthOK(room_conn)
    BY <1>3 DEF IInv, JoinInv
  <2> QED
    BY <1>1, <1>2, <1>3, <2>1 DEF AuthOK
<1> QED
  BY <1>1, <1>2, <1>4, <1>5, <1>6, <1>7, <1>8 DEF IInv, JoinInv

\* The old connection is closed and a new one in its place.
LEMMA JoinKeeps ==
    ASSUME IInv, NEW r \in Rooms, Join(r)
    PROVE  IInv'
<1>1. PICK c \in Conns : c # room_conn /\ peer[c] = "none" /\ room_conn' = c
  <2>1. PICK d : d \in Fresh
    BY DEF Join
  <2>2. room_conn' \in Fresh
    BY <2>1 DEF Join
  <2> QED
    BY <2>2 DEF Fresh
<1>2. /\ pc = "idle" /\ pc' = "connect" /\ want' = r /\ told' = NoRoom /\ answer' = answer
      /\ running' = [d \in Conns |-> running[d] /\ d # room_conn]
      /\ closed' = [d \in Conns |-> closed[d] \/ d = room_conn] /\ rx' = rx
      /\ toServer' = toServer /\ toClient' = toClient
      /\ events' = events /\ pushed' = pushed /\ handed' = handed /\ poll' = poll /\ page' = page
  BY DEF Join, wires, queue
<1>3. ThreadInv' /\ TableTypes' /\ peer' = peer /\ at' = at /\ home' = home
      /\ clients' = clients /\ current' = current /\ rooms' = rooms
      /\ kicked' = kicked /\ wiped' = wiped /\ target' = target /\ lock' = lock /\ stuck' = stuck
  BY ServerSame DEF Join
<1>4. answer = "none"
  BY <1>2 DEF IInv, RouteInv
<1>5. TypeInv'
  <2>1. running' \in [Conns -> BOOLEAN] /\ closed' \in [Conns -> BOOLEAN]
    BY <1>2
  <2> QED
    BY <1>1, <1>2, <1>3, <2>1 DEF IInv, TypeInv, RouteTypes, ThreadTypes
<1>6. \A d \in Conns : ~running'[d]
  BY <1>2 DEF IInv, OneOpenConnection
<1>7. OneOpenConnection' /\ FreshInv' /\ QueueInv'
  BY <1>2, <1>3, <1>6 DEF IInv, OneOpenConnection, FreshInv, QueueInv
<1>8. RouteInv'
  BY <1>1, <1>2, <1>3, <1>4 DEF IInv, RouteInv
<1>9. toServer[c] = <<>> /\ toClient[c] = <<>> /\ at[c] = "ended"
  <2>1. ThreadOK(c)
    BY DEF IInv, ThreadInv, Everyone
  <2> QED
    BY <1>1, <2>1 DEF IInv, FreshInv, ThreadOK
<1>10. JoinOK(c)'
  BY <1>1, <1>2, <1>3, <1>9, EmptyFacts DEF JoinOK
<1>11. AuthOK(c)'
  BY <1>1, <1>2, <1>3, <1>4, <1>9, EmptyFacts DEF AuthOK
<1> QED
  BY <1>1, <1>3, <1>5, <1>7, <1>8, <1>10, <1>11 DEF IInv, JoinInv

\* The connections of the session kick nobody, and each thread is about a client.
LEMMA KicksFacts ==
    ASSUME TypeInv, NEW t \in Everyone
    PROVE  /\ t \in Conns => ~Kicks(t) /\ t \notin Others
           /\ Kicks(t) => About(t) = target[t] /\ target[t] \in Conns /\ t # target[t]
           /\ ~Kicks(t) => About(t) = t
           /\ About(t) \in Everyone
BY NamesAssumption DEF TypeInv, ThreadTypes, Kicks, About, Everyone

\* The connection is there, or the object is left as it was.
LEMMA ConnectKeeps ==
    ASSUME IInv, Connect
    PROVE  IInv'
<1> DEFINE c == room_conn
<1>1. /\ pc = "connect" /\ want' = want /\ told' = told /\ room_conn' = room_conn
      /\ answer' = answer /\ closed' = closed
      /\ toServer' = toServer /\ toClient' = toClient /\ shut' = shut /\ target' = target /\ lock' = lock
      /\ clients' = clients /\ current' = current /\ home' = home /\ open' = open /\ rooms' = rooms
      /\ talked' = talked /\ breaks' = breaks
      /\ kicked' = kicked /\ wiped' = wiped /\ stuck' = stuck
      /\ events' = events /\ pushed' = pushed /\ handed' = handed /\ poll' = poll /\ page' = page
  BY DEF Connect, Fail, wires, tables, limits, fate, queue
<1>2. /\ c \in Conns /\ peer[c] = "none" /\ answer = "none" /\ told = NoRoom
      /\ toServer[c] = <<>> /\ toClient[c] = <<>>
  BY <1>1 DEF IInv, RouteInv, FreshInv
<1>3. CASE Fail /\ UNCHANGED <<running, rx, peer, at>>
  <2>1. UNCHANGED link /\ UNCHANGED wires /\ UNCHANGED queue /\ pc' = "idle"
    BY <1>1, <1>3 DEF Fail, link, wires, queue
  <2>2. UNCHANGED server
    BY <1>1, <1>3 DEF server, thread, tables, limits, fate
  <2> QED
    BY <1>1, <1>2, <2>1, <2>2, RouteStepKeeps
<1>4. CASE /\ running' = [running EXCEPT ![c] = TRUE]
           /\ rx' = [rx EXCEPT ![c] = "recv"]
           /\ peer' = [peer EXCEPT ![c] = "open"]
           /\ at' = [at EXCEPT ![c] = "recv"]
           /\ pc' = "auth"
  <2>1. ThreadTypes' /\ peer'[c] = "open" /\ at'[c] = "recv"
        /\ \A s \in Everyone : s # c => peer'[s] = peer[s] /\ at'[s] = at[s]
    <3>1. c \in Everyone
      BY <1>2 DEF Everyone
    <3>2. peer \in [Everyone -> {"none", "open", "closed"}] /\ at \in [Everyone -> Labels]
      BY DEF IInv, TypeInv, ThreadTypes
    <3>3. "recv" \in Labels
      BY DEF Labels
    <3>4. /\ peer' \in [Everyone -> {"none", "open", "closed"}] /\ peer'[c] = "open"
          /\ at' \in [Everyone -> Labels] /\ at'[c] = "recv"
          /\ \A s \in Everyone : s # c => peer'[s] = peer[s] /\ at'[s] = at[s]
      BY <1>4, <3>1, <3>2, <3>3
    <3> QED
      BY <1>1, <3>4 DEF IInv, TypeInv, ThreadTypes
  <2>2. TypeInv'
    <3>1. running' \in [Conns -> BOOLEAN] /\ rx' \in [Conns -> {"none", "recv", "ended"}]
      BY <1>4 DEF IInv, TypeInv, RouteTypes
    <3> QED
      BY <1>1, <1>4, <2>1, <3>1 DEF IInv, TypeInv, RouteTypes, TableTypes
  <2>3. OneOpenConnection' /\ QueueInv'
    BY <1>1, <1>4 DEF IInv, TypeInv, RouteTypes, OneOpenConnection, QueueInv
  <2>4. FreshInv'
    <3>1. \A d \in Conns : d # c => running'[d] = running[d] /\ rx'[d] = rx[d]
      BY <1>4 DEF IInv, TypeInv, RouteTypes
    <3> QED
      BY <1>1, <2>1, <3>1 DEF IInv, FreshInv, Everyone
  <2>5. RouteInv'
    BY <1>1, <1>2, <1>4 DEF IInv, RouteInv
  <2>6. ThreadInv'
    <3>1. \A s \in Everyone : s # c => ThreadOK(s)'
      BY <1>1, <2>1 DEF IInv, ThreadInv, ThreadOK, Kicks, About
    <3>2. PICK d \in Conns : d = c
      BY <1>2
    <3>3. ThreadOK(d)'
      <4>1. d \in Everyone /\ ThreadOK(d) /\ d \notin Others
        BY NamesAssumption DEF IInv, ThreadInv, Everyone
      <4>2. ~Kicks(d)'
        BY <4>1 DEF Kicks
      <4>3. at[d] = "ended"
        BY <1>2, <3>2, <4>1 DEF ThreadOK
      <4>4. lock # d
        BY <4>1, <4>3 DEF ThreadOK, Inner
      <4>5. at'[d] = "recv" /\ peer'[d] = "open" /\ lock' # d
        BY <1>1, <2>1, <3>2, <4>4
      <4> QED
        BY <4>2, <4>5 DEF ThreadOK, Inner
    <3> QED
      BY <3>1, <3>2, <3>3 DEF ThreadInv
  <2>7. JoinOK(c)'
    <3>1. ~Confirmed'
      BY <1>1, <1>2, <1>4, EmptyFacts DEF Confirmed
    <3> QED
      BY <1>1, <1>2, <2>1, <3>1, EmptyFacts DEF JoinOK
  <2>8. AuthOK(c)'
    BY <1>1, <1>2, <1>4, <2>1, EmptyFacts DEF AuthOK
  <2> QED
    BY <1>1, <2>2, <2>3, <2>4, <2>5, <2>6, <2>7, <2>8 DEF IInv, JoinInv
<1> QED
  BY <1>1, <1>3, <1>4 DEF Connect

\* A request is sent, or the connection is found to be down.
LEMMA RequestKeeps ==
    ASSUME IInv, \/ SendAuth
                 \/ SendJoin
    PROVE  IInv'
<1>1. PICK type \in {"AUTH_BACKEND", "JOIN_ROOM_BACKEND"}, wait \in {"auth_wait", "join_wait"} :
          /\ Request(type, wait)
          /\ \/ pc = "auth" /\ wait = "auth_wait"
             \/ pc = "join" /\ type = "JOIN_ROOM_BACKEND"
  BY DEF SendAuth, SendJoin
<1> DEFINE c == room_conn
           e == [type |-> type, room |-> want]
<1>2. /\ pc \in {"auth", "join"} /\ want' = want /\ told' = told /\ room_conn' = room_conn
      /\ answer' = answer /\ closed' = closed /\ rx' = rx /\ toClient' = toClient
      /\ events' = events /\ pushed' = pushed /\ handed' = handed /\ poll' = poll /\ page' = page
  BY <1>1 DEF Request, Fail, queue
<1>3. ThreadInv' /\ TableTypes' /\ peer' = peer /\ at' = at /\ home' = home
      /\ clients' = clients /\ current' = current /\ rooms' = rooms
      /\ kicked' = kicked /\ wiped' = wiped /\ target' = target /\ lock' = lock /\ stuck' = stuck
  BY <1>1, ServerSame DEF Request
<1>4. /\ c \in Conns /\ want \in Rooms /\ answer = "none" /\ told = NoRoom
      /\ toServer \in [Conns -> Seq(Requests)]
  BY <1>2 DEF IInv, RouteInv, TypeInv, ThreadTypes
<1>5. e \in Requests /\ e.type = type /\ type # "LEAVE_ROOM" /\ e.room = want
  BY <1>4 DEF Requests
<1>6. \/ /\ running[c] /\ toServer' = [toServer EXCEPT ![c] = Append(@, e)] /\ pc' = wait
         /\ running' = running
      \/ /\ running' = [running EXCEPT ![c] = FALSE] /\ pc' = "idle" /\ toServer' = toServer
  BY <1>1 DEF Request, Fail
<1> HIDE DEF e
<1>7. /\ Append(toServer[c], e) \in Seq(Requests)
      /\ OnlyAsks(toServer[c], want) => OnlyAsks(Append(toServer[c], e), want)
      /\ AsksAuth(Append(toServer[c], e)) => AsksAuth(toServer[c]) \/ type = "AUTH_BACKEND"
      /\ toServer[c] = <<>> => Len(Append(toServer[c], e)) <= 1
  BY <1>4, <1>5, AsksAppend
<1>8. toServer' \in [Conns -> Seq(Requests)] /\ \A d \in Conns : d # c => toServer'[d] = toServer[d]
  BY <1>4, <1>6, <1>7
<1>9. \A d \in Conns : running'[d] => running[d]
  BY <1>6 DEF IInv, TypeInv, RouteTypes
<1>10. TypeInv'
  <2>1. running' \in [Conns -> BOOLEAN]
    BY <1>6 DEF IInv, TypeInv, RouteTypes
  <2>2. pc' \in {"idle", "connect", "auth", "auth_wait", "join", "join_wait"}
    BY <1>6
  <2> QED
    BY <1>2, <1>3, <1>8, <2>1, <2>2 DEF IInv, TypeInv, RouteTypes, ThreadTypes
<1>11. OneOpenConnection' /\ QueueInv'
  BY <1>2, <1>9 DEF IInv, OneOpenConnection, QueueInv
<1>12. FreshInv'
  <2>1. peer[c] = "none" => toServer' = toServer
    BY <1>4, <1>6 DEF IInv, FreshInv
  <2> QED
    BY <1>2, <1>3, <1>8, <1>9, <2>1 DEF IInv, FreshInv
<1>13. RouteInv'
  BY <1>2, <1>4, <1>6 DEF IInv, RouteInv
<1>14. JoinOK(c) /\ AuthOK(c)
  BY <1>4 DEF IInv, JoinInv
<1>15. JoinOK(c)'
  <2>1. OnlyAsks(toServer'[c], want)
    BY <1>4, <1>6, <1>7, <1>14 DEF JoinOK
  <2>2. Confirmed' => Confirmed
    BY <1>2, <1>4 DEF Confirmed
  <2> QED
    BY <1>2, <1>3, <1>14, <2>1, <2>2 DEF JoinOK, Placed
<1>16. AuthOK(c)'
  <2>1. CASE pc = "auth"
    <3>1. Len(toServer'[c]) <= 1
      BY <1>4, <1>6, <1>7, <1>14, <2>1, EmptyFacts DEF AuthOK
    <3> QED
      BY <1>1, <1>2, <1>3, <1>4, <1>6, <1>14, <2>1, <3>1 DEF AuthOK
  <2>2. CASE pc = "join"
    <3>1. ~AsksAuth(toServer[c])
      BY <1>14, <2>2 DEF AuthOK
    <3>2. ~AsksAuth(toServer'[c])
      BY <1>1, <1>4, <1>6, <1>7, <2>2, <3>1
    <3>3. pc' \notin {"connect", "auth"}
      BY <1>6
    <3> QED
      BY <1>2, <3>2, <3>3 DEF AuthOK
  <2> QED
    BY <1>2, <2>1, <2>2
<1> QED
  BY <1>2, <1>3, <1>10, <1>11, <1>12, <1>13, <1>15, <1>16 DEF IInv, JoinInv

\* The session has no connection any more.
LEMMA LeaveKeeps ==
    ASSUME IInv, Leave
    PROVE  IInv'
<1> DEFINE c == room_conn
           e == [type |-> "LEAVE_ROOM", room |-> NoRoom]
<1>1. /\ pc = "idle" /\ c # NoConn /\ room_conn' = NoConn /\ told' = NoRoom
      /\ toServer' = [toServer EXCEPT ![c] = IF running[c] THEN Append(@, e) ELSE @]
      /\ running' = [running EXCEPT ![c] = FALSE] /\ closed' = [closed EXCEPT ![c] = TRUE]
      /\ pc' = pc /\ want' = want /\ answer' = answer /\ rx' = rx /\ toClient' = toClient
      /\ events' = events /\ pushed' = pushed /\ handed' = handed /\ poll' = poll /\ page' = page
  BY DEF Leave, queue
<1>2. ThreadInv' /\ TableTypes' /\ peer' = peer /\ at' = at /\ home' = home
      /\ clients' = clients /\ current' = current /\ rooms' = rooms
      /\ kicked' = kicked /\ wiped' = wiped /\ target' = target /\ lock' = lock /\ stuck' = stuck
  BY ServerSame DEF Leave
<1>3. c \in Conns /\ toServer \in [Conns -> Seq(Requests)] /\ e \in Requests /\ NoConn \notin Conns
  BY <1>1, NamesAssumption DEF IInv, TypeInv, RouteTypes, ThreadTypes, Requests, Everyone
<1> HIDE DEF e
<1>4. Append(toServer[c], e) \in Seq(Requests)
  BY <1>3, AsksAppend
<1>5. toServer' \in [Conns -> Seq(Requests)]
  BY <1>1, <1>3, <1>4
<1>6. \A d \in Conns : ~running'[d]
  BY <1>1 DEF IInv, OneOpenConnection, TypeInv, RouteTypes
<1>7. TypeInv'
  <2>1. running' \in [Conns -> BOOLEAN] /\ closed' \in [Conns -> BOOLEAN]
    BY <1>1 DEF IInv, TypeInv, RouteTypes
  <2> QED
    BY <1>1, <1>2, <1>5, <2>1 DEF IInv, TypeInv, RouteTypes, ThreadTypes
<1>8. OneOpenConnection' /\ QueueInv'
  BY <1>1, <1>6 DEF IInv, OneOpenConnection, QueueInv
<1>9. FreshInv'
  BY <1>1, <1>2, <1>3, <1>6 DEF IInv, FreshInv
<1>10. RouteInv' /\ JoinInv'
  BY <1>1, <1>3 DEF IInv, RouteInv, JoinInv
<1> QED
  BY <1>2, <1>7, <1>8, <1>9, <1>10 DEF IInv

-----------------------------------------------------------------------------
(* The receivers *)

\* What was pushed wakes the pollers.
LEMMA PushTypes ==
    ASSUME TypeInv, NEW k \in Nat, Push(k)
    PROVE  poll' \in [Pollers -> {"idle", "waiting", "woken", "done"}] /\ page' \in Pollers
BY DEF TypeInv, RouteTypes, Push

\* A receiver takes a packet, which may be the answer the route waits for.
LEMMA ReceiveKeeps ==
    ASSUME IInv, NEW c \in Conns, Receive(c)
    PROVE  IInv'
<1>1. PICK p : p = Head(toClient[c])
  OBVIOUS
<1>2. /\ toClient[c] # <<>>
      /\ toClient' = [toClient EXCEPT ![c] = IF running[c] THEN Tail(@) ELSE <<>>]
      /\ rx[c] = "recv" /\ rx' = [rx EXCEPT ![c] = IF running[c] THEN "recv" ELSE "ended"]
      /\ answer' = (IF Waits(c, p.type) THEN (IF p.ok THEN "ok" ELSE "error") ELSE answer)
      /\ Push((IF p = Event THEN 1 ELSE 0) + (IF running[c] THEN 0 ELSE 1))
      /\ pc' = pc /\ want' = want /\ room_conn' = room_conn /\ told' = told
      /\ running' = running /\ closed' = closed /\ toServer' = toServer
  BY <1>1 DEF Receive
<1>3. ThreadInv' /\ TableTypes' /\ peer' = peer /\ at' = at /\ home' = home
      /\ clients' = clients /\ current' = current /\ rooms' = rooms
      /\ kicked' = kicked /\ wiped' = wiped /\ target' = target /\ lock' = lock /\ stuck' = stuck
  BY ServerSame DEF Receive
<1>4. PICK k \in Nat : Push(k)
  <2>1. (IF p = Event THEN 1 ELSE 0) + (IF running[c] THEN 0 ELSE 1) \in Nat
    OBVIOUS
  <2> QED
    BY <1>2, <2>1
<1>5. /\ toClient \in [Conns -> Seq(Packets)] /\ Tail(toClient[c]) \in Seq(Packets) /\ p \in Packets
      /\ Confirms(Tail(toClient[c])) \/ p = Confirmation => Confirms(toClient[c])
      /\ Quiet(toClient[c]) => Quiet(Tail(toClient[c])) /\ p = Event
  <2>1. toClient \in [Conns -> Seq(Packets)] /\ toClient[c] \in Seq(Packets)
    BY DEF IInv, TypeInv
  <2> QED
    BY <1>1, <1>2, <2>1, PacketsTail
<1>6. /\ toClient' \in [Conns -> Seq(Packets)]
      /\ \A d \in Conns : d # c => toClient'[d] = toClient[d]
      /\ toClient'[c] \in {Tail(toClient[c]), <<>>}
  <2>1. <<>> \in Seq(Packets)
    OBVIOUS
  <2> QED
    BY <1>2, <1>5, <2>1
<1>7. \A d \in Conns : Hears(toClient[d], toClient'[d])
  BY <1>5, <1>6, EmptyFacts DEF Hears
<1>8. QueueInv'
  BY <1>4, PushKeeps DEF IInv
<1>9. TypeInv'
  <2>1. poll' \in [Pollers -> {"idle", "waiting", "woken", "done"}] /\ page' \in Pollers
    BY <1>4, PushTypes DEF IInv
  <2>2. rx' \in [Conns -> {"none", "recv", "ended"}]
    BY <1>2 DEF IInv, TypeInv, RouteTypes
  <2>3. answer' \in {"none", "ok", "error"}
    BY <1>2 DEF IInv, TypeInv, RouteTypes
  <2> QED
    BY <1>2, <1>3, <1>6, <2>1, <2>2, <2>3 DEF IInv, TypeInv, RouteTypes, ThreadTypes
<1>10. OneOpenConnection'
  BY <1>2 DEF IInv, OneOpenConnection
<1>11. FreshInv'
  <2>1. \A d \in Conns : d # c => rx'[d] = rx[d]
    BY <1>2 DEF IInv, TypeInv, RouteTypes
  <2>2. peer[c] # "none"
    BY <1>2 DEF IInv, FreshInv
  <2> QED
    BY <1>2, <1>3, <1>6, <2>1, <2>2 DEF IInv, FreshInv
<1>12. RouteInv'
  BY <1>2, <1>3 DEF IInv, RouteInv, Waits
<1>13. room_conn \in Conns => JoinOK(room_conn)'
  <2>1. pc = "join_wait" /\ answer' = "ok" => answer = "ok" \/ (c = room_conn /\ Confirms(toClient[c]))
    <3>1. CASE pc = "join_wait" /\ Waits(c, p.type) /\ p.ok
      <4>1. p.type = "JOIN_ROOM_BACKEND" /\ c = room_conn
        BY <3>1 DEF Waits
      <4> QED
        BY <1>5, <3>1, <4>1, PacketFacts
    <3> QED
      BY <1>2, <3>1
  <2>2. room_conn \in Conns => (Confirmed' => Confirmed)
    BY <1>2, <1>7, <2>1 DEF Confirmed, Hears
  <2> QED
    BY <1>2, <1>3, <2>2 DEF IInv, JoinInv, JoinOK, Placed
<1>14. room_conn \in Conns => AuthOK(room_conn)'
  <2>1. Quiet(toClient[room_conn]) /\ room_conn \in Conns => answer' = answer
    <3>1. Quiet(toClient[c]) => ~Waits(c, p.type)
      BY <1>5 DEF Waits, Event
    <3>2. c # room_conn => ~Waits(c, p.type)
      BY DEF Waits
    <3> QED
      BY <1>2, <3>1, <3>2
  <2> QED
    BY <1>2, <1>3, <1>7, <2>1 DEF IInv, JoinInv, AuthOK, Hears
<1> QED
  BY <1>2, <1>3, <1>8, <1>9, <1>10, <1>11, <1>12, <1>13, <1>14 DEF IInv, JoinInv

\* A receiver finds the end of its connection.
LEMMA EndsKeeps ==
    ASSUME IInv, NEW c \in Conns, rx[c] = "recv", Ends(c)
    PROVE  IInv'
<1>1. /\ rx' = [rx EXCEPT ![c] = "ended"] /\ running' = [running EXCEPT ![c] = FALSE]
      /\ toClient' = [toClient EXCEPT ![c] = <<>>]
      /\ Push(1) /\ pc' = pc /\ want' = want /\ answer' = answer /\ room_conn' = room_conn
      /\ told' = told /\ closed' = closed /\ toServer' = toServer
  BY DEF Ends, route
<1>2. ThreadInv' /\ TableTypes' /\ peer' = peer /\ at' = at /\ home' = home
      /\ clients' = clients /\ current' = current /\ rooms' = rooms
      /\ kicked' = kicked /\ wiped' = wiped /\ target' = target /\ lock' = lock /\ stuck' = stuck
  BY ServerSame DEF Ends
<1>3. QueueInv'
  BY <1>1, PushKeeps DEF IInv
<1>4. /\ toClient' \in [Conns -> Seq(Packets)]
      /\ \A d \in Conns : Hears(toClient[d], toClient'[d]) /\ (d # c => toClient'[d] = toClient[d])
  BY <1>1, EmptyFacts DEF IInv, TypeInv, Hears
<1>5. TypeInv'
  <2>1. poll' \in [Pollers -> {"idle", "waiting", "woken", "done"}] /\ page' \in Pollers
    BY <1>1, PushTypes DEF IInv
  <2>2. rx' \in [Conns -> {"none", "recv", "ended"}] /\ running' \in [Conns -> BOOLEAN]
    BY <1>1 DEF IInv, TypeInv, RouteTypes
  <2> QED
    BY <1>1, <1>2, <1>4, <2>1, <2>2 DEF IInv, TypeInv, RouteTypes, ThreadTypes
<1>6. OneOpenConnection'
  BY <1>1 DEF IInv, TypeInv, RouteTypes, OneOpenConnection
<1>7. FreshInv'
  <2>1. \A d \in Conns : d # c => rx'[d] = rx[d] /\ running'[d] = running[d]
    BY <1>1 DEF IInv, TypeInv, RouteTypes
  <2>2. peer[c] # "none"
    BY DEF IInv, FreshInv
  <2> QED
    BY <1>1, <1>2, <1>4, <2>1, <2>2 DEF IInv, FreshInv
<1>8. RouteInv'
  BY <1>1, <1>2 DEF IInv, RouteInv
<1>9. room_conn \in Conns => JoinOK(room_conn)' /\ AuthOK(room_conn)'
  <2>1. room_conn \in Conns => (Confirmed' => Confirmed)
    BY <1>1, <1>4 DEF Confirmed, Hears
  <2> QED
    BY <1>1, <1>2, <1>4, <2>1 DEF IInv, JoinInv, JoinOK, AuthOK, Placed, Hears
<1> QED
  BY <1>1, <1>2, <1>3, <1>5, <1>6, <1>7, <1>8, <1>9 DEF IInv, JoinInv

-----------------------------------------------------------------------------
(* The process server *)

\* What a step of thread t leaves to the others: where they are and what they
\* are about, the lock if they hold it, and the room a clean-up has found empty.
Frame(t) ==
    /\ UNCHANGED route /\ UNCHANGED link /\ UNCHANGED queue
    /\ at[t] # "ended" /\ peer'[t] \in {peer[t], "closed"}
    /\ \A s \in Everyone : s # t => at'[s] = at[s] /\ peer'[s] = peer[s]
    /\ \A s \in Others : s # t => target'[s] = target[s]
    /\ \A c \in Conns : c # t => toServer'[c] = toServer[c]
    /\ \/ lock' = lock
       \/ lock = NoConn /\ lock' = t
       \/ lock = t /\ lock' = NoConn
    /\ \/ lock \in {NoConn, t} /\ \A s \in Everyone : s # t => home'[s] = home[s]
       \/ home' = home /\ \A r \in Rooms : rooms'[r] \subseteq rooms[r]
    /\ kicked \subseteq kicked'

\* A connection that is not kicked stays where it is, or is in a set that is
\* deleted without the lock.
Spared(c) ==
    /\ c \in clients => c \in clients'
    /\ current'[c] = current[c]
    /\ \A r \in Rooms : c \in rooms[r] \cup wiped => c \in rooms'[r] \cup wiped'

\* The other threads are where they were.
LEMMA OthersStay ==
    ASSUME IInv, NEW t \in Everyone, Frame(t), NEW s \in Everyone, s # t
    PROVE  ThreadOK(s)'
<1>1. ThreadOK(s) /\ NoConn # s /\ NoConn # t
  BY NamesAssumption DEF IInv, ThreadInv
<1>2. /\ at'[s] = at[s] /\ peer'[s] = peer[s] /\ home'[s] = home[s]
      /\ s \in Others => target'[s] = target[s]
      /\ kicked \subseteq kicked'
  BY DEF Frame
<1>3. lock' = s <=> lock = s
  BY <1>1 DEF Frame
<1>4. lock = s => home' = home /\ \A r \in Rooms : rooms'[r] \subseteq rooms[r]
  BY <1>1 DEF Frame
<1>5. (Kicks(s)' <=> Kicks(s)) /\ About(s)' = About(s)
  BY <1>2 DEF Kicks, About
<1>6. at'[s] = "del" /\ lock' = s => \A r \in Rooms : home'[About(s)'] = r => rooms'[r] = {}
  <2>1. at[s] = "del" /\ lock = s => \A r \in Rooms : home[About(s)] = r => rooms[r] = {}
    BY <1>1 DEF ThreadOK
  <2> QED
    BY <1>2, <1>3, <1>4, <1>5, <2>1
<1>7. Kicks(s)' /\ at'[s] \notin {"notice", "clean"} => target'[s] \in kicked'
  <2>1. Kicks(s) /\ at[s] \notin {"notice", "clean"} => target[s] \in kicked
    BY <1>1 DEF ThreadOK
  <2>2. Kicks(s) => target'[s] = target[s]
    BY <1>2 DEF Kicks
  <2> QED
    BY <1>2, <1>5, <2>1, <2>2
<1>8. /\ peer'[s] = "none" => at'[s] = "ended"
      /\ peer'[s] = "open" /\ ~Kicks(s)' => at'[s] \in Inner \cup {"recv", "join", "greet", "part"}
      /\ peer'[s] = "closed" => at'[s] \in Inner \cup {"clean", "forget", "mourn", "ended"}
      /\ Kicks(s)' => /\ peer'[s] = "open"
                      /\ at'[s] \in Inner \cup {"notice", "clean", "forget", "mourn", "shut"}
      /\ at'[s] \in Inner => (lock' = s <=> Kicks(s)' \/ peer'[s] = "closed")
      /\ lock' = s => at'[s] \in Inner \cup {"join", "forget"}
      /\ at'[s] \in {"join", "forget"} => lock' = s
  BY <1>1, <1>2, <1>3, <1>5 DEF ThreadOK
<1> QED
  BY <1>6, <1>7, <1>8 DEF ThreadOK

\* A step of a thread keeps the invariant if it keeps its own part of it, spares
\* the connection of the session unless it is kicked, and tells it events only.
LEMMA StepKeeps ==
    ASSUME IInv, NEW t \in Everyone, Frame(t),
           ThreadTypes', TableTypes', toClient' \in [Conns -> Seq(Packets)],
           ThreadOK(t)',
           \A c \in Conns : rx[c] # "recv" => toClient'[c] = toClient[c],
           room_conn \in Conns /\ room_conn # t =>
               /\ Hears(toClient[room_conn], toClient'[room_conn])
               /\ room_conn \notin kicked' => Spared(room_conn),
           room_conn = t /\ t \in Conns => JoinOK(t)' /\ AuthOK(t)'
    PROVE  IInv'
<1>1. /\ pc' = pc /\ want' = want /\ answer' = answer /\ room_conn' = room_conn /\ told' = told
      /\ running' = running /\ closed' = closed /\ rx' = rx
      /\ events' = events /\ pushed' = pushed /\ handed' = handed /\ poll' = poll /\ page' = page
  BY DEF Frame, route, link, queue
<1>2. peer[t] # "none" /\ peer'[t] # "none"
  <2>1. ThreadOK(t)
    BY DEF IInv, ThreadInv
  <2> QED
    BY <2>1 DEF ThreadOK, Frame
<1>3. ThreadInv'
  BY OthersStay DEF ThreadInv
<1>4. TypeInv'
  BY <1>1 DEF IInv, TypeInv, RouteTypes
<1>5. OneOpenConnection' /\ QueueInv'
  BY <1>1 DEF IInv, OneOpenConnection, QueueInv
<1>6. \A c \in Conns : c \in Everyone
  BY DEF Everyone
<1>7. \A s \in Everyone : s # t => at'[s] = at[s] /\ peer'[s] = peer[s] /\ home'[s] = home[s]
  BY DEF Frame
<1>8. FreshInv'
  BY <1>1, <1>2, <1>6, <1>7 DEF IInv, FreshInv, Frame
<1>9. RouteInv'
  <2>1. pc = "connect" => room_conn \in Conns /\ peer[room_conn] = "none"
    BY DEF IInv, RouteInv
  <2>2. pc = "connect" => peer'[room_conn] = "none"
    BY <1>2, <1>6, <1>7, <2>1
  <2> QED
    BY <1>1, <2>2 DEF IInv, RouteInv
<1>10. ASSUME room_conn \in Conns, room_conn # t PROVE JoinOK(room_conn)' /\ AuthOK(room_conn)'
  <2>1. PICK u \in Conns : u = room_conn
    BY <1>10
  <2>2. JoinOK(u) /\ AuthOK(u) /\ want \in Rooms
    BY <2>1 DEF IInv, JoinInv, RouteInv
  <2>3. /\ at'[u] = at[u] /\ peer'[u] = peer[u] /\ home'[u] = home[u] /\ toServer'[u] = toServer[u]
        /\ kicked \subseteq kicked'
    BY <1>6, <1>7, <1>10, <2>1 DEF Frame
  <2>4. Hears(toClient[u], toClient'[u]) /\ (u \notin kicked' => Spared(u))
    BY <1>10, <2>1
  <2>5. Confirmed' => Confirmed
    BY <1>1, <2>1, <2>4 DEF Confirmed, Hears
  <2>6. u \notin kicked' => (Placed(u) => Placed(u)')
    BY <1>1, <2>2, <2>4 DEF Placed, Spared
  <2>7. JoinOK(u)'
    BY <1>1, <2>2, <2>3, <2>4, <2>5, <2>6 DEF JoinOK, Spared
  <2>8. AuthOK(u)'
    BY <1>1, <2>2, <2>3, <2>4 DEF AuthOK, Hears
  <2> QED
    BY <1>1, <2>1, <2>7, <2>8
<1>11. JoinInv'
  BY <1>1, <1>10 DEF JoinInv
<1> QED
  BY <1>3, <1>4, <1>5, <1>8, <1>9, <1>11 DEF IInv

\* The handler of the connection the session uses ends: nothing is claimed of it
\* any more.
LEMMA OwnEnds ==
    ASSUME IInv, NEW t \in Conns, room_conn = t, Frame(t), ThreadOK(t)', peer'[t] = "closed",
           toServer'[t] \in {toServer[t], <<>>}, Hears(toClient[t], toClient'[t])
    PROVE  JoinOK(t)' /\ AuthOK(t)'
<1>1. pc' = pc /\ want' = want /\ answer' = answer /\ room_conn' = room_conn /\ told' = told
  BY DEF Frame, route
<1>2. JoinOK(t) /\ AuthOK(t)
  BY DEF IInv, JoinInv
<1>3. at'[t] \notin {"join", "greet", "recv"}
  BY DEF ThreadOK, Inner
<1>4. JoinOK(t)'
  BY <1>1, <1>2, <1>3, EmptyFacts DEF JoinOK
<1>5. AuthOK(t)'
  BY <1>1, <1>2, <1>3, EmptyFacts DEF AuthOK, Hears
<1> QED
  BY <1>4, <1>5

\* An exception is raised on the way.
LEMMA RaiseKeeps ==
    ASSUME IInv, NEW t \in Everyone, at[t] # "ended", Raise(t),
           UNCHANGED route, UNCHANGED link, UNCHANGED queue, UNCHANGED tables, UNCHANGED limits,
           UNCHANGED <<shut, kicked, wiped>>, toClient' \in [Conns -> Seq(Packets)],
           \A c \in Conns : /\ Hears(toClient[c], toClient'[c])
                            /\ rx[c] # "recv" => toClient'[c] = toClient[c]
    PROVE  IInv'
<1>1. /\ clients' = clients /\ current' = current /\ home' = home /\ open' = open /\ rooms' = rooms
      /\ talked' = talked /\ breaks' = breaks /\ shut' = shut /\ kicked' = kicked /\ wiped' = wiped
  BY DEF tables, limits
<1>2. TableTypes'
  BY <1>1 DEF IInv, TypeInv, TableTypes
<1>3. ThreadTypes /\ ThreadOK(t) /\ NoConn # t /\ (t \in Conns => t \notin Others)
  BY NamesAssumption DEF IInv, TypeInv, ThreadInv, Everyone
<1>4. lock' = (IF lock = t THEN NoConn ELSE lock)
  BY DEF Raise
<1>5. /\ peer'[t] = "closed" /\ at'[t] \in {"clean", "ended"} /\ ThreadTypes'
      /\ \A s \in Everyone : s # t => at'[s] = at[s] /\ peer'[s] = peer[s]
      /\ \A s \in Others : s # t => target'[s] = target[s]
      /\ \A c \in Conns : c # t => toServer'[c] = toServer[c]
      /\ t \in Conns => toServer'[t] \in {toServer[t], <<>>}
      /\ t \in Others => target'[t] = NoConn
  <2>1. lock' \in Everyone \cup {NoConn}
    BY <1>3, <1>4 DEF ThreadTypes
  <2>2. CASE peer[t] # "closed"
    <3>1. /\ peer' = [peer EXCEPT ![t] = "closed"] /\ at' = [at EXCEPT ![t] = "clean"]
          /\ target' = [s \in Others |-> IF s = t THEN NoConn ELSE target[s]]
          /\ toServer' = [c \in Conns |-> IF c = t THEN <<>> ELSE toServer[c]]
          /\ stuck' = stuck
      BY <2>2 DEF Raise, ToFinally, Goto
    <3>2. /\ peer' \in [Everyone -> {"none", "open", "closed"}] /\ peer'[t] = "closed"
          /\ at' \in [Everyone -> Labels] /\ at'[t] = "clean"
          /\ \A s \in Everyone : s # t => at'[s] = at[s] /\ peer'[s] = peer[s]
      BY <1>3, <3>1 DEF ThreadTypes, Labels
    <3>3. target' \in [Others -> Conns \cup {NoConn}] /\ toServer' \in [Conns -> Seq(Requests)]
      BY <1>3, <3>1 DEF ThreadTypes
    <3> QED
      BY <1>3, <2>1, <3>1, <3>2, <3>3 DEF ThreadTypes
  <2>3. CASE peer[t] = "closed"
    <3>1. /\ at' = [at EXCEPT ![t] = "ended"] /\ stuck' = stuck \cup {t}
          /\ peer' = peer /\ target' = target /\ toServer' = toServer
      BY <2>3 DEF Raise, Goto
    <3>2. /\ at' \in [Everyone -> Labels] /\ at'[t] = "ended"
          /\ \A s \in Everyone : s # t => at'[s] = at[s]
      BY <1>3, <3>1 DEF ThreadTypes, Labels
    <3>3. t \in Others => target[t] = NoConn
      BY <1>3, <2>3 DEF ThreadOK, Kicks
    <3> QED
      BY <1>3, <2>1, <2>3, <3>1, <3>2, <3>3 DEF ThreadTypes
  <2> QED
    BY <2>2, <2>3
<1>6. Frame(t)
  BY <1>1, <1>4, <1>5 DEF Frame
<1>7. ThreadOK(t)'
  <2>1. ~Kicks(t)' /\ lock' # t
    BY <1>3, <1>4, <1>5 DEF Kicks
  <2> QED
    BY <1>5, <2>1 DEF ThreadOK, Inner
<1>8. \A c \in Conns : Spared(c)
  BY <1>1 DEF Spared
<1>9. room_conn = t /\ t \in Conns => JoinOK(t)' /\ AuthOK(t)'
  BY <1>5, <1>6, <1>7, OwnEnds
<1> QED
  BY <1>2, <1>5, <1>6, <1>7, <1>8, <1>9, StepKeeps

-----------------------------------------------------------------------------
(* The handler of a connection of the session *)

\* Where nothing but events was sent, nothing is confirmed.
LEMMA HearsFacts ==
    /\ \A s : Hears(s, s)
    /\ \A s : Quiet(s) => ~Confirms(s)
    /\ \A s, q, w : Hears(s, q) /\ Hears(q, w) => Hears(s, w)
<1>1. Event # Confirmation
  BY PacketFacts
<1> QED
  BY <1>1 DEF Hears, Quiet, Confirms

\* The oldest request of a connection is handled.
LEMMA AskedFacts ==
    ASSUME IInv, NEW c \in Conns, NEW type, Asked(c, type)
    PROVE  /\ c \in Everyone /\ at[c] = "recv" /\ peer[c] = "open" /\ lock # c
           /\ c \notin Others /\ ~Kicks(c) /\ About(c) = c
           /\ Head(toServer[c]) \in Requests /\ Head(toServer[c]).type = type
           /\ Tail(toServer[c]) \in Seq(Requests)
           /\ c = room_conn =>
                /\ OnlyAsks(Tail(toServer[c]), want) /\ want \in Rooms
                /\ type # "LEAVE_ROOM"
                /\ type = "JOIN_ROOM_BACKEND" => Head(toServer[c]).room = want
                /\ pc \notin {"connect", "auth"} /\ ~AsksAuth(Tail(toServer[c]))
                /\ type = "AUTH_BACKEND" => ~Confirmed
<1>1. c \in Everyone /\ ThreadOK(c) /\ TypeInv
  BY DEF IInv, ThreadInv, Everyone
<1>2. c \notin Others /\ ~Kicks(c) /\ About(c) = c
  BY <1>1, KicksFacts
<1>3. at[c] = "recv" /\ toServer[c] # <<>> /\ Head(toServer[c]).type = type
  BY DEF Asked
<1>4. peer[c] = "open" /\ lock # c
  <2>1. peer[c] \in {"none", "open", "closed"}
    BY <1>1 DEF TypeInv, ThreadTypes
  <2> QED
    BY <1>1, <1>3, <2>1 DEF ThreadOK, Inner
<1>5. PICK s \in Seq(Requests) : s = toServer[c] /\ s # <<>>
  BY <1>1, <1>3 DEF TypeInv, ThreadTypes
<1>6. /\ Tail(s) \in Seq(Requests) /\ Head(s) \in Requests
      /\ Head(s).type = "AUTH_BACKEND" => AsksAuth(s)
      /\ AsksAuth(Tail(s)) => AsksAuth(s) /\ ~(Len(s) <= 1)
      /\ \A r : OnlyAsks(s, r) =>
           /\ OnlyAsks(Tail(s), r) /\ Head(s).type # "LEAVE_ROOM"
           /\ Head(s).type = "JOIN_ROOM_BACKEND" => Head(s).room = r
  BY <1>5, AsksTail
<1>7. ASSUME c = room_conn
      PROVE  /\ OnlyAsks(Tail(s), want) /\ want \in Rooms
             /\ type # "LEAVE_ROOM"
             /\ type = "JOIN_ROOM_BACKEND" => Head(s).room = want
             /\ pc \notin {"connect", "auth"} /\ ~AsksAuth(Tail(s))
             /\ type = "AUTH_BACKEND" => ~Confirmed
  <2>1. JoinOK(c) /\ AuthOK(c) /\ want \in Rooms
    BY <1>7 DEF IInv, JoinInv, RouteInv
  <2>2. OnlyAsks(s, want)
    BY <1>5, <2>1 DEF JoinOK
  <2>3. pc \notin {"connect", "auth"} /\ ~AsksAuth(Tail(s))
    BY <1>5, <1>6, <2>1 DEF AuthOK
  <2>4. type = "AUTH_BACKEND" => ~Confirmed
    <3>1. AsksAuth(s) => Quiet(toClient[c]) /\ answer = "none" /\ told = NoRoom
      BY <1>5, <2>1 DEF AuthOK
    <3> QED
      BY <1>3, <1>5, <1>6, <1>7, <3>1, HearsFacts DEF Confirmed
  <2> QED
    BY <1>3, <1>5, <1>6, <2>1, <2>2, <2>3, <2>4
<1> QED
  BY <1>1, <1>2, <1>3, <1>4, <1>5, <1>6, <1>7

\* A connection is told the outcome.
LEMMA ReplyFacts ==
    ASSUME TypeInv, NEW c, NEW ok \in BOOLEAN,
           NEW type \in {"AUTH_BACKEND", "JOIN_ROOM_BACKEND", "LEAVE_ROOM"}
    PROVE  /\ Reply(c, type, ok) \in [Conns -> Seq(Packets)]
           /\ \A d \in Conns :
                /\ d # c \/ rx[d] # "recv" => Reply(c, type, ok)[d] = toClient[d]
                /\ Confirms(Reply(c, type, ok)[d]) => Confirms(toClient[d]) \/ (type = "JOIN_ROOM_BACKEND" /\ ok)
<1>1. PICK e : e = [type |-> type, ok |-> ok]
  OBVIOUS
<1>2. e \in Packets /\ (e = Confirmation => type = "JOIN_ROOM_BACKEND" /\ ok)
  BY <1>1 DEF Packets, Confirmation
<1>3. PICK ds : ds = {c}
  OBVIOUS
<1>4. Reply(c, type, ok) = Send(ds, e, toClient)
  BY <1>1, <1>3 DEF Reply
<1>5. toClient \in [Conns -> Seq(Packets)]
  BY DEF TypeInv
<1>6. /\ Send(ds, e, toClient) \in [Conns -> Seq(Packets)]
      /\ \A d \in Conns : /\ d \notin ds \/ rx[d] # "recv" => Send(ds, e, toClient)[d] = toClient[d]
                          /\ Confirms(Send(ds, e, toClient)[d]) => Confirms(toClient[d]) \/ e = Confirmation
  BY <1>2, <1>5, SendFacts
<1>7. \A d \in Conns : d # c => d \notin ds
  BY <1>3
<1> QED
  BY <1>2, <1>4, <1>6, <1>7

\* A handler that goes on in its loop, or begins a request.
LEMMA BeginFacts ==
    ASSUME IInv, NEW c \in Conns, NEW type, Asked(c, type), NEW l \in Labels, Begin(c, l),
           UNCHANGED <<peer, target, stuck>>, lock' \in {lock, c}
    PROVE  /\ ThreadTypes' /\ at'[c] = l
           /\ \A s \in Everyone : s # c => at'[s] = at[s]
           /\ \A d \in Conns : d # c => toServer'[d] = toServer[d]
           /\ toServer'[c] = Tail(toServer[c])
<1>1. c \in Everyone /\ Tail(toServer[c]) \in Seq(Requests) /\ ThreadTypes
  BY AskedFacts DEF IInv, TypeInv
<1>2. toServer' = [toServer EXCEPT ![c] = Tail(@)] /\ at' = [at EXCEPT ![c] = l]
  BY DEF Begin, Goto
<1>3. toServer' \in [Conns -> Seq(Requests)] /\ toServer'[c] = Tail(toServer[c])
      /\ \A d \in Conns : d # c => toServer'[d] = toServer[d]
  BY <1>1, <1>2 DEF ThreadTypes
<1>4. at' \in [Everyone -> Labels] /\ at'[c] = l /\ \A s \in Everyone : s # c => at'[s] = at[s]
  BY <1>1, <1>2 DEF ThreadTypes
<1>5. lock' \in Everyone \cup {NoConn}
  BY <1>1 DEF ThreadTypes
<1> QED
  BY <1>1, <1>3, <1>4, <1>5 DEF ThreadTypes

\* A request is refused, or the handler finds its socket closed.
LEMMA RefuseKeeps ==
    ASSUME IInv, NEW c \in Conns, NEW type \in {"AUTH_BACKEND", "JOIN_ROOM_BACKEND", "LEAVE_ROOM"},
           Asked(c, type), Refuse(c, type),
           UNCHANGED route, UNCHANGED link, UNCHANGED queue, UNCHANGED tables, UNCHANGED limits,
           UNCHANGED <<shut, kicked, wiped>>
    PROVE  IInv'
<1>1. /\ clients' = clients /\ current' = current /\ home' = home /\ open' = open /\ rooms' = rooms
      /\ talked' = talked /\ breaks' = breaks /\ shut' = shut /\ kicked' = kicked /\ wiped' = wiped
  BY DEF tables, limits
<1>2. c \in Everyone /\ TypeInv /\ ThreadOK(c) /\ TableTypes
  BY DEF IInv, TypeInv, ThreadInv, Everyone
<1>3. /\ at[c] = "recv" /\ peer[c] = "open" /\ lock # c /\ c \notin Others
      /\ c = room_conn =>
           /\ OnlyAsks(Tail(toServer[c]), want) /\ want \in Rooms
           /\ pc \notin {"connect", "auth"} /\ ~AsksAuth(Tail(toServer[c]))
  BY AskedFacts
<1>4. CASE c \in shut
  <2>1. Raise(c) /\ toClient' = toClient
    BY <1>4 DEF Refuse
  <2>2. toClient' \in [Conns -> Seq(Packets)] /\ \A d \in Conns : Hears(toClient[d], toClient'[d])
    BY <1>2, <2>1, HearsFacts DEF TypeInv
  <2> QED
    BY <1>2, <1>3, <2>1, <2>2, RaiseKeeps
<1>5. CASE c \notin shut
  <2>1. /\ Begin(c, "recv") /\ toClient' = Reply(c, type, FALSE)
        /\ peer' = peer /\ target' = target /\ lock' = lock /\ stuck' = stuck
    BY <1>5 DEF Refuse
  <2>2. /\ ThreadTypes' /\ at'[c] = "recv"
        /\ \A s \in Everyone : s # c => at'[s] = at[s]
        /\ \A d \in Conns : d # c => toServer'[d] = toServer[d]
        /\ toServer'[c] = Tail(toServer[c])
    <3>1. "recv" \in Labels
      BY DEF Labels
    <3> QED
      BY <2>1, <3>1, BeginFacts
  <2>3. /\ toClient' \in [Conns -> Seq(Packets)]
        /\ \A d \in Conns : /\ d # c \/ rx[d] # "recv" => toClient'[d] = toClient[d]
                            /\ Confirms(toClient'[d]) => Confirms(toClient[d])
    BY <1>2, <2>1, ReplyFacts
  <2>4. Frame(c)
    BY <1>1, <1>3, <2>1, <2>2 DEF Frame
  <2>5. TableTypes'
    BY <1>1, <1>2 DEF TableTypes
  <2>6. ThreadOK(c)'
    BY <1>1, <1>2, <1>3, <2>1, <2>2 DEF ThreadOK, Kicks, About
  <2>7. c = room_conn => JoinOK(c)' /\ AuthOK(c)'
    <3>1. SUFFICES ASSUME c = room_conn PROVE JoinOK(c)' /\ AuthOK(c)'
      OBVIOUS
    <3>2. pc' = pc /\ want' = want /\ answer' = answer /\ room_conn' = room_conn /\ told' = told
      BY DEF route
    <3>3. JoinOK(c)
      BY <3>1 DEF IInv, JoinInv
    <3>4. Confirmed' => Confirmed
      BY <2>3, <3>1, <3>2 DEF Confirmed
    <3>5. JoinOK(c)'
      BY <1>1, <1>3, <2>1, <2>2, <3>1, <3>2, <3>3, <3>4 DEF JoinOK, Placed
    <3>6. AuthOK(c)'
      BY <1>3, <2>2, <3>1, <3>2 DEF AuthOK
    <3> QED
      BY <3>5, <3>6
  <2>8. room_conn \in Conns /\ room_conn # c =>
            Hears(toClient[room_conn], toClient'[room_conn]) /\ Spared(room_conn)
    BY <1>1, <2>3, HearsFacts DEF Spared
  <2> QED
    BY <1>2, <2>2, <2>3, <2>4, <2>5, <2>6, <2>7, <2>8, StepKeeps
<1> QED
  BY <1>4, <1>5

\* The token is valid, or not.
LEMMA HandleAuthKeeps ==
    ASSUME IInv, NEW c \in Conns, HandleAuth(c)
    PROVE  IInv'
<1>1. /\ Asked(c, "AUTH_BACKEND") /\ UNCHANGED limits
      /\ UNCHANGED route /\ UNCHANGED link /\ UNCHANGED queue /\ UNCHANGED <<shut, kicked, wiped>>
  BY DEF HandleAuth
<1>2. CASE Refuse(c, "AUTH_BACKEND") /\ UNCHANGED tables
  BY <1>1, <1>2, RefuseKeeps
<1>3. CASE /\ clients' = clients \cup {c} /\ current' = [current EXCEPT ![c] = NoRoom]
           /\ Begin(c, "recv") /\ toClient' = Reply(c, "AUTH_BACKEND", TRUE)
           /\ UNCHANGED <<peer, target, lock, home, open, rooms, stuck>>
  <2>1. c \in Everyone /\ TypeInv /\ ThreadOK(c) /\ TableTypes
    BY DEF IInv, TypeInv, ThreadInv, Everyone
  <2>2. /\ at[c] = "recv" /\ peer[c] = "open" /\ lock # c /\ c \notin Others
        /\ c = room_conn =>
             /\ OnlyAsks(Tail(toServer[c]), want) /\ ~Confirmed
             /\ pc \notin {"connect", "auth"} /\ ~AsksAuth(Tail(toServer[c]))
    BY <1>1, AskedFacts
  <2>3. /\ ThreadTypes' /\ at'[c] = "recv"
        /\ \A s \in Everyone : s # c => at'[s] = at[s]
        /\ \A d \in Conns : d # c => toServer'[d] = toServer[d]
        /\ toServer'[c] = Tail(toServer[c])
    <3>1. "recv" \in Labels
      BY DEF Labels
    <3> QED
      BY <1>1, <1>3, <3>1, BeginFacts
  <2>4. /\ toClient' \in [Conns -> Seq(Packets)]
        /\ \A d \in Conns : /\ d # c \/ rx[d] # "recv" => toClient'[d] = toClient[d]
                            /\ Confirms(toClient'[d]) => Confirms(toClient[d])
    BY <1>3, <2>1, ReplyFacts
  <2>5. TableTypes' /\ \A d \in Everyone : d # c => current'[d] = current[d]
    <3>1. current' \in [Everyone -> Rooms \cup {NoRoom}]
          /\ \A d \in Everyone : d # c => current'[d] = current[d]
      BY <1>3, <2>1 DEF TableTypes
    <3> QED
      BY <1>1, <1>3, <2>1, <3>1 DEF TableTypes, limits
  <2>6. Frame(c)
    BY <1>1, <1>3, <2>2, <2>3 DEF Frame
  <2>7. ThreadOK(c)'
    BY <1>1, <1>3, <2>1, <2>2, <2>3 DEF ThreadOK, Kicks, About
  <2>8. c = room_conn => JoinOK(c)' /\ AuthOK(c)'
    <3>1. SUFFICES ASSUME c = room_conn PROVE JoinOK(c)' /\ AuthOK(c)'
      OBVIOUS
    <3>2. pc' = pc /\ want' = want /\ answer' = answer /\ room_conn' = room_conn /\ told' = told
      BY <1>1 DEF route
    <3>3. ~Confirmed'
      BY <2>2, <2>4, <3>1, <3>2 DEF Confirmed
    <3>4. JoinOK(c)'
      BY <1>3, <2>2, <2>3, <3>1, <3>2, <3>3 DEF JoinOK
    <3>5. AuthOK(c)'
      BY <2>2, <2>3, <3>1, <3>2 DEF AuthOK
    <3> QED
      BY <3>4, <3>5
  <2>9. room_conn \in Conns /\ room_conn # c =>
            Hears(toClient[room_conn], toClient'[room_conn]) /\ Spared(room_conn)
    BY <1>1, <1>3, <2>4, <2>5, HearsFacts DEF Spared, Everyone
  <2> QED
    BY <2>1, <2>3, <2>4, <2>5, <2>6, <2>7, <2>8, <2>9, StepKeeps
<1> QED
  BY <1>2, <1>3 DEF HandleAuth

\* A client asks to join, and its handler has the lock.
LEMMA HandleJoinKeeps ==
    ASSUME IInv, NEW c \in Conns, HandleJoin(c)
    PROVE  IInv'
<1>1. /\ Asked(c, "JOIN_ROOM_BACKEND") /\ UNCHANGED limits
      /\ UNCHANGED route /\ UNCHANGED link /\ UNCHANGED queue /\ UNCHANGED <<shut, kicked, wiped>>
      /\ clients' = clients /\ current' = current /\ rooms' = rooms
  BY DEF HandleJoin
<1>2. CASE Refuse(c, "JOIN_ROOM_BACKEND") /\ UNCHANGED <<home, open>>
  BY <1>1, <1>2, RefuseKeeps DEF tables
<1>3. CASE /\ c \in clients /\ LockFree /\ lock' = c
           /\ home' = [home EXCEPT ![c] = Head(toServer[c]).room] /\ open' = open \cup {home'[c]}
           /\ Begin(c, "join") /\ UNCHANGED <<toClient, peer, target, stuck>>
  <2>1. c \in Everyone /\ TypeInv /\ ThreadOK(c) /\ TableTypes
    BY DEF IInv, TypeInv, ThreadInv, Everyone
  <2>2. /\ at[c] = "recv" /\ peer[c] = "open" /\ c \notin Others
        /\ Head(toServer[c]).room \in Rooms
        /\ c = room_conn =>
             /\ OnlyAsks(Tail(toServer[c]), want) /\ Head(toServer[c]).room = want
             /\ pc \notin {"connect", "auth"} /\ ~AsksAuth(Tail(toServer[c]))
    <3>1. /\ at[c] = "recv" /\ peer[c] = "open" /\ c \notin Others
          /\ Head(toServer[c]) \in Requests /\ Head(toServer[c]).type = "JOIN_ROOM_BACKEND"
          /\ c = room_conn =>
               /\ OnlyAsks(Tail(toServer[c]), want) /\ Head(toServer[c]).room = want
               /\ pc \notin {"connect", "auth"} /\ ~AsksAuth(Tail(toServer[c]))
      BY <1>1, AskedFacts
    <3>2. Head(toServer[c]).room \in Rooms
      BY <3>1 DEF Requests
    <3> QED
      BY <3>1, <3>2
  <2>3. /\ ThreadTypes' /\ at'[c] = "join"
        /\ \A s \in Everyone : s # c => at'[s] = at[s]
        /\ \A d \in Conns : d # c => toServer'[d] = toServer[d]
        /\ toServer'[c] = Tail(toServer[c])
    <3>1. "join" \in Labels
      BY DEF Labels
    <3> QED
      BY <1>1, <1>3, <3>1, BeginFacts
  <2>4. /\ home' \in [Everyone -> Rooms \cup {NoRoom}] /\ home'[c] = Head(toServer[c]).room
        /\ \A s \in Everyone : s # c => home'[s] = home[s]
    BY <1>3, <2>1, <2>2 DEF TableTypes
  <2>5. TableTypes'
    BY <1>1, <1>3, <2>1, <2>2, <2>4 DEF TableTypes, limits
  <2>6. Frame(c)
    BY <1>1, <1>3, <2>2, <2>3, <2>4 DEF Frame, LockFree
  <2>7. ThreadOK(c)'
    <3>1. ~Kicks(c)' /\ lock' = c /\ at'[c] = "join" /\ peer'[c] = "open"
      BY <1>3, <2>2, <2>3 DEF Kicks
    <3> QED
      BY <3>1 DEF ThreadOK, Inner
  <2>8. c = room_conn => JoinOK(c)' /\ AuthOK(c)'
    <3>1. SUFFICES ASSUME c = room_conn PROVE JoinOK(c)' /\ AuthOK(c)'
      OBVIOUS
    <3>2. pc' = pc /\ want' = want /\ answer' = answer /\ room_conn' = room_conn /\ told' = told
      BY <1>1 DEF route
    <3>3. JoinOK(c)
      BY <3>1 DEF IInv, JoinInv
    <3>4. Confirmed' => Confirmed
      BY <1>3, <3>1, <3>2 DEF Confirmed
    <3>5. Confirmed /\ c \notin kicked => Placed(c)
      BY <2>2, <3>3 DEF JoinOK
    <3>6. Placed(c) => Placed(c)'
      BY <1>1, <3>2 DEF Placed
    <3>7. JoinOK(c)'
      BY <1>1, <1>3, <2>2, <2>3, <2>4, <3>1, <3>2, <3>4, <3>5, <3>6 DEF JoinOK
    <3>8. AuthOK(c)'
      BY <2>2, <2>3, <3>1, <3>2 DEF AuthOK
    <3> QED
      BY <3>7, <3>8
  <2>9. room_conn \in Conns /\ room_conn # c =>
            Hears(toClient[room_conn], toClient'[room_conn]) /\ Spared(room_conn)
    BY <1>1, <1>3, HearsFacts DEF Spared
  <2>10. toClient' \in [Conns -> Seq(Packets)] /\ toClient' = toClient
    BY <1>3, <2>1 DEF TypeInv
  <2> QED
    BY <2>1, <2>3, <2>5, <2>6, <2>7, <2>8, <2>9, <2>10, StepKeeps
<1> QED
  BY <1>2, <1>3 DEF HandleJoin

\* The client is put into the room, and its handler lets go of the lock.
LEMMA JoinAddKeeps ==
    ASSUME IInv, NEW c \in Conns, JoinAdd(c)
    PROVE  IInv'
<1>1. /\ at[c] = "join" /\ UNCHANGED limits
      /\ UNCHANGED route /\ UNCHANGED link /\ UNCHANGED queue /\ UNCHANGED <<shut, kicked, wiped>>
      /\ toClient' = toClient /\ clients' = clients /\ home' = home /\ open' = open
  BY DEF JoinAdd
<1>2. c \in Everyone /\ TypeInv /\ ThreadOK(c) /\ TableTypes /\ c \notin Others /\ ~Kicks(c)
  BY KicksFacts DEF IInv, TypeInv, ThreadInv, Everyone
<1>3. toClient' \in [Conns -> Seq(Packets)] /\ \A d \in Conns : Hears(toClient[d], toClient'[d])
  BY <1>1, <1>2, HearsFacts DEF TypeInv
<1>4. CASE Raise(c) /\ UNCHANGED <<rooms, current>>
  <2>1. UNCHANGED tables
    BY <1>1, <1>4 DEF tables
  <2> QED
    BY <1>1, <1>2, <1>3, <1>4, <2>1, RaiseKeeps
<1>5. CASE /\ home[c] \in open
           /\ rooms' = [rooms EXCEPT ![home[c]] = @ \cup {c}] /\ current' = [current EXCEPT ![c] = home[c]]
           /\ lock' = NoConn /\ Goto(c, "greet") /\ UNCHANGED <<peer, target, toServer, stuck>>
  <2>1. lock = c /\ peer[c] = "open" /\ NoConn # c
    <3>1. peer[c] \in {"none", "open", "closed"} /\ NoConn # c
      BY <1>2, NamesAssumption DEF TypeInv, ThreadTypes
    <3> QED
      BY <1>1, <1>2, <3>1 DEF ThreadOK, Inner
  <2>2. ThreadTypes' /\ at'[c] = "greet" /\ \A s \in Everyone : s # c => at'[s] = at[s]
    BY <1>2, <1>5 DEF TypeInv, ThreadTypes, Goto, Labels
  <2>3. /\ current' \in [Everyone -> Rooms \cup {NoRoom}] /\ current'[c] = home[c]
        /\ \A s \in Everyone : s # c => current'[s] = current[s]
    BY <1>2, <1>5 DEF TableTypes
  <2>4. /\ rooms' \in [Rooms -> SUBSET Everyone] /\ home[c] \in Rooms /\ c \in rooms'[home[c]]
        /\ \A r \in Rooms : rooms[r] \subseteq rooms'[r]
    BY <1>2, <1>5 DEF TableTypes
  <2>5. TableTypes'
    BY <1>1, <1>2, <2>3, <2>4 DEF TableTypes, limits
  <2>6. Frame(c)
    BY <1>1, <1>5, <2>1, <2>2 DEF Frame
  <2>7. ThreadOK(c)'
    <3>1. ~Kicks(c)' /\ lock' # c /\ at'[c] = "greet" /\ peer'[c] = "open"
      BY <1>2, <1>5, <2>1, <2>2 DEF Kicks
    <3> QED
      BY <3>1 DEF ThreadOK, Inner
  <2>8. c = room_conn => JoinOK(c)' /\ AuthOK(c)'
    <3>1. SUFFICES ASSUME c = room_conn PROVE JoinOK(c)' /\ AuthOK(c)'
      OBVIOUS
    <3>2. pc' = pc /\ want' = want /\ answer' = answer /\ room_conn' = room_conn /\ told' = told
      BY <1>1 DEF route
    <3>3. JoinOK(c) /\ AuthOK(c)
      BY <3>1 DEF IInv, JoinInv
    <3>4. home[c] = want /\ (c \notin kicked => c \in clients)
      BY <1>1, <2>1, <3>3 DEF JoinOK
    <3>5. c \notin kicked => Placed(c)'
      BY <1>1, <2>3, <2>4, <3>2, <3>4 DEF Placed
    <3>6. JoinOK(c)'
      BY <1>1, <1>5, <2>2, <3>1, <3>2, <3>3, <3>4, <3>5 DEF JoinOK
    <3>7. AuthOK(c)'
      BY <1>1, <1>5, <3>1, <3>2, <3>3 DEF AuthOK
    <3> QED
      BY <3>6, <3>7
  <2>9. room_conn \in Conns /\ room_conn # c => Spared(room_conn)
    BY <1>1, <2>3, <2>4 DEF Spared, Everyone
  <2> QED
    BY <1>1, <1>2, <1>3, <2>2, <2>5, <2>6, <2>7, <2>8, <2>9, StepKeeps
<1> QED
  BY <1>4, <1>5 DEF JoinAdd

\* The room is told, and the client that it has joined.
LEMMA GreetKeeps ==
    ASSUME IInv, NEW c \in Conns, Greet(c)
    PROVE  IInv'
<1>1. PICK heard : heard = Broadcast(home[c], toClient)
  OBVIOUS
<1>2. /\ at[c] = "greet" /\ UNCHANGED limits
      /\ UNCHANGED route /\ UNCHANGED link /\ UNCHANGED queue /\ UNCHANGED tables
      /\ UNCHANGED <<shut, kicked, wiped>>
      /\ clients' = clients /\ current' = current /\ rooms' = rooms /\ home' = home /\ open' = open
  BY DEF Greet, tables
<1>3. c \in Everyone /\ TypeInv /\ ThreadOK(c) /\ TableTypes /\ c \notin Others /\ ~Kicks(c)
  BY KicksFacts DEF IInv, TypeInv, ThreadInv, Everyone
<1>4. /\ heard \in [Conns -> Seq(Packets)]
      /\ \A d \in Conns : /\ Hears(toClient[d], heard[d])
                          /\ rx[d] # "recv" => heard[d] = toClient[d]
  BY <1>1, <1>3, BroadcastFacts DEF TypeInv
<1>5. CASE toClient' = heard /\ Raise(c)
  BY <1>2, <1>3, <1>4, <1>5, RaiseKeeps
<1>6. CASE /\ toClient' = Send({c}, Confirmation, heard) /\ Goto(c, "recv")
           /\ UNCHANGED <<peer, target, lock, toServer, stuck>>
  <2>1. PICK ds : ds = {c}
    OBVIOUS
  <2>2. /\ Send(ds, Confirmation, heard) \in [Conns -> Seq(Packets)]
        /\ \A d \in Conns : d \notin ds \/ rx[d] # "recv" => Send(ds, Confirmation, heard)[d] = heard[d]
    <3>1. Confirmation \in Packets
      BY PacketFacts
    <3> QED
      BY <1>4, <3>1, SendFacts
  <2>3. /\ toClient' \in [Conns -> Seq(Packets)]
        /\ \A d \in Conns : /\ d # c => toClient'[d] = heard[d]
                            /\ rx[d] # "recv" => toClient'[d] = toClient[d]
    BY <1>4, <1>6, <2>1, <2>2
  <2>4. lock # c /\ peer[c] = "open"
    <3>1. peer[c] \in {"none", "open", "closed"}
      BY <1>3 DEF TypeInv, ThreadTypes
    <3> QED
      BY <1>2, <1>3, <3>1 DEF ThreadOK, Inner
  <2>5. ThreadTypes' /\ at'[c] = "recv" /\ \A s \in Everyone : s # c => at'[s] = at[s]
    BY <1>3, <1>6 DEF TypeInv, ThreadTypes, Goto, Labels
  <2>6. TableTypes'
    BY <1>2, <1>3 DEF TableTypes, limits
  <2>7. Frame(c)
    BY <1>2, <1>6, <2>5 DEF Frame
  <2>8. ThreadOK(c)'
    <3>1. ~Kicks(c)' /\ lock' # c /\ at'[c] = "recv" /\ peer'[c] = "open"
      BY <1>3, <1>6, <2>4, <2>5 DEF Kicks
    <3> QED
      BY <3>1 DEF ThreadOK, Inner
  <2>9. c = room_conn => JoinOK(c)' /\ AuthOK(c)'
    <3>1. SUFFICES ASSUME c = room_conn PROVE JoinOK(c)' /\ AuthOK(c)'
      OBVIOUS
    <3>2. pc' = pc /\ want' = want /\ answer' = answer /\ room_conn' = room_conn /\ told' = told
      BY <1>2 DEF route
    <3>3. JoinOK(c) /\ AuthOK(c)
      BY <3>1 DEF IInv, JoinInv
    <3>4. c \notin kicked => Placed(c)
      BY <1>2, <2>4, <3>3 DEF JoinOK
    <3>5. Placed(c) => Placed(c)'
      BY <1>2, <3>2 DEF Placed
    <3>6. JoinOK(c)'
      BY <1>2, <1>6, <2>5, <3>2, <3>3, <3>4, <3>5 DEF JoinOK
    <3>7. AuthOK(c)'
      BY <1>2, <1>6, <3>2, <3>3 DEF AuthOK
    <3> QED
      BY <3>6, <3>7
  <2>10. room_conn \in Conns /\ room_conn # c =>
            Hears(toClient[room_conn], toClient'[room_conn]) /\ Spared(room_conn)
    BY <1>2, <1>4, <2>3 DEF Spared
  <2> QED
    BY <1>3, <2>3, <2>5, <2>6, <2>7, <2>8, <2>9, <2>10, StepKeeps
<1> QED
  BY <1>1, <1>5, <1>6 DEF Greet, Confirmation

-----------------------------------------------------------------------------
(* Leaves, clean-ups and kicks *)

\* A step of a handler of another user, or of one in a leave or a clean-up.
LEMMA LeaverKeeps ==
    ASSUME IInv, NEW t \in Everyone, at[t] # "ended", t \in Conns => at[t] \notin {"recv", "join", "greet"},
           UNCHANGED route, UNCHANGED link, UNCHANGED queue,
           UNCHANGED <<peer, home, toServer, stuck>>,
           NEW l \in Labels, Goto(t, l),
           target' \in [Others -> Conns \cup {NoConn}], \A s \in Others : s # t => target'[s] = target[s],
           lock' = lock \/ (lock = NoConn /\ lock' = t) \/ (lock = t /\ lock' = NoConn),
           kicked \subseteq kicked', TableTypes', \A r \in Rooms : rooms'[r] \subseteq rooms[r],
           toClient' \in [Conns -> Seq(Packets)],
           \A c \in Conns : rx[c] # "recv" => toClient'[c] = toClient[c],
           room_conn \in Conns => Hears(toClient[room_conn], toClient'[room_conn]),
           room_conn \in Conns /\ room_conn # t /\ room_conn \notin kicked' => Spared(room_conn),
           at'[t] = l => ThreadOK(t)'
    PROVE  IInv'
<1>1. TypeInv /\ ThreadTypes /\ ThreadOK(t)
  BY DEF IInv, TypeInv, ThreadInv
<1>2. at' \in [Everyone -> Labels] /\ at'[t] = l /\ \A s \in Everyone : s # t => at'[s] = at[s]
  BY <1>1 DEF ThreadTypes, Goto
<1>3. ThreadTypes'
  <2>1. lock' \in Everyone \cup {NoConn}
    BY <1>1 DEF ThreadTypes
  <2> QED
    BY <1>1, <1>2, <2>1 DEF ThreadTypes
<1>4. Frame(t)
  BY <1>2 DEF Frame
<1>5. ThreadOK(t)'
  BY <1>2
<1>6. room_conn = t /\ t \in Conns => JoinOK(t)' /\ AuthOK(t)'
  <2>1. SUFFICES ASSUME room_conn = t, t \in Conns PROVE JoinOK(t)' /\ AuthOK(t)'
    OBVIOUS
  <2>2. JoinOK(t)
    BY <2>1 DEF IInv, JoinInv
  <2>3. peer[t] \in {"none", "open", "closed"}
    BY <1>1 DEF ThreadTypes
  <2>4. peer[t] = "closed"
    BY <1>1, <2>1, <2>2, <2>3 DEF JoinOK, ThreadOK
  <2>5. peer'[t] = "closed" /\ toServer'[t] = toServer[t] /\ Hears(toClient[t], toClient'[t])
    BY <2>1, <2>4
  <2> QED
    BY <1>4, <1>5, <2>1, <2>5, OwnEnds
<1> QED
  BY <1>3, <1>4, <1>5, <1>6, StepKeeps

\* A leave or a clean-up is about the thread's own client, or one that was kicked.
LEMMA AboutFacts ==
    ASSUME IInv, NEW t \in Everyone, at[t] \in Inner \cup {"forget"}
    PROVE  /\ About(t) \in Everyone
           /\ \A u \in Conns : u = About(t) /\ u # t => u \in kicked
<1>1. TypeInv /\ ThreadOK(t)
  BY DEF IInv, ThreadInv
<1>2. Kicks(t) => target[t] \in kicked
  BY <1>1 DEF ThreadOK, Inner
<1> QED
  BY <1>1, <1>2, KicksFacts

\* Nothing was sent to the clients.
LEMMA SilentFacts ==
    ASSUME IInv, toClient' = toClient
    PROVE  /\ toClient' \in [Conns -> Seq(Packets)]
           /\ \A c \in Conns : /\ Hears(toClient[c], toClient'[c])
                               /\ rx[c] # "recv" => toClient'[c] = toClient[c]
BY HearsFacts DEF IInv, TypeInv

\* LEAVE_ROOM is begun, which the connection of the session has not asked for.
LEMMA HandleLeaveKeeps ==
    ASSUME IInv, NEW c \in Conns, HandleLeave(c)
    PROVE  IInv'
<1>1. /\ Asked(c, "LEAVE_ROOM") /\ UNCHANGED limits
      /\ UNCHANGED route /\ UNCHANGED link /\ UNCHANGED queue /\ UNCHANGED tables
      /\ UNCHANGED <<shut, kicked, wiped>>
      /\ clients' = clients /\ current' = current /\ rooms' = rooms /\ home' = home /\ open' = open
  BY DEF HandleLeave, tables
<1>2. CASE Refuse(c, "LEAVE_ROOM")
  BY <1>1, <1>2, RefuseKeeps
<1>3. CASE Begin(c, "check") /\ UNCHANGED <<toClient, peer, target, lock, stuck>>
  <2>1. c \in Everyone /\ TypeInv /\ ThreadOK(c) /\ TableTypes
    BY DEF IInv, TypeInv, ThreadInv, Everyone
  <2>2. /\ at[c] = "recv" /\ peer[c] = "open" /\ lock # c /\ c \notin Others /\ c # room_conn
    BY <1>1, AskedFacts
  <2>3. /\ ThreadTypes' /\ at'[c] = "check"
        /\ \A s \in Everyone : s # c => at'[s] = at[s]
        /\ \A d \in Conns : d # c => toServer'[d] = toServer[d]
    <3>1. "check" \in Labels
      BY DEF Labels
    <3> QED
      BY <1>1, <1>3, <3>1, BeginFacts
  <2>4. Frame(c)
    BY <1>1, <1>3, <2>2, <2>3 DEF Frame
  <2>5. TableTypes'
    BY <1>1, <2>1 DEF TableTypes, limits
  <2>6. ThreadOK(c)'
    <3>1. ~Kicks(c)' /\ lock' # c /\ at'[c] = "check" /\ peer'[c] = "open"
      BY <1>3, <2>2, <2>3 DEF Kicks
    <3> QED
      BY <3>1 DEF ThreadOK, Inner
  <2>7. Spared(room_conn)
    BY <1>1 DEF Spared
  <2>8. /\ toClient' \in [Conns -> Seq(Packets)]
        /\ \A d \in Conns : /\ Hears(toClient[d], toClient'[d])
                            /\ rx[d] # "recv" => toClient'[d] = toClient[d]
    BY <1>3, SilentFacts
  <2> QED
    BY <2>1, <2>2, <2>3, <2>4, <2>5, <2>6, <2>7, <2>8, StepKeeps
<1> QED
  BY <1>2, <1>3 DEF HandleLeave

\* A statement of _leave_room_logic keeps the invariant if it spares all but the
\* client it is about.
LEMMA InnerKeeps ==
    ASSUME IInv, NEW t \in Everyone, at[t] \in Inner,
           UNCHANGED route, UNCHANGED link, UNCHANGED queue,
           UNCHANGED <<peer, home, toServer, stuck, target, lock, kicked, toClient>>,
           NEW l \in Labels, Goto(t, l), TableTypes', \A r \in Rooms : rooms'[r] \subseteq rooms[r],
           room_conn \in Conns /\ room_conn # About(t) => Spared(room_conn),
           \/ /\ l \in Inner
              /\ l = "del" /\ lock = t => \A r \in Rooms : home[About(t)] = r => rooms'[r] = {}
           \/ l = "forget" /\ lock = t
           \/ l = "part" /\ lock # t
    PROVE  IInv'
<1>1. ThreadTypes /\ ThreadOK(t) /\ at[t] \notin {"recv", "join", "greet", "ended", "notice", "clean"}
  BY DEF IInv, TypeInv, ThreadInv, Inner
<1>2. /\ toClient' \in [Conns -> Seq(Packets)]
      /\ \A c \in Conns : /\ Hears(toClient[c], toClient'[c])
                          /\ rx[c] # "recv" => toClient'[c] = toClient[c]
  BY SilentFacts
<1>3. room_conn \in Conns /\ room_conn # t /\ room_conn \notin kicked' => Spared(room_conn)
  BY AboutFacts
<1>4. ASSUME at'[t] = l PROVE ThreadOK(t)'
  <2>1. (Kicks(t)' <=> Kicks(t)) /\ About(t)' = About(t)
    BY DEF Kicks, About
  <2>2. peer[t] \in {"open", "closed"} /\ (lock = t <=> Kicks(t) \/ peer[t] = "closed")
    BY <1>1 DEF ThreadTypes, ThreadOK
  <2>3. Kicks(t) => peer[t] = "open" /\ target'[t] \in kicked'
    BY <1>1 DEF ThreadOK
  <2>4. CASE l \in Inner
    <3>1. l = "del" /\ lock = t => \A r \in Rooms : home[About(t)] = r => rooms'[r] = {}
      BY <2>4 DEF Inner
    <3>2. at'[t] = "del" /\ lock' = t => \A r \in Rooms : home'[About(t)'] = r => rooms'[r] = {}
      BY <1>4, <2>1, <3>1
    <3>3. l \notin {"ended", "join", "greet", "recv", "part", "clean", "forget", "mourn", "notice", "shut"}
      BY <2>4 DEF Inner
    <3> QED
      BY <1>4, <2>1, <2>2, <2>3, <2>4, <3>2, <3>3 DEF ThreadOK
  <2>5. CASE l = "forget" /\ lock = t
    BY <1>4, <2>1, <2>2, <2>3, <2>5 DEF ThreadOK, Inner
  <2>6. CASE l = "part" /\ lock # t
    BY <1>4, <2>1, <2>2, <2>3, <2>6 DEF ThreadOK, Inner
  <2> QED
    BY <2>4, <2>5, <2>6
<1>5. target' \in [Others -> Conns \cup {NoConn}] /\ lock' = lock /\ kicked \subseteq kicked'
  BY <1>1 DEF ThreadTypes
<1> QED
  BY <1>1, <1>2, <1>3, <1>4, <1>5, LeaverKeeps

\* The labels of a leave.
LEMMA LabelFacts ==
    /\ Inner \subseteq Labels /\ {"forget", "part", "recv", "mourn", "shut", "ended", "clean", "notice"} \subseteq Labels
    /\ \A t : AfterLeave(t) \in {"forget", "part"} /\ (AfterLeave(t) = "forget" <=> lock = t)
BY DEF Inner, Labels, AfterLeave

\* A KeyError in _leave_room_logic.
LEMMA InnerRaises ==
    ASSUME IInv, NEW t \in Everyone, at[t] \in Inner, Raise(t),
           UNCHANGED route, UNCHANGED link, UNCHANGED queue, UNCHANGED tables, UNCHANGED limits,
           UNCHANGED <<shut, kicked, wiped, toClient>>
    PROVE  IInv'
<1>1. at[t] # "ended"
  BY DEF Inner
<1>2. /\ toClient' \in [Conns -> Seq(Packets)]
      /\ \A c \in Conns : /\ Hears(toClient[c], toClient'[c])
                          /\ rx[c] # "recv" => toClient'[c] = toClient[c]
  BY SilentFacts
<1> QED
  BY <1>1, <1>2, RaiseKeeps

\* The room is looked up.
LEMMA LeaveCheckKeeps ==
    ASSUME IInv, NEW t \in Everyone, LeaveCheck(t)
    PROVE  IInv'
<1>1. /\ at[t] \in Inner /\ UNCHANGED limits /\ UNCHANGED tables
      /\ UNCHANGED route /\ UNCHANGED link /\ UNCHANGED queue /\ UNCHANGED <<shut, kicked, wiped, toClient>>
      /\ clients' = clients /\ current' = current /\ rooms' = rooms /\ home' = home /\ open' = open
  BY DEF LeaveCheck, tables, Inner
<1>2. CASE Raise(t)
  BY <1>1, <1>2, InnerRaises
<1>3. ASSUME NEW l \in {"discard", AfterLeave(t)}, Goto(t, l), UNCHANGED <<lock, peer, target, toServer, stuck>>
      PROVE IInv'
  <2>1. /\ l \in Labels
        /\ \/ l \in Inner /\ l # "del"
           \/ l = "forget" /\ lock = t
           \/ l = "part" /\ lock # t
    BY LabelFacts DEF Inner
  <2>2. TableTypes' /\ Spared(room_conn)
    BY <1>1 DEF IInv, TypeInv, TableTypes, limits, Spared
  <2> QED
    BY <1>1, <1>3, <2>1, <2>2, InnerKeeps
<1> QED
  BY <1>2, <1>3 DEF LeaveCheck

\* The client is taken out of the set.
LEMMA LeaveDiscardKeeps ==
    ASSUME IInv, NEW t \in Everyone, LeaveDiscard(t)
    PROVE  IInv'
<1>1. /\ at[t] \in Inner /\ UNCHANGED limits
      /\ UNCHANGED route /\ UNCHANGED link /\ UNCHANGED queue /\ UNCHANGED <<shut, kicked, toClient>>
      /\ clients' = clients /\ current' = current /\ home' = home /\ open' = open /\ wiped' = wiped
  BY DEF LeaveDiscard, Leaving, Inner
<1>2. CASE Raise(t) /\ rooms' = rooms
  BY <1>1, <1>2, InnerRaises DEF tables
<1>3. CASE /\ home[About(t)] \in open
           /\ rooms' = [rooms EXCEPT ![home[About(t)]] = @ \ {About(t)}] /\ Goto(t, "empty")
           /\ UNCHANGED <<lock, peer, target, toServer, stuck>>
  <2>1. TableTypes
    BY DEF IInv, TypeInv
  <2>2. /\ rooms' \in [Rooms -> SUBSET Everyone]
        /\ \A r \in Rooms : rooms'[r] \subseteq rooms[r] /\ rooms[r] \subseteq rooms'[r] \cup {About(t)}
    BY <1>3, <2>1 DEF TableTypes
  <2>3. TableTypes'
    BY <1>1, <2>1, <2>2 DEF TableTypes, limits
  <2>4. room_conn # About(t) => Spared(room_conn)
    BY <1>1, <2>2 DEF Spared
  <2>5. "empty" \in Labels /\ "empty" \in Inner
    BY LabelFacts DEF Inner
  <2> QED
    BY <1>1, <1>3, <2>2, <2>3, <2>4, <2>5, InnerKeeps
<1> QED
  BY <1>2, <1>3 DEF LeaveDiscard, Leaving

\* The set is found empty, or not.
LEMMA LeaveEmptyKeeps ==
    ASSUME IInv, NEW t \in Everyone, LeaveEmpty(t)
    PROVE  IInv'
<1>1. /\ at[t] \in Inner /\ UNCHANGED limits
      /\ UNCHANGED route /\ UNCHANGED link /\ UNCHANGED queue /\ UNCHANGED <<shut, kicked, toClient>>
      /\ clients' = clients /\ current' = current /\ home' = home /\ open' = open /\ wiped' = wiped
      /\ rooms' = rooms
  BY DEF LeaveEmpty, Leaving, Inner
<1>2. CASE Raise(t)
  BY <1>1, <1>2, InnerRaises DEF tables
<1>3. CASE /\ Goto(t, IF rooms[home[About(t)]] = {} THEN "del" ELSE "reset")
           /\ UNCHANGED <<lock, peer, target, toServer, stuck>>
  <2>1. PICK l \in {"del", "reset"} : Goto(t, l) /\ (l = "del" => rooms[home[About(t)]] = {})
    BY <1>3
  <2>2. TableTypes' /\ Spared(room_conn)
    BY <1>1 DEF IInv, TypeInv, TableTypes, limits, Spared
  <2>3. l \in Labels /\ l \in Inner
    BY LabelFacts DEF Inner
  <2> QED
    BY <1>1, <1>3, <2>1, <2>2, <2>3, InnerKeeps
<1> QED
  BY <1>2, <1>3 DEF LeaveEmpty, Leaving

\* The set is deleted, which is empty if the thread has the lock.
LEMMA LeaveDelKeeps ==
    ASSUME IInv, NEW t \in Everyone, LeaveDel(t)
    PROVE  IInv'
<1>1. /\ at[t] = "del" /\ at[t] \in Inner /\ UNCHANGED limits
      /\ UNCHANGED route /\ UNCHANGED link /\ UNCHANGED queue /\ UNCHANGED <<shut, kicked, toClient>>
      /\ clients' = clients /\ current' = current /\ home' = home
  BY DEF LeaveDel, Leaving, Inner
<1>2. CASE Raise(t) /\ open' = open /\ rooms' = rooms /\ wiped' = wiped
  BY <1>1, <1>2, InnerRaises DEF tables
<1>3. CASE /\ home[About(t)] \in open
           /\ open' = open \ {home[About(t)]} /\ rooms' = [rooms EXCEPT ![home[About(t)]] = {}]
           /\ wiped' = (IF lock = t THEN wiped ELSE wiped \cup rooms[home[About(t)]])
           /\ Goto(t, "reset") /\ UNCHANGED <<lock, peer, target, toServer, stuck>>
  <2>1. TableTypes /\ ThreadOK(t)
    BY DEF IInv, TypeInv, ThreadInv
  <2>2. PICK r \in Rooms : r = home[About(t)]
    BY <1>3, <2>1 DEF TableTypes
  <2>3. /\ rooms' \in [Rooms -> SUBSET Everyone]
        /\ \A q \in Rooms : rooms'[q] \subseteq rooms[q] /\ (q # r => rooms'[q] = rooms[q])
    BY <1>3, <2>1, <2>2 DEF TableTypes
  <2>4. lock = t => rooms[r] = {}
    BY <1>1, <2>1, <2>2 DEF ThreadOK
  <2>5. rooms[r] \cup wiped \subseteq rooms'[r] \cup wiped' /\ wiped \subseteq wiped' /\ wiped' \subseteq Everyone
    BY <1>3, <2>1, <2>2, <2>4 DEF TableTypes
  <2>6. TableTypes'
    BY <1>1, <1>3, <2>1, <2>3, <2>5 DEF TableTypes, limits
  <2>7. Spared(room_conn)
    BY <1>1, <2>3, <2>5 DEF Spared
  <2>8. "reset" \in Labels /\ "reset" \in Inner
    BY LabelFacts DEF Inner
  <2> QED
    BY <1>1, <1>3, <2>3, <2>6, <2>7, <2>8, InnerKeeps
<1> QED
  BY <1>2, <1>3 DEF LeaveDel, Leaving

\* The record says that the client is in no room.
LEMMA LeaveResetKeeps ==
    ASSUME IInv, NEW t \in Everyone, LeaveReset(t)
    PROVE  IInv'
<1>1. /\ at[t] \in Inner /\ UNCHANGED limits
      /\ UNCHANGED route /\ UNCHANGED link /\ UNCHANGED queue
      /\ UNCHANGED <<peer, home, toServer, stuck, target, lock, kicked, toClient, shut>>
      /\ clients' = clients /\ open' = open /\ wiped' = wiped /\ rooms' = rooms
      /\ current' = [current EXCEPT ![About(t)] = NoRoom] /\ Goto(t, AfterLeave(t))
  BY DEF LeaveReset, Inner, wires, fate
<1>2. TableTypes /\ About(t) \in Everyone
  BY AboutFacts, <1>1 DEF IInv, TypeInv
<1>3. /\ current' \in [Everyone -> Rooms \cup {NoRoom}]
      /\ \A s \in Everyone : s # About(t) => current'[s] = current[s]
  BY <1>1, <1>2 DEF TableTypes
<1>4. TableTypes'
  BY <1>1, <1>2, <1>3 DEF TableTypes, limits
<1>5. room_conn \in Conns /\ room_conn # About(t) => Spared(room_conn)
  BY <1>1, <1>3 DEF Spared, Everyone
<1>6. /\ AfterLeave(t) \in Labels
      /\ \/ AfterLeave(t) = "forget" /\ lock = t
         \/ AfterLeave(t) = "part" /\ lock # t
  BY DEF AfterLeave, Labels
<1> QED
  BY <1>1, <1>4, <1>5, <1>6, InnerKeeps

\* A leave ends: the client is told, and so is the room.
LEMMA PartKeeps ==
    ASSUME IInv, NEW t \in Everyone, Part(t)
    PROVE  IInv'
<1>1. /\ at[t] = "part" /\ UNCHANGED limits /\ UNCHANGED tables
      /\ UNCHANGED route /\ UNCHANGED link /\ UNCHANGED queue /\ UNCHANGED <<shut, kicked, wiped>>
      /\ clients' = clients /\ current' = current /\ rooms' = rooms /\ home' = home /\ open' = open
  BY DEF Part, tables
<1>2. TypeInv /\ ThreadTypes /\ TableTypes /\ ThreadOK(t)
  BY DEF IInv, TypeInv, ThreadInv
<1>3. peer[t] = "open" /\ ~Kicks(t) /\ lock # t
  BY <1>1, <1>2 DEF ThreadTypes, ThreadOK, Inner
<1>4. CASE Raise(t) /\ toClient' = toClient
  <2>1. /\ toClient' \in [Conns -> Seq(Packets)]
        /\ \A c \in Conns : /\ Hears(toClient[c], toClient'[c])
                            /\ rx[c] # "recv" => toClient'[c] = toClient[c]
    BY <1>4, SilentFacts
  <2> QED
    BY <1>1, <1>4, <2>1, RaiseKeeps
<1>5. CASE /\ toClient' = Broadcast(home[t], Reply(t, "LEAVE_ROOM", TRUE)) /\ Goto(t, "recv")
           /\ UNCHANGED <<peer, target, lock, toServer, stuck>>
  <2>1. PICK told_client : told_client = Reply(t, "LEAVE_ROOM", TRUE)
    OBVIOUS
  <2>2. /\ told_client \in [Conns -> Seq(Packets)]
        /\ \A d \in Conns : d # t \/ rx[d] # "recv" => told_client[d] = toClient[d]
    BY <1>2, <2>1, ReplyFacts
  <2>3. /\ toClient' \in [Conns -> Seq(Packets)]
        /\ \A c \in Conns : /\ Hears(told_client[c], toClient'[c])
                            /\ rx[c] # "recv" => toClient'[c] = told_client[c]
    BY <1>5, <2>1, <2>2, BroadcastFacts
  <2>4. room_conn \in Conns => room_conn # t
    BY <1>1, <1>3 DEF IInv, JoinInv, JoinOK
  <2>5. /\ room_conn \in Conns => Hears(toClient[room_conn], toClient'[room_conn])
        /\ \A c \in Conns : rx[c] # "recv" => toClient'[c] = toClient[c]
    BY <2>2, <2>3, <2>4
  <2>6. TableTypes' /\ Spared(room_conn)
    BY <1>1, <1>2 DEF TableTypes, limits, Spared
  <2>7. ASSUME at'[t] = "recv" PROVE ThreadOK(t)'
    BY <1>3, <1>5, <2>7 DEF ThreadOK, Kicks, Inner
  <2>8. "recv" \in Labels /\ target' \in [Others -> Conns \cup {NoConn}]
    BY <1>2, <1>5, LabelFacts DEF ThreadTypes
  <2> QED
    BY <1>1, <1>5, <2>3, <2>5, <2>6, <2>7, <2>8, LeaverKeeps
<1> QED
  BY <1>4, <1>5 DEF Part

\* A step of another user's handler out of its loop.
LEMMA OtherKeeps ==
    ASSUME IInv, NEW o \in Others, OtherLeaves(o) \/ \E d \in Conns : Kick(o, d)
    PROVE  IInv'
<1>1. /\ at[o] = "recv" /\ UNCHANGED limits /\ UNCHANGED tables
      /\ UNCHANGED route /\ UNCHANGED link /\ UNCHANGED queue /\ UNCHANGED <<shut, kicked, wiped>>
      /\ clients' = clients /\ current' = current /\ rooms' = rooms /\ home' = home /\ open' = open
      /\ toClient' = toClient /\ toServer' = toServer /\ peer' = peer /\ lock' = lock /\ stuck' = stuck
  BY DEF OtherLeaves, Kick, tables, wires, fate
<1>2. o \in Everyone /\ o \notin Conns
  BY NamesAssumption DEF Everyone
<1>3. TypeInv /\ ThreadTypes /\ TableTypes /\ ThreadOK(o)
  BY <1>2 DEF IInv, TypeInv, ThreadInv
<1>4. peer[o] = "open" /\ ~Kicks(o) /\ lock # o
  BY <1>1, <1>2, <1>3 DEF ThreadTypes, ThreadOK, Inner
<1>5. PICK l \in {"check", "notice"} :
          /\ Goto(o, l)
          /\ \/ l = "check" /\ target' = target
             \/ \E d \in Conns : l = "notice" /\ target' = [target EXCEPT ![o] = d]
  BY DEF OtherLeaves, Kick
<1>6. /\ target' \in [Others -> Conns \cup {NoConn}] /\ \A s \in Others : s # o => target'[s] = target[s]
      /\ l = "check" => target' = target
      /\ l = "notice" => target'[o] \in Conns
  BY <1>3, <1>5 DEF ThreadTypes
<1>7. ASSUME at'[o] = l PROVE ThreadOK(o)'
  <2>1. CASE l = "check"
    BY <1>1, <1>4, <1>6, <1>7, <2>1 DEF ThreadOK, Kicks, Inner
  <2>2. CASE l = "notice"
    <3>1. Kicks(o)' /\ peer'[o] = "open" /\ lock' # o /\ at'[o] = "notice"
      BY <1>1, <1>4, <1>6, <1>7, <2>2, NamesAssumption DEF Kicks, Everyone
    <3> QED
      BY <3>1 DEF ThreadOK, Inner
  <2> QED
    BY <2>1, <2>2
<1>8. /\ toClient' \in [Conns -> Seq(Packets)]
      /\ \A c \in Conns : /\ Hears(toClient[c], toClient'[c])
                          /\ rx[c] # "recv" => toClient'[c] = toClient[c]
  BY <1>1, SilentFacts
<1>9. TableTypes' /\ Spared(room_conn) /\ l \in Labels
  BY <1>1, <1>3 DEF TableTypes, limits, Spared, Labels
<1> QED
  BY <1>1, <1>2, <1>5, <1>6, <1>7, <1>8, <1>9, LeaverKeeps

\* Whom a kick or a clean-up outside of the lock is about.
LEMMA KickerFacts ==
    ASSUME IInv, NEW t \in Everyone, at[t] \in {"notice", "clean", "forget", "mourn", "shut"}
    PROVE  /\ ThreadTypes /\ TableTypes /\ ThreadOK(t)
           /\ Kicks(t) => peer[t] = "open" /\ t \in Others /\ About(t) = target[t]
                          /\ target[t] \in Conns /\ target[t] # t
           /\ ~Kicks(t) => peer[t] = "closed" /\ About(t) = t
           /\ at[t] \in {"notice", "shut"} => Kicks(t)
           /\ at[t] # "forget" => lock # t
           /\ About(t) \in Everyone
<1>1. TypeInv /\ ThreadTypes /\ TableTypes /\ ThreadOK(t)
  BY DEF IInv, TypeInv, ThreadInv
<1>2. /\ Kicks(t) => peer[t] = "open"
      /\ ~Kicks(t) => peer[t] = "closed"
      /\ at[t] \in {"notice", "shut"} => Kicks(t)
      /\ at[t] # "forget" => lock # t
  BY <1>1 DEF ThreadTypes, ThreadOK, Inner
<1> QED
  BY <1>1, <1>2, KicksFacts DEF Kicks

\* The client that is kicked is told, or its socket is found closed.
LEMMA NoticeKeeps ==
    ASSUME IInv, NEW o \in Others, Notice(o)
    PROVE  IInv'
<1>1. /\ at[o] = "notice" /\ UNCHANGED limits /\ UNCHANGED tables
      /\ UNCHANGED route /\ UNCHANGED link /\ UNCHANGED queue /\ UNCHANGED <<shut, kicked, wiped>>
      /\ clients' = clients /\ current' = current /\ rooms' = rooms /\ home' = home /\ open' = open
  BY DEF Notice, tables
<1>2. o \in Everyone /\ o \notin Conns
  BY NamesAssumption DEF Everyone
<1>3. ThreadTypes /\ TableTypes /\ Kicks(o) /\ peer[o] = "open" /\ lock # o
  BY <1>1, <1>2, KickerFacts
<1>4. CASE Raise(o) /\ toClient' = toClient
  <2>1. /\ toClient' \in [Conns -> Seq(Packets)]
        /\ \A c \in Conns : /\ Hears(toClient[c], toClient'[c])
                            /\ rx[c] # "recv" => toClient'[c] = toClient[c]
    BY <1>4, SilentFacts
  <2> QED
    BY <1>1, <1>2, <1>4, <2>1, RaiseKeeps
<1>5. CASE /\ toClient' = Send({target[o]}, Event, toClient) /\ Goto(o, "clean")
           /\ UNCHANGED <<peer, target, lock, toServer, stuck>>
  <2>1. PICK ds : ds = {target[o]}
    OBVIOUS
  <2>2. Event \in Packets /\ toClient \in [Conns -> Seq(Packets)]
    BY PacketFacts DEF IInv, TypeInv
  <2>3. /\ toClient' \in [Conns -> Seq(Packets)]
        /\ \A c \in Conns : /\ Hears(toClient[c], toClient'[c])
                            /\ rx[c] # "recv" => toClient'[c] = toClient[c]
    <3>1. /\ Send(ds, Event, toClient) \in [Conns -> Seq(Packets)]
          /\ \A c \in Conns : /\ rx[c] # "recv" => Send(ds, Event, toClient)[c] = toClient[c]
                              /\ Hears(toClient[c], Send(ds, Event, toClient)[c])
      BY <2>2, SendFacts
    <3> QED
      BY <1>5, <2>1, <3>1
  <2>4. ASSUME at'[o] = "clean" PROVE ThreadOK(o)'
    <3>1. Kicks(o)' /\ peer'[o] = "open" /\ lock' # o
      BY <1>3, <1>5 DEF Kicks
    <3> QED
      BY <2>4, <3>1 DEF ThreadOK, Inner
  <2>5. TableTypes' /\ Spared(room_conn) /\ "clean" \in Labels /\ target' \in [Others -> Conns \cup {NoConn}]
    BY <1>1, <1>3, <1>5, LabelFacts DEF TableTypes, ThreadTypes, limits, Spared
  <2> QED
    BY <1>1, <1>2, <1>5, <2>3, <2>4, <2>5, LeaverKeeps
<1> QED
  BY <1>4, <1>5 DEF Notice

\* A clean-up begins: the client leaves its room, or is removed.
LEMMA CleanKeeps ==
    ASSUME IInv, NEW t \in Everyone, Clean(t)
    PROVE  IInv'
<1> DEFINE w == About(t)
<1>1. /\ at[t] = "clean" /\ lock = NoConn /\ UNCHANGED limits
      /\ UNCHANGED route /\ UNCHANGED link /\ UNCHANGED queue
      /\ shut' = shut /\ wiped' = wiped /\ kicked' = kicked \cup ({w} \ {t})
      /\ current' = current /\ rooms' = rooms /\ home' = home /\ open' = open
      /\ toClient' = toClient /\ toServer' = toServer /\ peer' = peer /\ target' = target /\ stuck' = stuck
  BY DEF Clean, LockFree, wires, Kicked
<1>2. /\ ThreadTypes /\ TableTypes
      /\ Kicks(t) => peer[t] = "open" /\ t \in Others /\ w = target[t] /\ target[t] \in Conns /\ target[t] # t
      /\ ~Kicks(t) => peer[t] = "closed" /\ w = t
  BY <1>1, KickerFacts
<1>3. NoConn # t
  BY NamesAssumption
<1>4. kicked \subseteq kicked' /\ kicked' \subseteq Conns /\ (Kicks(t) => target[t] \in kicked')
  BY <1>1, <1>2 DEF TableTypes
<1>5. clients' \in {clients, clients \ {w}}
  BY DEF Clean
<1>6. TableTypes'
  BY <1>1, <1>2, <1>4, <1>5 DEF TableTypes, limits
<1>7. room_conn # t /\ room_conn \notin kicked' => Spared(room_conn)
  BY <1>1, <1>5 DEF Spared
<1>8. Kicks(t)' <=> Kicks(t)
  BY <1>1 DEF Kicks
<1>9. /\ toClient' \in [Conns -> Seq(Packets)]
      /\ \A c \in Conns : /\ Hears(toClient[c], toClient'[c])
                          /\ rx[c] # "recv" => toClient'[c] = toClient[c]
  BY <1>1, SilentFacts
<1>10. PICK l \in {"check", "ended", "shut"} :
           /\ Goto(t, l)
           /\ \/ l = "check" /\ lock' = t
              \/ lock' = lock /\ l = AfterCleanup(t)
  BY DEF Clean, AfterCleanup
<1>11. ASSUME at'[t] = l PROVE ThreadOK(t)'
  <2>1. CASE l = "check" /\ lock' = t
    BY <1>1, <1>2, <1>4, <1>8, <1>11, <2>1 DEF ThreadOK, Inner
  <2>2. CASE lock' = lock /\ l = AfterCleanup(t)
    BY <1>1, <1>2, <1>3, <1>4, <1>8, <1>11, <2>2 DEF ThreadOK, Inner, AfterCleanup
  <2> QED
    BY <1>10, <2>1, <2>2
<1>12. /\ l \in Labels /\ target' \in [Others -> Conns \cup {NoConn}]
       /\ at[t] # "ended" /\ at[t] \notin {"recv", "join", "greet"}
       /\ lock' = lock \/ (lock = NoConn /\ lock' = t)
  BY <1>1, <1>2, <1>10 DEF ThreadTypes, Labels
<1> QED
  BY <1>1, <1>4, <1>6, <1>7, <1>9, <1>10, <1>11, <1>12, LeaverKeeps

\* The client is removed, and the lock released.
LEMMA ForgetKeeps ==
    ASSUME IInv, NEW t \in Everyone, Forget(t)
    PROVE  IInv'
<1>1. /\ at[t] = "forget" /\ UNCHANGED limits
      /\ UNCHANGED route /\ UNCHANGED link /\ UNCHANGED queue
      /\ shut' = shut /\ wiped' = wiped /\ kicked' = kicked
      /\ clients' = clients \ {About(t)} /\ lock' = NoConn /\ Goto(t, "mourn")
      /\ current' = current /\ rooms' = rooms /\ home' = home /\ open' = open
      /\ toClient' = toClient /\ toServer' = toServer /\ peer' = peer /\ target' = target /\ stuck' = stuck
  BY DEF Forget, wires, fate
<1>2. /\ ThreadTypes /\ TableTypes /\ ThreadOK(t)
      /\ Kicks(t) => peer[t] = "open"
      /\ ~Kicks(t) => peer[t] = "closed"
  BY <1>1, KickerFacts
<1>3. NoConn # t /\ lock = t /\ (Kicks(t) => target[t] \in kicked)
  BY <1>1, <1>2, NamesAssumption DEF ThreadOK
<1>4. TableTypes'
  BY <1>1, <1>2 DEF TableTypes, limits
<1>5. room_conn \in Conns /\ room_conn # t /\ room_conn \notin kicked' => Spared(room_conn)
  <2>1. \A u \in Conns : u = About(t) /\ u # t => u \in kicked
    BY <1>1, AboutFacts
  <2> QED
    BY <1>1, <2>1 DEF Spared
<1>6. /\ toClient' \in [Conns -> Seq(Packets)]
      /\ \A c \in Conns : /\ Hears(toClient[c], toClient'[c])
                          /\ rx[c] # "recv" => toClient'[c] = toClient[c]
  BY <1>1, SilentFacts
<1>7. ASSUME at'[t] = "mourn" PROVE ThreadOK(t)'
  <2>1. (Kicks(t)' <=> Kicks(t)) /\ lock' # t /\ peer'[t] = peer[t]
    BY <1>1, <1>3 DEF Kicks
  <2> QED
    BY <1>1, <1>2, <1>3, <1>7, <2>1 DEF ThreadOK, Inner
<1>8. "mourn" \in Labels /\ target' \in [Others -> Conns \cup {NoConn}]
  BY <1>1, <1>2, LabelFacts DEF ThreadTypes
<1> QED
  BY <1>1, <1>3, <1>4, <1>5, <1>6, <1>7, <1>8, LeaverKeeps

\* The room is told that the client has gone.
LEMMA MournKeeps ==
    ASSUME IInv, NEW t \in Everyone, Mourn(t)
    PROVE  IInv'
<1>1. /\ at[t] = "mourn" /\ lock = NoConn /\ UNCHANGED limits /\ UNCHANGED tables
      /\ UNCHANGED route /\ UNCHANGED link /\ UNCHANGED queue
      /\ shut' = shut /\ wiped' = wiped /\ kicked' = kicked /\ clients' = clients
      /\ current' = current /\ rooms' = rooms /\ home' = home /\ open' = open
      /\ toServer' = toServer /\ peer' = peer /\ target' = target /\ stuck' = stuck /\ lock' = lock
      /\ toClient' = Broadcast(home[About(t)], toClient) /\ Goto(t, AfterCleanup(t))
  BY DEF Mourn, LockFree, tables, fate
<1>2. /\ ThreadTypes /\ TableTypes /\ ThreadOK(t)
      /\ Kicks(t) => peer[t] = "open"
      /\ ~Kicks(t) => peer[t] = "closed"
  BY <1>1, KickerFacts
<1>3. NoConn # t /\ (Kicks(t) => target[t] \in kicked)
  BY <1>1, <1>2, NamesAssumption DEF ThreadOK
<1>4. TableTypes' /\ Spared(room_conn)
  BY <1>1, <1>2 DEF TableTypes, limits, Spared
<1>5. /\ toClient' \in [Conns -> Seq(Packets)]
      /\ \A c \in Conns : /\ Hears(toClient[c], toClient'[c])
                          /\ rx[c] # "recv" => toClient'[c] = toClient[c]
  BY <1>1, BroadcastFacts DEF IInv, TypeInv
<1>6. ASSUME at'[t] = AfterCleanup(t) PROVE ThreadOK(t)'
  <2>1. (Kicks(t)' <=> Kicks(t)) /\ lock' # t /\ peer'[t] = peer[t]
    BY <1>1, <1>3 DEF Kicks
  <2> QED
    BY <1>1, <1>2, <1>3, <1>6, <2>1 DEF ThreadOK, Inner, AfterCleanup
<1>7. AfterCleanup(t) \in Labels /\ target' \in [Others -> Conns \cup {NoConn}]
  BY <1>1, <1>2 DEF ThreadTypes, AfterCleanup, Labels
<1> QED
  BY <1>1, <1>4, <1>5, <1>6, <1>7, LeaverKeeps

\* The kick ends.
LEMMA ShutKeeps ==
    ASSUME IInv, NEW o \in Others, Shut(o)
    PROVE  IInv'
<1>1. /\ at[o] = "shut" /\ lock = NoConn /\ UNCHANGED limits /\ UNCHANGED tables
      /\ UNCHANGED route /\ UNCHANGED link /\ UNCHANGED queue
      /\ shut' = shut \cup {target[o]} /\ target' = [target EXCEPT ![o] = NoConn]
      /\ wiped' = wiped /\ kicked' = kicked /\ clients' = clients
      /\ current' = current /\ rooms' = rooms /\ home' = home /\ open' = open
      /\ toServer' = toServer /\ peer' = peer /\ stuck' = stuck /\ lock' = lock
      /\ toClient' = [c \in Conns |-> IF c = target[o] THEN toClient[c]
                                       ELSE Broadcast(home[o], toClient)[c]]
      /\ Goto(o, "recv")
  BY DEF Shut, LockFree, tables, fate
<1>2. o \in Everyone /\ o \notin Conns
  BY NamesAssumption DEF Everyone
<1>3. ThreadTypes /\ TableTypes /\ peer[o] = "open" /\ target[o] \in Conns
  BY <1>1, <1>2, KickerFacts
<1>4. NoConn # o
  BY <1>2, NamesAssumption
<1>5. TableTypes' /\ Spared(room_conn)
  BY <1>1, <1>3 DEF TableTypes, limits, Spared
<1>6. /\ toClient' \in [Conns -> Seq(Packets)]
      /\ \A c \in Conns : /\ Hears(toClient[c], toClient'[c])
                          /\ rx[c] # "recv" => toClient'[c] = toClient[c]
  <2>1. toClient \in [Conns -> Seq(Packets)]
    BY DEF IInv, TypeInv
  <2>2. PICK heard : heard = Broadcast(home[o], toClient)
    OBVIOUS
  <2>3. /\ heard \in [Conns -> Seq(Packets)]
        /\ \A c \in Conns : /\ Hears(toClient[c], heard[c])
                            /\ rx[c] # "recv" => heard[c] = toClient[c]
    BY <2>1, <2>2, BroadcastFacts
  <2> QED
    BY <1>1, <2>1, <2>2, <2>3, HearsFacts
<1>7. target' \in [Others -> Conns \cup {NoConn}] /\ target'[o] = NoConn
      /\ \A s \in Others : s # o => target'[s] = target[s]
  BY <1>1, <1>3 DEF ThreadTypes
<1>8. ASSUME at'[o] = "recv" PROVE ThreadOK(o)'
  <2>1. ~Kicks(o)' /\ lock' # o /\ peer'[o] = "open"
    BY <1>1, <1>3, <1>4, <1>7 DEF Kicks
  <2> QED
    BY <1>8, <2>1 DEF ThreadOK, Inner
<1>9. "recv" \in Labels
  BY LabelFacts
<1> QED
  BY <1>1, <1>2, <1>5, <1>6, <1>7, <1>8, <1>9, LeaverKeeps

\* A handler in recv() finds that its connection has ended.
LEMMA LosesKeeps ==
    ASSUME IInv, NEW t \in Everyone, at[t] = "recv", ToFinally(t), lock' = lock,
           UNCHANGED route, UNCHANGED link, UNCHANGED queue, UNCHANGED tables, UNCHANGED limits,
           UNCHANGED <<toClient, shut, kicked, wiped>>
    PROVE  IInv'
<1>1. ThreadTypes /\ ThreadOK(t)
  BY DEF IInv, TypeInv, ThreadInv
<1>2. peer[t] # "closed" /\ lock # t
  BY <1>1 DEF ThreadOK, Inner
<1>3. Raise(t)
  BY <1>2 DEF Raise
<1>4. /\ toClient' \in [Conns -> Seq(Packets)]
      /\ \A c \in Conns : /\ Hears(toClient[c], toClient'[c])
                          /\ rx[c] # "recv" => toClient'[c] = toClient[c]
  BY SilentFacts
<1> QED
  BY <1>3, <1>4, RaiseKeeps

\* Something is said in a room.
LEMMA TalkKeeps ==
    ASSUME IInv, NEW r \in Rooms, Talk(r)
    PROVE  IInv'
<1>1. /\ pc' = pc /\ want' = want /\ answer' = answer /\ room_conn' = room_conn /\ told' = told
      /\ running' = running /\ closed' = closed /\ rx' = rx /\ toServer' = toServer
      /\ events' = events /\ pushed' = pushed /\ handed' = handed /\ poll' = poll /\ page' = page
      /\ peer' = peer /\ shut' = shut /\ at' = at /\ target' = target /\ lock' = lock
      /\ clients' = clients /\ current' = current /\ home' = home /\ open' = open /\ rooms' = rooms
      /\ kicked' = kicked /\ wiped' = wiped /\ stuck' = stuck /\ breaks' = breaks
      /\ talked < MaxTalk /\ talked' = talked + 1 /\ toClient' = Broadcast(r, toClient)
  BY DEF Talk, route, link, queue, thread, tables, fate
<1>2. /\ toClient' \in [Conns -> Seq(Packets)]
      /\ \A c \in Conns : /\ Hears(toClient[c], toClient'[c])
                          /\ rx[c] # "recv" => toClient'[c] = toClient[c]
  BY <1>1, BroadcastFacts DEF IInv, TypeInv
<1>3. TypeInv'
  <2>1. talked' \in 0..MaxTalk
    BY <1>1, BoundsAssumption DEF IInv, TypeInv, TableTypes
  <2> QED
    BY <1>1, <1>2, <2>1 DEF IInv, TypeInv, RouteTypes, ThreadTypes, TableTypes
<1>4. OneOpenConnection' /\ RouteInv' /\ QueueInv'
  BY <1>1 DEF IInv, OneOpenConnection, RouteInv, QueueInv
<1>5. FreshInv'
  BY <1>1, <1>2 DEF IInv, FreshInv
<1>6. ThreadInv'
  BY <1>1 DEF IInv, ThreadInv, ThreadOK, Kicks, About
<1>7. ASSUME room_conn \in Conns PROVE JoinOK(room_conn)' /\ AuthOK(room_conn)'
  <2>1. JoinOK(room_conn) /\ AuthOK(room_conn) /\ Hears(toClient[room_conn], toClient'[room_conn])
    BY <1>2, <1>7 DEF IInv, JoinInv
  <2>2. Confirmed' => Confirmed
    BY <1>1, <2>1 DEF Confirmed, Hears
  <2> QED
    BY <1>1, <2>1, <2>2 DEF JoinOK, AuthOK, Placed, Hears
<1>8. JoinInv'
  BY <1>1, <1>7 DEF JoinInv
<1> QED
  BY <1>3, <1>4, <1>5, <1>6, <1>8 DEF IInv

-----------------------------------------------------------------------------
(* The invariant *)

\* Nothing is under way at the beginning, and the page has a poller.
LEMMA InitIInv == Init => IInv
<1> SUFFICES ASSUME Init PROVE IInv
  OBVIOUS
<1>1. /\ pc = "idle" /\ want = NoRoom /\ answer = "none" /\ room_conn = NoConn /\ told = NoRoom
      /\ running = [c \in Conns |-> FALSE] /\ closed = [c \in Conns |-> FALSE]
      /\ rx = [c \in Conns |-> "none"]
      /\ toServer = [c \in Conns |-> <<>>] /\ toClient = [c \in Conns |-> <<>>]
      /\ events = <<>> /\ pushed = 0 /\ handed = <<>>
      /\ shut = {} /\ target = [o \in Others |-> NoConn] /\ lock = NoConn
      /\ kicked = {} /\ wiped = {} /\ stuck = {}
      /\ page = CHOOSE p \in Pollers : poll[p] = "idle"
  BY DEF Init
<1>2. PICK bound \in Bounds, r \in Rooms :
          /\ peer = [e \in Everyone |-> IF e \in bound.conns THEN "none"
                                       ELSE IF e \in bound.others THEN "open" ELSE "closed"]
          /\ at = [e \in Everyone |-> IF e \in bound.others THEN "recv" ELSE "ended"]
          /\ clients = bound.others
          /\ current = [e \in Everyone |-> IF e \in bound.others THEN r ELSE NoRoom]
          /\ home = current
          /\ open = IF bound.others = {} THEN {} ELSE {r}
          /\ rooms = [q \in Rooms |-> IF q = r THEN bound.others ELSE {}]
          /\ poll = [p \in Pollers |-> IF p \in bound.pollers THEN "idle" ELSE "done"]
          /\ talked = MaxTalk - bound.talk /\ breaks = bound.breaks
  BY DEF Init
<1>3. /\ bound.conns \subseteq Conns /\ bound.others \subseteq Others /\ bound.others \subseteq Everyone
      /\ bound.pollers \subseteq Pollers /\ bound.pollers # {} /\ bound.breaks \subseteq Everyone
      /\ bound.talk \in 0..MaxTalk /\ MaxTalk \in Nat
  BY BoundsAssumption DEF Everyone
<1>4. page \in Pollers
  <2>1. PICK p : p \in bound.pollers
    BY <1>3
  <2>2. p \in Pollers /\ poll[p] = "idle"
    BY <1>2, <1>3, <2>1
  <2> QED
    BY <1>1, <2>2
<1>5. RouteTypes
  BY <1>1, <1>2, <1>4 DEF RouteTypes
<1>6. ThreadTypes
  BY <1>1, <1>2 DEF ThreadTypes, Labels
<1>7. TableTypes
  <2>1. talked \in 0..MaxTalk
    BY <1>2, <1>3
  <2>2. open \subseteq Rooms /\ current \in [Everyone -> Rooms \cup {NoRoom}]
        /\ rooms \in [Rooms -> SUBSET Everyone]
    BY <1>2, <1>3
  <2> QED
    BY <1>1, <1>2, <1>3, <2>1, <2>2 DEF TableTypes
<1>8. TypeInv
  BY <1>1, <1>5, <1>6, <1>7 DEF TypeInv
<1>9. OneOpenConnection /\ FreshInv /\ RouteInv /\ JoinInv
  BY <1>1, NamesAssumption DEF OneOpenConnection, FreshInv, RouteInv, JoinInv, Everyone
<1>10. ThreadInv
  <2>1. ASSUME NEW t \in Everyone PROVE ThreadOK(t)
    <3>1. NoConn # t
      BY NamesAssumption
    <3>2. ~Kicks(t) /\ lock # t
      BY <1>1, <3>1 DEF Kicks
    <3>3. t \in bound.others => at[t] = "recv" /\ peer[t] = "open"
      BY <1>2, <1>3, NamesAssumption
    <3>4. t \notin bound.others => at[t] = "ended" /\ peer[t] \in {"none", "closed"}
      BY <1>2
    <3> QED
      BY <3>2, <3>3, <3>4 DEF ThreadOK, Inner
  <2> QED
    BY <2>1 DEF ThreadInv
<1>11. QueueInv
  <2>1. handed \o events = <<>> /\ [n \in 1..pushed |-> n] = <<>>
    BY <1>1
  <2> QED
    BY <1>1, <2>1 DEF QueueInv
<1> QED
  BY <1>8, <1>9, <1>10, <1>11 DEF IInv

\* A step of a thread of the server.
LEMMA ServerStepKeeps ==
    ASSUME IInv,
           \/ \E c \in Conns : HandlerStep(c)
           \/ \E o \in Others : KickStep(o) \/ OtherLeaves(o) \/ \E d \in Conns : Kick(o, d)
           \/ \E t \in Everyone : ThreadStep(t) \/ Break(t)
    PROVE  IInv'
<1>1. ASSUME NEW c \in Conns, HandlerStep(c) PROVE IInv'
  <2>1. CASE SeeEnd(c)
    <3>1. c \in Everyone
      BY DEF Everyone
    <3> QED
      BY <2>1, <3>1, LosesKeeps DEF SeeEnd
  <2> QED
    BY <1>1, <2>1, HandleAuthKeeps, HandleJoinKeeps, JoinAddKeeps, GreetKeeps, HandleLeaveKeeps
       DEF HandlerStep
<1>2. ASSUME NEW o \in Others, KickStep(o) \/ OtherLeaves(o) \/ \E d \in Conns : Kick(o, d) PROVE IInv'
  BY <1>2, NoticeKeeps, ShutKeeps, OtherKeeps DEF KickStep
<1>3. ASSUME NEW t \in Everyone, ThreadStep(t) PROVE IInv'
  BY <1>3, LeaveCheckKeeps, LeaveDiscardKeeps, LeaveEmptyKeeps, LeaveDelKeeps, LeaveResetKeeps,
     PartKeeps, CleanKeeps, ForgetKeeps, MournKeeps DEF ThreadStep
<1>4. ASSUME NEW t \in Everyone, Break(t) PROVE IInv'
  BY <1>4, LosesKeeps DEF Break
<1> QED
  BY <1>1, <1>2, <1>3, <1>4

\* The invariant is inductive.
LEMMA NextIInv == IInv /\ [Next]_vars => IInv'
<1> SUFFICES ASSUME IInv, [Next]_vars PROVE IInv'
  OBVIOUS
<1>1. CASE Connect
  BY <1>1, ConnectKeeps
<1>2. CASE SendAuth \/ SendJoin
  BY <1>2, RequestKeeps
<1>3. CASE Authenticated \/ Joined \/ RouteTimeout
  <2>1. UNCHANGED link /\ UNCHANGED wires /\ UNCHANGED server /\ UNCHANGED queue
    BY <1>3 DEF Authenticated, Joined, RouteTimeout
  <2>2. /\ UNCHANGED <<want, room_conn>> /\ pc # "idle" /\ answer' = "none"
        /\ pc' = "idle" \/ (pc' = "join" /\ answer # "none")
        /\ told' = told \/ (pc' = "idle" /\ told' = want /\ pc = "join_wait" /\ answer = "ok")
    BY <1>3 DEF Authenticated, Joined, RouteTimeout, Fail
  <2> QED
    BY <2>1, <2>2, RouteStepKeeps
<1>4. CASE Leave
  BY <1>4, LeaveKeeps
<1>5. ASSUME NEW r \in Rooms, Join(r) \/ Talk(r) PROVE IInv'
  BY <1>5, JoinKeeps, TalkKeeps
<1>6. ASSUME NEW c \in Conns, ReceiverStep(c) \/ ReceiveFails(c) PROVE IInv'
  BY <1>6, ReceiveKeeps, EndsKeeps DEF ReceiverStep, ReceiveEnds, ReceiveFails
<1>7. ASSUME \/ \E c \in Conns : HandlerStep(c)
             \/ \E o \in Others : KickStep(o) \/ OtherLeaves(o) \/ \E d \in Conns : Kick(o, d)
             \/ \E t \in Everyone : ThreadStep(t) \/ Break(t)
      PROVE  IInv'
  BY <1>7, ServerStepKeeps
<1>8. ASSUME NEW p \in Pollers, PollerStep(p) \/ PollTimeout(p) \/ Reload(p) PROVE IInv'
  BY <1>8, PollersKeep DEF PollerStep
<1>9. CASE UNCHANGED vars
  <2>1. /\ UNCHANGED route /\ UNCHANGED link /\ UNCHANGED wires /\ UNCHANGED server
        /\ events' = events /\ pushed' = pushed /\ handed' = handed /\ poll' = poll /\ page' = page
    BY <1>9 DEF vars, queue
  <2>2. QueueInv' /\ poll' \in [Pollers -> {"idle", "waiting", "woken", "done"}] /\ page' \in Pollers
    BY <2>1 DEF IInv, QueueInv, TypeInv, RouteTypes
  <2> QED
    BY <2>1, <2>2, QueueStepKeeps
<1> QED
  BY <1>1, <1>2, <1>3, <1>4, <1>5, <1>6, <1>7, <1>8, <1>9 DEF Next, RouteStep

\* The invariant holds throughout: the connection the session uses is where its
\* requests have brought it, however the threads of the server interleave.
THEOREM Invariance == Spec => []IInv
<1>1. Init => IInv
  BY InitIInv
<1>2. IInv /\ [Next]_vars => IInv'
  BY NextIInv
<1> QED
  BY <1>1, <1>2, PTL DEF Spec

\* A session has one running connection at most, the one it uses
\* (routes.py 140-147, 157-162).
THEOREM OneConnectionTheorem == Spec => []OneOpenConnection
<1>1. IInv => OneOpenConnection
  BY DEF IInv
<1> QED
  BY <1>1, Invariance, PTL

\* The browser is in the room it was told it is in, until its connection ends or is
\* kicked, but for a set deleted without the lock (routes.py 146-152,
\* server/main.py 420-427).
THEOREM ToldTheorem == Spec => []ToldIsMember
<1>1. IInv => ToldIsMember
  BY DEF IInv, RouteInv, JoinInv, JoinOK, Placed, Confirmed, ToldIsMember
<1> QED
  BY <1>1, Invariance, PTL

\* Every event is handed out once and in order, whoever polls (session.py 60-72).
THEOREM EventsTheorem == Spec => []EventsOnce
<1>1. TypeInv => TypeOK
  BY DEF TypeInv, RouteTypes, ThreadTypes, TableTypes, TypeOK
<1>2. IInv => EventsOnce
  BY <1>1 DEF IInv, QueueInv, EventsOnce
<1> QED
  BY <1>2, Invariance, PTL
=============================================================================
