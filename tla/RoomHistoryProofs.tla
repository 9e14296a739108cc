-------------------------- MODULE RoomHistoryProofs --------------------------
(***************************************************************************)
(* Proofs about RoomHistory, for every set of clients, texts and cards,    *)
(* every limit and order of the rows, every ambiguity of the file ids and  *)
(* all bounds.  The properties speak of moments at which nothing is under  *)
(* way; what is inductive speaks of what is on its way at all the others:  *)
(* the task of a handler between its commit and its broadcast, or between  *)
(* reading a history and sending it, the packets before the receiver, the  *)
(* events before the browser, and the history that may overtake them.      *)
(***************************************************************************)
EXTENDS RoomHistory, TLAPS

Chat(m)    == [type |-> "chat", message |-> m]
Gone(m)    == [type |-> "gone", message |-> m]
Hist(n, r) == [type |-> "history", number |-> n, rows |-> r]

Among(s, p) == \E i \in 1..Len(s) : s[i] = p

\* The event is on its way to the page of the client.
Coming(c, p) == Among(wire[c], p) \/ Among(events[c], p)

\* A handler of this kind, and the message it is at.
At(c, kind, m) == task[c].do = kind /\ task[c].message = m

Telling(m)     == \E d \in Clients : At(d, "tell", m)
Reacting(c, m) == At(c, "count", m) \/ At(c, "react", m)

\* What comes to a member's bridge is followed until its receiver ends.
Followed(c) == c \in members /\ c \in bounds.pages /\ c \notin deaf

\* The messages a client was sent or is about to be, in a history that was read.
Known(c) == seen.sent[c] \cup (IF task[c].do = "answer" THEN task[c].rows ELSE {})

TypeInv == TypeOK /\ wire \in [Clients -> Seq(Packet)] /\ events \in [Clients -> Seq(Event)]

\* A row that is about to be told of was committed, and a deletion that is about
\* to be told of was made: rows never come back.
TaskInv ==
    \A c \in Clients :
        /\ task[c].do = "tell" => table[task[c].message] # "none"
        /\ task[c].do = "forget" => task[c].message \in Cards /\ table[task[c].message] = "deleted"
        /\ task[c].do = "mark" =>
              /\ task[c].named \subseteq Alike[task[c].file]
              /\ \A m \in task[c].named : table[m] # "none"

\* Only members are sent anything and have a page in the room, and only a page
\* that is followed and has requested a history waits for one and shows one.
MemberInv ==
    \A c \in Clients :
        /\ Known(c) # {} \/ task[c].do = "answer" \/ c \in seen.answered \/ page[c] # "out" => c \in members
        /\ page[c] = "waiting" \/ c \in seen.rendered => c \in bounds.pages /\ requests[c] > 0
        /\ c \in seen.rendered => page[c] # "out"

\* Whoever has a history, or will have it once it is sent, misses no message that
\* was told of.
StoredInv ==
    \A c \in Clients, m \in Messages : table[m] = "stored" =>
        /\ c \in seen.answered => m \in seen.sent[c] \/ Telling(m) \/ Crowded(m)
        /\ task[c].do = "answer" => m \in Known(c) \/ Telling(m) \/ Crowded(m)

\* What a client is told is gone is deleted, and known to it before the packet
\* reaches its browser.
GoneInv ==
    \A c \in Clients, m \in Messages :
        /\ m \in seen.gone[c] => m \in Cards /\ table[m] = "deleted"
        /\ Coming(c, Gone(m)) => m \in seen.gone[c]

\* A card that was deleted while its broadcast was still to come is known as one.
EarlyInv ==
    \A m \in Cards : Telling(m) /\ table[m] = "deleted" => m \in seen.early

\* One client told of a deletion means all told that have the card: the members
\* at the time, and nobody reads the card or is sent it after.
DeletionInv ==
    \A m \in Cards \ seen.early, c, d \in Clients :
        m \in seen.gone[d] /\ m \in Known(c) => m \in seen.gone[c]

\* Without an overlap one handler at a time is at the reactions of a message: if
\* it has counted, the count is what the table has, and if there is none, so is
\* what the room was told.
RaceInv ==
    \A m \in Messages \ seen.raced :
        /\ \A c, d \in Clients : Reacting(c, m) /\ Reacting(d, m) => c = d
        /\ \A c \in Clients : At(c, "react", m) => task[c].by = reactions[m]
        /\ seen.shown[m] = reactions[m] \/ \E c \in Clients : Reacting(c, m)

\* Histories are read in the order of their requests, and none before its own;
\* one that is before the browser is awaited.
NumberInv ==
    \A c \in Clients :
        /\ served[c] <= requests[c]
        /\ task[c].do = "answer" => task[c].number <= served[c]
        /\ \A n \in Nat, r \in SUBSET Messages : Among(wire[c], Hist(n, r)) => n <= served[c]
        /\ answer[c] # {} => page[c] = "waiting"

\* A page with these messages, of which some are from the history, is current up
\* to what is on its way: each message of the room is shown, coming or not yet
\* told of, and a card that is there from the history and gone has the packet
\* that removes it still to come.  Nothing is said of those in spare.
Current(c, shown, old, spare) ==
    \A m \in Messages \ spare :
        /\ table[m] = "stored" => m \in shown \/ Coming(c, Chat(m)) \/ Telling(m) \/ Crowded(m)
        /\ m \in seen.gone[c] /\ m \in old => Coming(c, Gone(m))

\* What the page shows, and what of it is from the history.
Shown(c)       == {m \in Messages : \E from \in {"history", "live"} : <<m, from>> \in screen[c]}
FromHistory(c) == {m \in Messages : <<m, "history">> \in screen[c]}

\* A history that the page waits for has these rows, wherever it is.
OnItsWay(c, r) ==
    \/ r \in answer[c]
    \/ /\ page[c] = "waiting"
       /\ \/ task[c].do = "answer" /\ task[c].number = requests[c] /\ task[c].rows = r
          \/ Among(wire[c], Hist(requests[c], r))

\* The page is current, and so will be the one that the history makes.
PageOf(c) ==
    /\ c \in seen.rendered => Current(c, Shown(c), FromHistory(c), seen.lost[c])
    /\ \A r \in SUBSET Messages : OnItsWay(c, r) => Current(c, r, r, seen.during[c])

PageInv == \A c \in Clients : Followed(c) => PageOf(c)

IInv == TypeInv /\ TaskInv /\ MemberInv /\ StoredInv /\ GoneInv /\ EarlyInv /\ DeletionInv
                /\ RaceInv /\ NumberInv /\ PageInv

-----------------------------------------------------------------------------
(* Lemmas about queues, packets and tasks *)

\* What joins a queue is in it with all that was before it.
LEMMA AmongAppend ==
    ASSUME NEW S, NEW s \in Seq(S), NEW p \in S, NEW q
    PROVE  /\ Append(s, p) \in Seq(S)
           /\ Among(Append(s, p), q) <=> (Among(s, q) \/ q = p)
<1>1. /\ Append(s, p) \in Seq(S) /\ Len(Append(s, p)) = Len(s) + 1
      /\ Append(s, p)[Len(s) + 1] = p /\ \A i \in 1..Len(s) : Append(s, p)[i] = s[i]
  OBVIOUS
<1>2. Len(s) \in Nat
  OBVIOUS
<1> QED
  BY <1>1, <1>2 DEF Among

\* The first of a queue and the others.
LEMMA AmongTail ==
    ASSUME NEW S, NEW s \in Seq(S), s # <<>>, NEW q
    PROVE  /\ Head(s) \in S /\ Tail(s) \in Seq(S)
           /\ Among(s, q) <=> (Among(Tail(s), q) \/ q = Head(s))
<1>1. /\ Len(s) \in Nat \ {0} /\ Head(s) = s[1] /\ Tail(s) \in Seq(S)
      /\ Len(Tail(s)) = Len(s) - 1 /\ \A i \in 1..Len(Tail(s)) : Tail(s)[i] = s[i + 1]
  OBVIOUS
<1>2. \A i \in 1..Len(s) : i = 1 \/ (i - 1 \in 1..Len(Tail(s)) /\ s[i] = Tail(s)[i - 1])
  BY <1>1
<1>3. Head(s) \in S
  BY <1>1
<1>4. \A i \in 1..Len(Tail(s)) : i + 1 \in 1..Len(s) /\ Tail(s)[i] = s[i + 1]
  BY <1>1
<1>5. ASSUME Among(s, q) PROVE Among(Tail(s), q) \/ q = Head(s)
  BY <1>1, <1>2, <1>5 DEF Among
<1>6. ASSUME Among(Tail(s), q) \/ q = Head(s) PROVE Among(s, q)
  <2>1. 1 \in 1..Len(s)
    BY <1>1
  <2> QED
    BY <1>1, <1>4, <1>6, <2>1 DEF Among
<1> QED
  BY <1>1, <1>3, <1>5, <1>6

\* Packets of two kinds, or about two messages, are not the same.
LEMMA PacketsDiffer ==
    ASSUME NEW m, NEW n, NEW k, NEW r, NEW l, NEW s
    PROVE  /\ Chat(m) # Gone(n) /\ (Chat(m) = Chat(n) => m = n) /\ (Gone(m) = Gone(n) => m = n)
           /\ Chat(m).type = "chat" /\ Chat(m).message = m
           /\ Gone(m).type = "gone" /\ Gone(m).message = m
           /\ Hist(k, r).type = "history" /\ Hist(k, r).number = k /\ Hist(k, r).rows = r
           /\ Hist(k, r) # Chat(m) /\ Hist(k, r) # Gone(m)
           /\ Hist(k, r) = Hist(l, s) => k = l /\ r = s
<1>1. /\ Chat(m).type = "chat" /\ Chat(m).message = m /\ Chat(n).message = n
      /\ Gone(m).type = "gone" /\ Gone(m).message = m /\ Gone(n).message = n /\ Gone(n).type = "gone"
      /\ Hist(k, r).type = "history" /\ Hist(k, r).number = k /\ Hist(k, r).rows = r
      /\ Hist(l, s).number = l /\ Hist(l, s).rows = s
  BY DEF Chat, Gone, Hist
<1> QED
  BY <1>1

\* Every packet is of a kind.
LEMMA PacketKinds ==
    /\ \A p \in Event : /\ p \in Packet /\ p.message \in Messages /\ p.type \in {"chat", "gone"}
                        /\ p.type = "chat" => p = Chat(p.message)
                        /\ p.type = "gone" => p = Gone(p.message)
    /\ \A p \in Packet : p.type = "history" =>
          p.number \in Nat /\ p.rows \in SUBSET Messages /\ p = Hist(p.number, p.rows)
    /\ \A m \in Messages : Chat(m) \in Event /\ Gone(m) \in Event
    /\ \A n \in Nat, r \in SUBSET Messages : Hist(n, r) \in Packet /\ Hist(n, r) \notin Event
BY DEF Packet, Event, Chat, Gone, Hist

\* A handler that goes on to another task leaves the others at theirs.
LEMMA ThenEffect ==
    ASSUME TypeInv, NEW c \in Clients, NEW t \in Tasks, Then(c, t)
    PROVE  /\ task' \in [Clients -> Tasks] /\ task'[c] = t
           /\ \A d \in Clients : d # c => task'[d] = task[d]
BY DEF TypeInv, TypeOK, Then

\* What the tasks are about.
LEMMA TaskTypes ==
    ASSUME TypeInv, NEW c \in Clients
    PROVE  /\ task[c].do \in {"idle", "tell", "forget", "mark", "count", "react", "answer"}
           /\ task[c].do \in {"tell", "forget", "count", "react"} => task[c].message \in Messages
           /\ task[c].do = "mark" => task[c].file \in Cards /\ task[c].named \subseteq Cards
           /\ task[c].do = "react" => task[c].by \subseteq Clients
           /\ task[c].do = "answer" => task[c].number \in Nat /\ task[c].rows \subseteq Messages
<1>1. task[c] \in Tasks
  BY DEF TypeInv, TypeOK
<1> QED
  BY <1>1 DEF Tasks, Idle

\* Idle and the tasks that go with the messages.
LEMMA TaskValues ==
    /\ Idle \in Tasks /\ Idle.do = "idle"
    /\ \A m \in Messages : [do |-> "tell", message |-> m] \in Tasks
                           /\ [do |-> "forget", message |-> m] \in Tasks
                           /\ [do |-> "count", message |-> m] \in Tasks
    /\ \A m \in Messages, by \in SUBSET Clients : [do |-> "react", message |-> m, by |-> by] \in Tasks
    /\ \A k \in Cards, n \in SUBSET Cards : [do |-> "mark", file |-> k, named |-> n] \in Tasks
    /\ \A n \in Nat, r \in SUBSET Messages : [do |-> "answer", number |-> n, rows |-> r] \in Tasks
BY DEF Tasks, Idle

\* What crowds a message out of a history stays: rows are never removed.
LEMMA CrowdedKept ==
    ASSUME notes \in Nat, notes' \in Nat, notes <= notes',
           \A n \in Messages : table[n] # "none" => table'[n] # "none"
    PROVE  \A m \in Messages : Crowded(m) => Crowded(m)'
<1>1. ASSUME NEW m \in Messages, Crowded(m) PROVE Crowded(m)'
  <2>1. PICK n \in 0..notes, newer \in SUBSET {o \in Messages \ {m} : table[o] # "none" /\ Time[o] >= Time[m]} :
            n <= Limit /\ Cardinality(newer) = Limit - n
    BY <1>1 DEF Crowded
  <2>2. n \in 0..notes'
    BY <2>1
  <2>3. newer \in SUBSET {o \in Messages \ {m} : table'[o] # "none" /\ Time[o] >= Time[m]}
    BY <2>1
  <2> QED
    BY <2>1, <2>2, <2>3 DEF Crowded
<1> QED
  BY <1>1

\* A packet that is sent to a client joins what its bridge has not received.
LEMMA SentEffect ==
    ASSUME TypeInv, NEW c \in Clients, NEW p \in Packet
    PROVE  /\ Sent(c, p) \in Seq(Packet)
           /\ \A q : Among(Sent(c, p), q) <=>
                        Among(wire[c], q) \/ (c \in bounds.pages /\ c \notin deaf /\ q = p)
<1>1. wire[c] \in Seq(Packet)
  BY DEF TypeInv
<1>2. CASE c \in bounds.pages \ deaf
  BY <1>1, <1>2, AmongAppend DEF Sent
<1>3. CASE c \notin bounds.pages \ deaf
  BY <1>1, <1>3 DEF Sent
<1> QED
  BY <1>2, <1>3

\* A broadcast comes to every member whose bridge is followed.
LEMMA BroadcastSends ==
    ASSUME TypeInv, NEW p \in Packet, Broadcast(p)
    PROVE  /\ wire' \in [Clients -> Seq(Packet)]
           /\ \A c \in Clients : \A q : Among(wire'[c], q) <=> Among(wire[c], q) \/ (Followed(c) /\ q = p)
<1>1. wire' = [c \in Clients |-> IF c \in members THEN Sent(c, p) ELSE wire[c]]
  BY DEF Broadcast
<1>2. ASSUME NEW c \in Clients
      PROVE  /\ wire'[c] \in Seq(Packet)
             /\ \A q : Among(wire'[c], q) <=> Among(wire[c], q) \/ (Followed(c) /\ q = p)
  <2>1. wire[c] \in Seq(Packet) /\ wire'[c] = IF c \in members THEN Sent(c, p) ELSE wire[c]
    BY <1>1 DEF TypeInv
  <2> QED
    BY <2>1, SentEffect DEF Followed
<1> QED
  BY <1>1, <1>2

\* A broadcast of a message was sent to each member.
LEMMA ChatBroadcast ==
    ASSUME TypeInv, NEW m \in Messages, Broadcast(Chat(m))
    PROVE  /\ seen' \in Seen
           /\ \A c \in Clients : seen'.sent[c] = IF c \in members THEN seen.sent[c] \cup {m} ELSE seen.sent[c]
           /\ seen'.gone = seen.gone /\ seen'.answered = seen.answered
           /\ seen'.early = seen.early /\ seen'.shown = seen.shown /\ seen'.raced = seen.raced
           /\ seen'.rendered = seen.rendered /\ seen'.lost = seen.lost /\ seen'.during = seen.during
<1> DEFINE told == [c \in Clients |-> IF c \in members THEN seen.sent[c] \cup {m} ELSE seen.sent[c]]
<1>1. Chat(m).type = "chat" /\ Chat(m).message = m
  BY DEF Chat
<1>2. seen' = [seen EXCEPT !.sent = told]
  BY <1>1 DEF Broadcast
<1>3. seen \in Seen
  BY DEF TypeInv, TypeOK
<1>4. told \in [Clients -> SUBSET Messages]
  BY <1>3 DEF Seen
<1>5. \A c \in Clients : told[c] = IF c \in members THEN seen.sent[c] \cup {m} ELSE seen.sent[c]
  OBVIOUS
<1> HIDE DEF told
<1> QED
  BY <1>2, <1>3, <1>4, <1>5 DEF Seen

\* A broadcast of a deletion told each member.
LEMMA GoneBroadcast ==
    ASSUME TypeInv, NEW m \in Messages, Broadcast(Gone(m))
    PROVE  /\ seen' \in Seen
           /\ \A c \in Clients : seen'.gone[c] = IF c \in members THEN seen.gone[c] \cup {m} ELSE seen.gone[c]
           /\ seen'.sent = seen.sent /\ seen'.answered = seen.answered
           /\ seen'.early = seen.early /\ seen'.shown = seen.shown /\ seen'.raced = seen.raced
           /\ seen'.rendered = seen.rendered /\ seen'.lost = seen.lost /\ seen'.during = seen.during
<1> DEFINE told == [c \in Clients |-> IF c \in members THEN seen.gone[c] \cup {m} ELSE seen.gone[c]]
<1>1. Gone(m).type = "gone" /\ Gone(m).message = m
  BY DEF Gone
<1>2. seen' = [seen EXCEPT !.gone = told]
  BY <1>1 DEF Broadcast
<1>3. seen \in Seen
  BY DEF TypeInv, TypeOK
<1>4. told \in [Clients -> SUBSET Messages]
  BY <1>3 DEF Seen
<1>5. \A c \in Clients : told[c] = IF c \in members THEN seen.gone[c] \cup {m} ELSE seen.gone[c]
  OBVIOUS
<1> HIDE DEF told
<1> QED
  BY <1>2, <1>3, <1>4, <1>5 DEF Seen

-----------------------------------------------------------------------------
(* What keeps the pages current *)

\* Nothing that a page depends on becomes less: a message is told of or comes, and
\* an event that goes is one of the page's spare ones.
LEMMA PageOfKept ==
    ASSUME NEW c \in Clients, PageOf(c), screen'[c] = screen[c],
           c \in seen'.rendered => c \in seen.rendered,
           seen.lost[c] \subseteq seen'.lost[c], seen.during[c] \subseteq seen'.during[c],
           \A m \in Messages :
               /\ table'[m] = "stored" => table[m] = "stored" \/ Telling(m)'
               /\ Crowded(m) => Crowded(m)'
               /\ Telling(m) => Telling(m)' \/ Coming(c, Chat(m))'
               /\ Coming(c, Chat(m)) => Coming(c, Chat(m))' \/ m \in seen'.lost[c] \cap seen'.during[c]
               /\ Coming(c, Gone(m)) => Coming(c, Gone(m))' \/ m \in seen'.lost[c] \cap seen'.during[c]
               /\ m \in seen'.gone[c] => m \in seen.gone[c] \/ Coming(c, Gone(m))',
           \A r \in SUBSET Messages :
               OnItsWay(c, r)' => OnItsWay(c, r) \/ Current(c, r, r, seen.during[c])'
    PROVE  PageOf(c)'
<1>1. Shown(c)' = Shown(c) /\ FromHistory(c)' = FromHistory(c)
  BY DEF Shown, FromHistory
<1>2. ASSUME c \in seen'.rendered PROVE Current(c, Shown(c), FromHistory(c), seen.lost[c])'
  <2>1. Current(c, Shown(c), FromHistory(c), seen.lost[c])
    BY <1>2 DEF PageOf
  <2> QED
    BY <1>1, <2>1 DEF Current
<1>3. ASSUME NEW r \in SUBSET Messages, OnItsWay(c, r)' PROVE Current(c, r, r, seen.during[c])'
  <2>1. CASE OnItsWay(c, r)
    <3>1. Current(c, r, r, seen.during[c])
      BY <2>1 DEF PageOf
    <3> QED
      BY <3>1 DEF Current
  <2>2. CASE ~OnItsWay(c, r)
    BY <1>3, <2>2
  <2> QED
    BY <2>1, <2>2
<1> QED
  BY <1>2, <1>3 DEF PageOf

\* No more histories come to a client if its handler does not come to one and the
\* wire brings none.
LEMMA SameHistories ==
    ASSUME NEW c \in Clients, answer'[c] = answer[c], page'[c] = page[c], requests'[c] = requests[c],
           task'[c].do = "answer" => task'[c] = task[c],
           \A n, r : Among(wire'[c], Hist(n, r)) => Among(wire[c], Hist(n, r))
    PROVE  \A r : OnItsWay(c, r)' => OnItsWay(c, r)
BY DEF OnItsWay

\* The bridge and the pages, which a step of the process server leaves alone.
Outside == /\ pending' = pending /\ deaf' = deaf /\ events' = events /\ answer' = answer
           /\ screen' = screen /\ page' = page /\ requests' = requests /\ bounds' = bounds
           /\ seen'.rendered = seen.rendered /\ seen'.lost = seen.lost /\ seen'.during = seen.during

\* The pages of the members, after a step of a handler that sends no history.
LEMMA HandlerKeepsPages ==
    ASSUME IInv, Outside, members' = members,
           \A c \in Clients : task'[c].do = "answer" => task'[c] = task[c],
           \A c \in Clients : \A n, r : Among(wire'[c], Hist(n, r)) => Among(wire[c], Hist(n, r)),
           \A m \in Messages : /\ table'[m] = "stored" => table[m] = "stored" \/ Telling(m)'
                               /\ Crowded(m) => Crowded(m)',
           \A c \in Clients, m \in Messages : Followed(c) =>
               /\ Telling(m) => Telling(m)' \/ Coming(c, Chat(m))'
               /\ Coming(c, Chat(m)) => Coming(c, Chat(m))'
               /\ Coming(c, Gone(m)) => Coming(c, Gone(m))'
               /\ m \in seen'.gone[c] => m \in seen.gone[c] \/ Coming(c, Gone(m))'
    PROVE  PageInv'
<1>1. ASSUME NEW c \in Clients, Followed(c)' PROVE PageOf(c)'
  <2>1. Followed(c) /\ PageOf(c)
    BY <1>1 DEF IInv, PageInv, Followed, Outside
  <2>2. \A r : OnItsWay(c, r)' => OnItsWay(c, r)
    BY SameHistories DEF Outside
  <2> QED
    BY <2>1, <2>2, PageOfKept DEF Outside
<1> QED
  BY <1>1 DEF PageInv

-----------------------------------------------------------------------------
(* The process server *)

\* A handler that neither reads nor sends a history leaves what clients know as
\* it is, but for what it sends to members.
LEMMA QuietHandler ==
    ASSUME IInv, Outside, NEW c \in Clients, \A d \in Clients : d # c => task'[d] = task[d],
           task[c].do # "answer", task'[c].do # "answer", members' = members, served' = served,
           seen'.answered = seen.answered,
           \A d \in Clients : seen'.sent[d] = seen.sent[d] \/ d \in members,
           \A d \in Clients : \A n, r : Among(wire'[d], Hist(n, r)) => Among(wire[d], Hist(n, r))
    PROVE  /\ MemberInv' /\ NumberInv'
           /\ \A d \in Clients : seen'.sent[d] = seen.sent[d] => Known(d)' = Known(d)
           /\ \A d \in Clients : seen.sent[d] \subseteq seen'.sent[d] => Known(d) \subseteq Known(d)'
           /\ \A d \in Clients : (task'[d].do = "answer") <=> (task[d].do = "answer")
           /\ \A d \in Clients : task'[d].do = "answer" => task'[d] = task[d]
<1>1. ASSUME NEW d \in Clients
      PROVE  /\ (task'[d].do = "answer") <=> (task[d].do = "answer")
             /\ task'[d].do = "answer" => task'[d] = task[d]
             /\ seen'.sent[d] = seen.sent[d] => Known(d)' = Known(d)
             /\ seen.sent[d] \subseteq seen'.sent[d] => Known(d) \subseteq Known(d)'
  <2>1. CASE d = c
    BY <2>1 DEF Known
  <2>2. CASE d # c
    BY <2>2 DEF Known
  <2> QED
    BY <2>1, <2>2
<1>2. MemberInv'
  BY <1>1 DEF IInv, MemberInv, Outside
<1>3. NumberInv'
  BY <1>1 DEF IInv, NumberInv, Outside
<1> QED
  BY <1>1, <1>2, <1>3

\* A handler that is not at the reactions before and after leaves them alone.
LEMMA RaceKept ==
    ASSUME RaceInv, reactions' = reactions, seen'.shown = seen.shown, seen'.raced = seen.raced,
           NEW c \in Clients, \A d \in Clients : d # c => task'[d] = task[d],
           task[c].do \notin {"count", "react"}, task'[c].do \notin {"count", "react"}
    PROVE  RaceInv'
<1>1. ASSUME NEW d \in Clients, NEW m
      PROVE  /\ At(d, "count", m)' <=> At(d, "count", m)
             /\ At(d, "react", m)' <=> At(d, "react", m)
             /\ At(d, "react", m) => task'[d] = task[d]
  <2>1. CASE d = c
    BY <2>1 DEF At
  <2>2. CASE d # c
    BY <2>2 DEF At
  <2> QED
    BY <2>1, <2>2
<1>2. \A d \in Clients : \A m : Reacting(d, m)' <=> Reacting(d, m)
  BY <1>1 DEF Reacting
<1>3. \A m \in Messages \ seen.raced, d \in Clients : At(d, "react", m)' => task'[d].by = reactions'[m]
  BY <1>1 DEF RaceInv
<1> QED
  BY <1>2, <1>3 DEF RaceInv

\* JOIN_ROOM: one more member, nothing sent.
LEMMA JoinKeeps ==
    ASSUME IInv, NEW c \in Clients, Join(c)
    PROVE  IInv'
<1>1. /\ members' = members \cup {c} /\ table' = table /\ reactions' = reactions /\ task' = task
      /\ served' = served /\ wire' = wire /\ changes' = changes /\ seen' = seen /\ Outside
      /\ c \notin members /\ notes' = notes + 1
  BY DEF Join, bridge, browser, limits, Outside
<1>2. \A d \in Clients : \A q : Coming(d, q)' <=> Coming(d, q)
  BY <1>1 DEF Coming, Outside
<1>3. notes \in Nat /\ notes' \in Nat /\ notes <= notes'
  BY <1>1 DEF IInv, TypeInv, TypeOK
<1>4. \A m \in Messages : Crowded(m) => Crowded(m)'
  BY <1>1, <1>3, CrowdedKept
<1>5. TypeInv'
  BY <1>1, <1>3 DEF IInv, TypeInv, TypeOK, Outside
<1>6. TaskInv' /\ EarlyInv' /\ DeletionInv' /\ RaceInv'
  BY <1>1 DEF IInv, TaskInv, EarlyInv, DeletionInv, RaceInv, Telling, Reacting, At, Known
<1>7. MemberInv' /\ NumberInv'
  BY <1>1 DEF IInv, MemberInv, NumberInv, Known, Outside
<1>8. StoredInv'
  BY <1>1, <1>4 DEF IInv, StoredInv, Telling, At, Known
<1>9. GoneInv'
  BY <1>1, <1>2 DEF IInv, GoneInv
<1>10. PageInv'
  <2>1. ASSUME NEW d \in Clients, Followed(d)' PROVE PageOf(d)'
    <3>1. \A r : OnItsWay(d, r)' => OnItsWay(d, r)
      BY <1>1, SameHistories DEF Outside
    <3>2. CASE d = c
      <4>1. page[c] = "out" /\ c \notin seen.rendered /\ answer[c] = {}
        BY <1>1 DEF IInv, MemberInv, NumberInv
      <4>2. \A r : ~OnItsWay(c, r)
        BY <4>1 DEF OnItsWay
      <4> QED
        BY <1>1, <3>1, <3>2, <4>1, <4>2 DEF PageOf
    <3>3. CASE d # c
      <4>1. PageOf(d)
        BY <1>1, <2>1, <3>3 DEF IInv, PageInv, Followed, Outside
      <4>2. \A m : Telling(m)' <=> Telling(m)
        BY <1>1 DEF Telling, At
      <4> QED
        BY <1>1, <1>2, <1>4, <3>1, <4>1, <4>2, PageOfKept DEF Outside
    <3> QED
      BY <3>2, <3>3
  <2> QED
    BY <2>1 DEF PageInv
<1> QED
  BY <1>5, <1>6, <1>7, <1>8, <1>9, <1>10 DEF IInv

\* The commit of a message.
LEMMA PostKeeps ==
    ASSUME IInv, NEW c \in Clients, NEW m \in Messages, Post(c, m)
    PROVE  IInv'
<1> DEFINE t == [do |-> "tell", message |-> m]
<1>1. /\ members' = members /\ table' = [table EXCEPT ![m] = "stored"] /\ reactions' = reactions
      /\ served' = served /\ wire' = wire /\ changes' = changes /\ seen' = seen /\ Outside
      /\ task[c] = Idle /\ table[m] = "none" /\ Then(c, t)
      /\ notes' = IF m \in Cards THEN notes + 1 ELSE notes
  BY DEF Post, Serving, bridge, browser, limits, Outside
<1>2. t \in Tasks /\ t.do = "tell" /\ t.message = m /\ Idle.do = "idle"
  BY TaskValues
<1> HIDE DEF t
<1>3. task' \in [Clients -> Tasks] /\ task'[c] = t /\ \A d \in Clients : d # c => task'[d] = task[d]
  BY <1>1, <1>2, ThenEffect DEF IInv
<1>4. /\ table' \in [Messages -> {"none", "stored", "deleted"}] /\ table'[m] = "stored"
      /\ \A n \in Messages : n # m => table'[n] = table[n]
  BY <1>1 DEF IInv, TypeInv, TypeOK
<1>5. \A d \in Clients : \A q : Coming(d, q)' <=> Coming(d, q)
  BY <1>1 DEF Coming, Outside
<1>6. notes \in Nat /\ notes' \in Nat /\ notes <= notes'
  BY <1>1 DEF IInv, TypeInv, TypeOK
<1>7. \A n \in Messages : Crowded(n) => Crowded(n)'
  BY <1>1, <1>4, <1>6, CrowdedKept
<1>8. TypeInv'
  BY <1>1, <1>3, <1>4, <1>6 DEF IInv, TypeInv, TypeOK, Outside
<1>9. TaskInv'
  <2>1. \A d \in Clients : d # c /\ task[d].do = "mark" => task[d].named \subseteq Messages
    BY TaskTypes DEF IInv, Messages
  <2>2. \A d \in Clients : d # c /\ task[d].do \in {"tell", "forget"} => task[d].message \in Messages
    BY TaskTypes DEF IInv
  <2> QED
    BY <1>1, <1>2, <1>3, <1>4, <2>1, <2>2 DEF IInv, TaskInv
<1>10. /\ MemberInv' /\ NumberInv' /\ \A d \in Clients : Known(d)' = Known(d)
       /\ \A d \in Clients : (task'[d].do = "answer") <=> (task[d].do = "answer")
       /\ \A d \in Clients : task'[d].do = "answer" => task'[d] = task[d]
  BY <1>1, <1>2, <1>3, QuietHandler
<1>11. Telling(m)' /\ \A n : Telling(n)' <=> Telling(n) \/ n = m
  BY <1>1, <1>2, <1>3 DEF Telling, At
<1>12. DeletionInv'
  BY <1>1, <1>10 DEF IInv, DeletionInv
<1>13. StoredInv'
  BY <1>1, <1>4, <1>7, <1>10, <1>11 DEF IInv, StoredInv
<1>14. GoneInv'
  BY <1>1, <1>4, <1>5 DEF IInv, GoneInv
<1>15. EarlyInv'
  BY <1>1, <1>4, <1>11 DEF IInv, EarlyInv, Messages
<1>16. RaceInv'
  BY <1>1, <1>2, <1>3, RaceKept DEF IInv
<1>17. PageInv'
  <2>1. \A n \in Messages : table'[n] = "stored" => table[n] = "stored" \/ Telling(n)'
    BY <1>4, <1>11
  <2>2. \A n : Telling(n) => Telling(n)'
    BY <1>11
  <2> QED
    BY <1>1, <1>5, <1>7, <1>10, <2>1, <2>2, HandlerKeepsPages
<1> QED
  BY <1>8, <1>9, <1>10, <1>12, <1>13, <1>14, <1>15, <1>16, <1>17 DEF IInv

\* Its broadcast.
LEMMA PostTellKeeps ==
    ASSUME IInv, NEW c \in Clients, PostTell(c)
    PROVE  IInv'
<1>0. PICK m : m = task[c].message
  OBVIOUS
<1>1. /\ members' = members /\ table' = table /\ reactions' = reactions /\ notes' = notes
      /\ served' = served /\ changes' = changes /\ bounds' = bounds /\ pending' = pending /\ deaf' = deaf
      /\ events' = events /\ answer' = answer /\ screen' = screen /\ page' = page /\ requests' = requests
      /\ task[c].do = "tell" /\ Then(c, Idle) /\ Broadcast(Chat(m))
  BY <1>0 DEF PostTell, rows, bridge, browser, limits, Chat
<1>2. m \in Messages /\ Idle \in Tasks /\ Idle.do = "idle" /\ At(c, "tell", m)
  BY <1>0, <1>1, TaskTypes, TaskValues DEF IInv, At
<1>3. task' \in [Clients -> Tasks] /\ task'[c] = Idle /\ \A d \in Clients : d # c => task'[d] = task[d]
  BY <1>1, <1>2, ThenEffect DEF IInv
<1>4. /\ seen' \in Seen
      /\ \A d \in Clients : seen'.sent[d] = IF d \in members THEN seen.sent[d] \cup {m} ELSE seen.sent[d]
      /\ seen'.gone = seen.gone /\ seen'.answered = seen.answered
      /\ seen'.early = seen.early /\ seen'.shown = seen.shown /\ seen'.raced = seen.raced
      /\ seen'.rendered = seen.rendered /\ seen'.lost = seen.lost /\ seen'.during = seen.during
  BY <1>1, <1>2, ChatBroadcast DEF IInv
<1>5. /\ wire' \in [Clients -> Seq(Packet)]
      /\ \A d \in Clients : \A q : Among(wire'[d], q) <=> Among(wire[d], q) \/ (Followed(d) /\ q = Chat(m))
  BY <1>1, <1>2, PacketKinds, BroadcastSends DEF IInv
<1>6. \A d \in Clients : \A q : Coming(d, q)' <=> Coming(d, q) \/ (Followed(d) /\ q = Chat(m))
  BY <1>1, <1>5 DEF Coming
<1>7. Outside
  BY <1>1, <1>4 DEF Outside
<1>8. \A d \in Clients : \A n, r : Among(wire'[d], Hist(n, r)) => Among(wire[d], Hist(n, r))
  <2>1. \A n, r : Hist(n, r) # Chat(m)
    BY PacketsDiffer
  <2> QED
    BY <1>5, <2>1
<1>9. /\ MemberInv' /\ NumberInv' /\ \A d \in Clients : Known(d) \subseteq Known(d)'
      /\ \A d \in Clients : (task'[d].do = "answer") <=> (task[d].do = "answer")
      /\ \A d \in Clients : task'[d].do = "answer" => task'[d] = task[d]
  BY <1>1, <1>2, <1>3, <1>4, <1>7, <1>8, QuietHandler
<1>10. \A n : /\ Telling(n) => n = m \/ Telling(n)'
              /\ Telling(n)' => Telling(n)
  BY <1>1, <1>2, <1>3 DEF Telling, At
<1>11. TypeInv'
  BY <1>1, <1>3, <1>4, <1>5 DEF IInv, TypeInv, TypeOK
<1>12. TaskInv'
  BY <1>1, <1>2, <1>3 DEF IInv, TaskInv
<1>13. \A n \in Messages : Crowded(n)' <=> Crowded(n)
  BY <1>1 DEF Crowded
<1>14. StoredInv'
  <2>1. ASSUME NEW d \in Clients, NEW n \in Messages, table[n] = "stored", d \in seen.answered
        PROVE  n \in seen'.sent[d] \/ Telling(n)' \/ Crowded(n)
    <3>1. d \in members
      BY <2>1 DEF IInv, MemberInv
    <3>2. m \in seen'.sent[d] /\ seen.sent[d] \subseteq seen'.sent[d]
      BY <1>4, <3>1
    <3>3. n \in seen.sent[d] \/ Telling(n) \/ Crowded(n)
      BY <2>1 DEF IInv, StoredInv
    <3> QED
      BY <1>10, <3>2, <3>3
  <2>2. ASSUME NEW d \in Clients, NEW n \in Messages, table[n] = "stored", task[d].do = "answer"
        PROVE  n \in Known(d)' \/ Telling(n)' \/ Crowded(n)
    <3>1. d \in members
      BY <2>2 DEF IInv, MemberInv
    <3>2. m \in Known(d)'
      BY <1>4, <3>1 DEF Known
    <3>3. n \in Known(d) \/ Telling(n) \/ Crowded(n)
      BY <2>2 DEF IInv, StoredInv
    <3> QED
      BY <1>9, <1>10, <3>2, <3>3
  <2> QED
    BY <1>1, <1>4, <1>9, <1>13, <2>1, <2>2 DEF StoredInv
<1>15. GoneInv'
  <2>1. \A n : Gone(n) # Chat(m)
    BY PacketsDiffer
  <2> QED
    BY <1>1, <1>4, <1>6, <2>1 DEF IInv, GoneInv
<1>16. EarlyInv'
  BY <1>1, <1>4, <1>10 DEF IInv, EarlyInv
<1>17. DeletionInv'
  <2>1. ASSUME NEW n \in Cards, n \notin seen.early, NEW d \in Clients, NEW e \in Clients,
               n \in seen.gone[e], n \in Known(d)'
        PROVE  n \in seen.gone[d]
    <3>1. n # m
      BY <1>2, <2>1 DEF IInv, GoneInv, EarlyInv, Telling, Messages
    <3>2. n \in Known(d)
      BY <1>2, <1>3, <1>4, <1>9, <2>1, <3>1 DEF Known
    <3> QED
      BY <2>1, <3>2 DEF IInv, DeletionInv
  <2> QED
    BY <1>4, <2>1 DEF DeletionInv
<1>18. RaceInv'
  BY <1>1, <1>2, <1>3, <1>4, RaceKept DEF IInv
<1>19. PageInv'
  BY <1>1, <1>4, <1>6, <1>7, <1>8, <1>9, <1>10, <1>13, HandlerKeepsPages
<1> QED
  BY <1>9, <1>11, <1>12, <1>14, <1>15, <1>16, <1>17, <1>18, <1>19 DEF IInv

\* The look-up of a card to be deleted.
LEMMA DeleteFileKeeps ==
    ASSUME IInv, NEW c \in Clients, NEW k \in Cards, DeleteFile(c, k)
    PROVE  IInv'
<1>1. PICK named \in SUBSET Matching(k) : Then(c, [do |-> "mark", file |-> k, named |-> named])
  BY DEF DeleteFile
<1> DEFINE t == [do |-> "mark", file |-> k, named |-> named]
<1>2. /\ members' = members /\ table' = table /\ reactions' = reactions /\ notes' = notes
      /\ served' = served /\ wire' = wire /\ seen' = seen /\ Outside
      /\ task[c] = Idle /\ Then(c, t) /\ changes < bounds.changes /\ changes' = changes + 1
  BY <1>1 DEF DeleteFile, Serving, rows, bridge, browser, Outside
<1>3. Alike[k] \subseteq Cards
  BY RoomAssumption
<1>4. named \subseteq Alike[k] /\ named \subseteq Cards /\ \A m \in named : table[m] # "none"
  BY <1>3 DEF Matching, Stored
<1>5. t \in Tasks /\ t.do = "mark" /\ t.file = k /\ t.named = named /\ Idle.do = "idle"
  BY <1>4, TaskValues
<1> HIDE DEF t
<1>6. task' \in [Clients -> Tasks] /\ task'[c] = t /\ \A d \in Clients : d # c => task'[d] = task[d]
  BY <1>2, <1>5, ThenEffect DEF IInv
<1>7. \A d \in Clients : \A q : Coming(d, q)' <=> Coming(d, q)
  BY <1>2 DEF Coming, Outside
<1>8. TypeInv'
  <2>1. changes' \in 0..bounds'.changes
    BY <1>2, RoomAssumption DEF IInv, TypeInv, TypeOK, Outside
  <2> QED
    BY <1>2, <1>6, <2>1 DEF IInv, TypeInv, TypeOK, Outside
<1>9. TaskInv'
  BY <1>2, <1>4, <1>5, <1>6 DEF IInv, TaskInv
<1>10. /\ MemberInv' /\ NumberInv' /\ \A d \in Clients : Known(d)' = Known(d)
       /\ \A d \in Clients : (task'[d].do = "answer") <=> (task[d].do = "answer")
       /\ \A d \in Clients : task'[d].do = "answer" => task'[d] = task[d]
  BY <1>2, <1>5, <1>6, QuietHandler
<1>11. \A n : Telling(n)' <=> Telling(n)
  BY <1>2, <1>5, <1>6 DEF Telling, At
<1>12. \A n \in Messages : Crowded(n)' <=> Crowded(n)
  BY <1>2 DEF Crowded
<1>13. StoredInv'
  BY <1>2, <1>10, <1>11, <1>12 DEF IInv, StoredInv
<1>14. GoneInv'
  BY <1>2, <1>7 DEF IInv, GoneInv
<1>15. EarlyInv' /\ DeletionInv'
  BY <1>2, <1>10, <1>11 DEF IInv, EarlyInv, DeletionInv
<1>16. RaceInv'
  BY <1>2, <1>5, <1>6, RaceKept DEF IInv
<1>17. PageInv'
  BY <1>2, <1>7, <1>10, <1>11, <1>12, HandlerKeepsPages
<1> QED
  BY <1>8, <1>9, <1>10, <1>13, <1>14, <1>15, <1>16, <1>17 DEF IInv

\* The commit of a deletion: what was named is deleted now, by this handler or
\* by one that was faster.
LEMMA DeleteMarkKeeps ==
    ASSUME IInv, NEW c \in Clients, DeleteMark(c)
    PROVE  IInv'
<1> DEFINE cards == Matching(task[c].file)
<1>1. /\ members' = members /\ reactions' = reactions /\ served' = served /\ wire' = wire
      /\ changes' = changes /\ bounds' = bounds /\ pending' = pending /\ deaf' = deaf
      /\ events' = events /\ answer' = answer /\ screen' = screen /\ page' = page /\ requests' = requests
      /\ table' = [m \in Messages |-> IF m \in cards THEN "deleted" ELSE table[m]]
      /\ seen' = [seen EXCEPT !.early = @ \cup {m \in cards : Under({"tell"}, m)}]
      /\ task[c].do = "mark" /\ notes' = notes + 1
  BY DEF DeleteMark, bridge, browser, limits
<1>2. task[c].file \in Cards /\ task[c].named \subseteq Alike[task[c].file]
      /\ \A m \in task[c].named : table[m] # "none"
  BY <1>1, TaskTypes DEF IInv, TaskInv
<1>3. cards \subseteq Cards /\ \A m \in Messages : m \in Alike[task[c].file] /\ table[m] = "stored" => m \in cards
  BY <1>2, RoomAssumption DEF Matching, Stored
<1>4. \A m \in cards : table[m] = "stored"
  BY DEF Matching, Stored
<1> HIDE DEF cards
<1>5. /\ table' \in [Messages -> {"none", "stored", "deleted"}]
      /\ \A m \in Messages : table'[m] = IF m \in cards THEN "deleted" ELSE table[m]
  BY <1>1 DEF IInv, TypeInv, TypeOK
<1>6. PICK t \in Tasks : /\ Then(c, t)
                         /\ t.do \in {"idle", "forget"}
                         /\ t.do = "forget" => t.message \in task[c].named
  <2>1. CASE task[c].named = {} /\ Then(c, Idle)
    BY <2>1, TaskValues
  <2>2. ASSUME NEW m \in task[c].named, Then(c, [do |-> "forget", message |-> m])
        PROVE  \E t \in Tasks : /\ Then(c, t) /\ t.do \in {"idle", "forget"}
                                /\ t.do = "forget" => t.message \in task[c].named
    <3>1. m \in Messages
      BY <1>2, RoomAssumption DEF Messages
    <3>2. [do |-> "forget", message |-> m] \in Tasks
      BY <3>1, TaskValues
    <3> QED
      BY <2>2, <3>2
  <2> QED
    BY <2>1, <2>2 DEF DeleteMark
<1>7. task' \in [Clients -> Tasks] /\ task'[c] = t /\ \A d \in Clients : d # c => task'[d] = task[d]
  BY <1>6, ThenEffect DEF IInv
<1>8. /\ seen' \in Seen
      /\ seen'.sent = seen.sent /\ seen'.gone = seen.gone /\ seen'.answered = seen.answered
      /\ seen'.shown = seen.shown /\ seen'.raced = seen.raced
      /\ seen'.early = seen.early \cup {m \in cards : Under({"tell"}, m)}
      /\ seen'.rendered = seen.rendered /\ seen'.lost = seen.lost /\ seen'.during = seen.during
  <2>1. seen \in Seen
    BY DEF IInv, TypeInv, TypeOK
  <2>2. {m \in cards : Under({"tell"}, m)} \subseteq Messages
    BY <1>3 DEF Messages
  <2> QED
    BY <1>1, <2>1, <2>2 DEF Seen
<1>9. Outside
  BY <1>1, <1>8 DEF Outside
<1>10. \A d \in Clients : \A q : Coming(d, q)' <=> Coming(d, q)
  BY <1>1 DEF Coming
<1>11. \A m \in Messages : /\ table[m] # "none" => table'[m] # "none"
                           /\ table[m] = "deleted" => table'[m] = "deleted"
                           /\ table'[m] = "stored" => table[m] = "stored"
  BY <1>5
<1>12. notes \in Nat /\ notes' \in Nat /\ notes <= notes'
  BY <1>1 DEF IInv, TypeInv, TypeOK
<1>13. \A n \in Messages : Crowded(n) => Crowded(n)'
  BY <1>11, <1>12, CrowdedKept
<1>14. TypeInv'
  BY <1>1, <1>5, <1>7, <1>8, <1>12 DEF IInv, TypeInv, TypeOK
<1>15. TaskInv'
  <2>1. t.do = "forget" => t.message \in Cards /\ table'[t.message] = "deleted"
    <3>1. ASSUME t.do = "forget" PROVE t.message \in Cards /\ t.message \in Messages
      BY <1>2, <1>6, <3>1, RoomAssumption DEF Messages
    <3>2. ASSUME t.do = "forget", table[t.message] = "stored" PROVE table'[t.message] = "deleted"
      BY <1>2, <1>3, <1>5, <1>6, <3>1, <3>2
    <3>3. ASSUME t.do = "forget", table[t.message] # "stored" PROVE table'[t.message] = "deleted"
      <4>1. table[t.message] = "deleted"
        BY <1>2, <1>6, <3>1, <3>3 DEF IInv, TypeInv, TypeOK
      <4> QED
        BY <1>11, <3>1, <3>3, <4>1
    <3> QED
      BY <3>1, <3>2, <3>3
  <2>2. ASSUME NEW d \in Clients, d # c
        PROVE  /\ task[d].do = "tell" => table'[task[d].message] # "none"
               /\ task[d].do = "forget" => task[d].message \in Cards /\ table'[task[d].message] = "deleted"
               /\ task[d].do = "mark" => /\ task[d].named \subseteq Alike[task[d].file]
                                         /\ \A m \in task[d].named : table'[m] # "none"
    BY <1>11, TaskTypes DEF IInv, TaskInv, Messages
  <2> QED
    BY <1>6, <1>7, <2>1, <2>2 DEF TaskInv
<1>16. \A n : Telling(n)' <=> Telling(n)
  BY <1>1, <1>6, <1>7 DEF Telling, At
<1>17. /\ MemberInv' /\ NumberInv' /\ \A d \in Clients : Known(d)' = Known(d)
       /\ \A d \in Clients : (task'[d].do = "answer") <=> (task[d].do = "answer")
       /\ \A d \in Clients : task'[d].do = "answer" => task'[d] = task[d]
  BY <1>1, <1>6, <1>7, <1>8, <1>9, QuietHandler
<1>18. DeletionInv'
  BY <1>8, <1>17 DEF IInv, DeletionInv
<1>19. StoredInv'
  BY <1>8, <1>11, <1>13, <1>16, <1>17 DEF IInv, StoredInv
<1>20. GoneInv'
  BY <1>8, <1>10, <1>11 DEF IInv, GoneInv
<1>21. EarlyInv'
  <2>1. ASSUME NEW m \in Cards, Telling(m), table'[m] = "deleted"
        PROVE  m \in seen'.early
    <3>1. Under({"tell"}, m)
      BY <2>1 DEF Under, Telling, At
    <3> QED
      BY <1>5, <1>8, <2>1, <3>1 DEF IInv, EarlyInv, Messages
  <2> QED
    BY <1>16, <2>1 DEF EarlyInv
<1>22. RaceInv'
  BY <1>1, <1>6, <1>7, <1>8, RaceKept DEF IInv
<1>23. PageInv'
  BY <1>1, <1>8, <1>9, <1>10, <1>11, <1>13, <1>16, <1>17, HandlerKeepsPages
<1> QED
  BY <1>14, <1>15, <1>17, <1>18, <1>19, <1>20, <1>21, <1>22, <1>23 DEF IInv

\* The broadcast of a deletion.
LEMMA DeleteTellKeeps ==
    ASSUME IInv, NEW c \in Clients, DeleteTell(c)
    PROVE  IInv'
<1>0. PICK m : m = task[c].message
  OBVIOUS
<1>1. /\ members' = members /\ table' = table /\ reactions' = reactions /\ notes' = notes
      /\ served' = served /\ changes' = changes /\ bounds' = bounds /\ pending' = pending /\ deaf' = deaf
      /\ events' = events /\ answer' = answer /\ screen' = screen /\ page' = page /\ requests' = requests
      /\ task[c].do = "forget" /\ Then(c, Idle) /\ Broadcast(Gone(m))
  BY <1>0 DEF DeleteTell, rows, bridge, browser, limits, Gone
<1>2. m \in Messages /\ m \in Cards /\ table[m] = "deleted" /\ Idle \in Tasks /\ Idle.do = "idle"
  BY <1>0, <1>1, TaskTypes, TaskValues DEF IInv, TaskInv
<1>3. task' \in [Clients -> Tasks] /\ task'[c] = Idle /\ \A d \in Clients : d # c => task'[d] = task[d]
  BY <1>1, <1>2, ThenEffect DEF IInv
<1>4. /\ seen' \in Seen
      /\ \A d \in Clients : seen'.gone[d] = IF d \in members THEN seen.gone[d] \cup {m} ELSE seen.gone[d]
      /\ seen'.sent = seen.sent /\ seen'.answered = seen.answered
      /\ seen'.early = seen.early /\ seen'.shown = seen.shown /\ seen'.raced = seen.raced
      /\ seen'.rendered = seen.rendered /\ seen'.lost = seen.lost /\ seen'.during = seen.during
  BY <1>1, <1>2, GoneBroadcast DEF IInv
<1>5. /\ wire' \in [Clients -> Seq(Packet)]
      /\ \A d \in Clients : \A q : Among(wire'[d], q) <=> Among(wire[d], q) \/ (Followed(d) /\ q = Gone(m))
  BY <1>1, <1>2, PacketKinds, BroadcastSends DEF IInv
<1>6. \A d \in Clients : \A q : Coming(d, q)' <=> Coming(d, q) \/ (Followed(d) /\ q = Gone(m))
  BY <1>1, <1>5 DEF Coming
<1>7. Outside
  BY <1>1, <1>4 DEF Outside
<1>8. \A d \in Clients : \A n, r : Among(wire'[d], Hist(n, r)) => Among(wire[d], Hist(n, r))
  <2>1. \A n, r : Hist(n, r) # Gone(m)
    BY PacketsDiffer
  <2> QED
    BY <1>5, <2>1
<1>9. /\ MemberInv' /\ NumberInv' /\ \A d \in Clients : Known(d)' = Known(d)
      /\ \A d \in Clients : (task'[d].do = "answer") <=> (task[d].do = "answer")
      /\ \A d \in Clients : task'[d].do = "answer" => task'[d] = task[d]
  BY <1>1, <1>2, <1>3, <1>4, <1>7, <1>8, QuietHandler
<1>10. \A n : Telling(n)' <=> Telling(n)
  BY <1>1, <1>2, <1>3 DEF Telling, At
<1>11. TypeInv'
  BY <1>1, <1>3, <1>4, <1>5 DEF IInv, TypeInv, TypeOK
<1>12. TaskInv'
  BY <1>1, <1>2, <1>3 DEF IInv, TaskInv
<1>13. \A n \in Messages : Crowded(n)' <=> Crowded(n)
  BY <1>1 DEF Crowded
<1>14. StoredInv'
  BY <1>1, <1>4, <1>9, <1>10, <1>13 DEF IInv, StoredInv
<1>15. GoneInv'
  <2>1. ASSUME NEW d \in Clients, NEW n \in Messages, n \in seen'.gone[d]
        PROVE  n \in Cards /\ table[n] = "deleted"
    <3>1. n = m \/ n \in seen.gone[d]
      BY <1>4, <2>1
    <3> QED
      BY <1>2, <3>1 DEF IInv, GoneInv
  <2>2. ASSUME NEW d \in Clients, NEW n \in Messages, Coming(d, Gone(n))'
        PROVE  n \in seen'.gone[d]
    <3>1. PICK g : g = Gone(n)
      OBVIOUS
    <3>2. Coming(d, g)'
      BY <2>2, <3>1 DEF Gone
    <3>3. Coming(d, g) \/ (Followed(d) /\ g = Gone(m))
      BY <1>6, <3>2
    <3>4. Gone(n) = Gone(m) => n = m
      BY PacketsDiffer
    <3>5. Coming(d, Gone(n)) \/ (d \in members /\ n = m)
      BY <3>1, <3>3, <3>4 DEF Followed
    <3> QED
      BY <1>4, <3>5 DEF IInv, GoneInv
  <2> QED
    BY <1>1, <2>1, <2>2 DEF GoneInv
<1>16. EarlyInv'
  BY <1>1, <1>4, <1>10 DEF IInv, EarlyInv
<1>17. DeletionInv'
  <2>1. ASSUME NEW n \in Cards, n \notin seen.early, NEW d \in Clients, NEW e \in Clients,
               n \in seen'.gone[e], n \in Known(d)
        PROVE  n \in seen'.gone[d]
    <3>1. d \in members
      BY <2>1 DEF IInv, MemberInv
    <3>2. CASE n = m
      BY <1>4, <3>1, <3>2
    <3>3. CASE n # m
      BY <1>4, <2>1, <3>3 DEF IInv, DeletionInv
    <3> QED
      BY <3>2, <3>3
  <2> QED
    BY <1>4, <1>9, <2>1 DEF DeletionInv
<1>18. RaceInv'
  BY <1>1, <1>2, <1>3, <1>4, RaceKept DEF IInv
<1>19. PageInv'
  <2>1. \A d \in Clients, n \in Messages : Followed(d) =>
            (n \in seen'.gone[d] => n \in seen.gone[d] \/ Coming(d, Gone(n))')
    <3>1. ASSUME NEW d \in Clients, Followed(d) PROVE Coming(d, Gone(m))'
      <4>1. PICK g : g = Gone(m)
        OBVIOUS
      <4>2. Coming(d, g)'
        BY <1>6, <3>1, <4>1
      <4> QED
        BY <4>1, <4>2 DEF Coming
    <3> QED
      BY <1>4, <3>1
  <2> QED
    BY <1>1, <1>6, <1>7, <1>8, <1>9, <1>10, <1>13, <2>1, HandlerKeepsPages
<1> QED
  BY <1>9, <1>11, <1>12, <1>14, <1>15, <1>16, <1>17, <1>18, <1>19 DEF IInv

\* A step of a handler from one task that tells of no message or deletion to
\* another, with the rows and the packets left alone, keeps what neither the
\* reactions nor the types are about.
LEMMA QuietTaskKeeps ==
    ASSUME IInv, Outside, NEW c \in Clients, \A d \in Clients : d # c => task'[d] = task[d],
           task[c].do \in {"idle", "count", "react"}, task'[c].do \in {"idle", "count", "react"},
           table' = table, notes' = notes, members' = members, served' = served, wire' = wire,
           seen'.sent = seen.sent, seen'.gone = seen.gone, seen'.answered = seen.answered,
           seen'.early = seen.early
    PROVE  TaskInv' /\ MemberInv' /\ StoredInv' /\ GoneInv' /\ EarlyInv' /\ DeletionInv'
           /\ NumberInv' /\ PageInv'
<1>1. \A d \in Clients : \A q : Coming(d, q)' <=> Coming(d, q)
  BY DEF Coming, Outside
<1>2. \A n : Telling(n)' <=> Telling(n)
  BY DEF Telling, At
<1>3. \A n \in Messages : Crowded(n)' <=> Crowded(n)
  BY DEF Crowded
<1>4. TaskInv'
  BY DEF IInv, TaskInv
<1>5. /\ MemberInv' /\ NumberInv' /\ \A d \in Clients : Known(d)' = Known(d)
      /\ \A d \in Clients : (task'[d].do = "answer") <=> (task[d].do = "answer")
      /\ \A d \in Clients : task'[d].do = "answer" => task'[d] = task[d]
  BY QuietHandler
<1>6. StoredInv' /\ EarlyInv' /\ DeletionInv'
  BY <1>2, <1>3, <1>5 DEF IInv, StoredInv, EarlyInv, DeletionInv
<1>7. GoneInv'
  BY <1>1 DEF IInv, GoneInv
<1>8. PageInv'
  BY <1>1, <1>2, <1>3, <1>5, HandlerKeepsPages
<1> QED
  BY <1>4, <1>5, <1>6, <1>7, <1>8

\* The change of a reaction.
LEMMA ReactKeeps ==
    ASSUME IInv, NEW c \in Clients, NEW m \in Messages, React(c, m)
    PROVE  IInv'
<1> DEFINE t == [do |-> "count", message |-> m]
           overlap == Under({"count", "react"}, m)
<1>1. PICK by \in {reactions[m] \cup {c}, reactions[m] \ {c}} :
          reactions' = [reactions EXCEPT ![m] = by]
  BY DEF React
<1>2. /\ members' = members /\ table' = table /\ notes' = notes /\ served' = served /\ wire' = wire
      /\ pending' = pending /\ deaf' = deaf /\ events' = events /\ answer' = answer
      /\ screen' = screen /\ page' = page /\ requests' = requests /\ bounds' = bounds
      /\ changes < bounds.changes /\ changes' = changes + 1
      /\ seen' = [seen EXCEPT !.raced = IF overlap THEN @ \cup {m} ELSE @ \ {m}]
      /\ task[c] = Idle /\ Then(c, t)
  BY DEF React, Serving, bridge, browser
<1>3. t \in Tasks /\ t.do = "count" /\ t.message = m /\ Idle.do = "idle"
  BY TaskValues
<1>4. overlap <=> \E d \in Clients : Reacting(d, m)
  BY DEF Under, Reacting, At
<1> HIDE DEF t, overlap
<1>5. task' \in [Clients -> Tasks] /\ task'[c] = t /\ \A d \in Clients : d # c => task'[d] = task[d]
  BY <1>2, <1>3, ThenEffect DEF IInv
<1>6. /\ seen' \in Seen
      /\ seen'.sent = seen.sent /\ seen'.gone = seen.gone /\ seen'.answered = seen.answered
      /\ seen'.early = seen.early /\ seen'.shown = seen.shown
      /\ seen'.rendered = seen.rendered /\ seen'.lost = seen.lost /\ seen'.during = seen.during
      /\ seen'.raced = IF overlap THEN seen.raced \cup {m} ELSE seen.raced \ {m}
  <2>1. seen \in Seen
    BY DEF IInv, TypeInv, TypeOK
  <2> QED
    BY <1>2, <2>1 DEF Seen
<1>7. reactions' \in [Messages -> SUBSET Clients] /\ \A n \in Messages : n # m => reactions'[n] = reactions[n]
  BY <1>1 DEF IInv, TypeInv, TypeOK
<1>8. TypeInv'
  <2>1. changes' \in 0..bounds'.changes
    BY <1>2, RoomAssumption DEF IInv, TypeInv, TypeOK
  <2> QED
    BY <1>2, <1>5, <1>6, <1>7, <2>1 DEF IInv, TypeInv, TypeOK
<1>9. RaceInv'
  <2>1. \A d \in Clients, n \in Messages : Reacting(d, n)' <=> Reacting(d, n) \/ (d = c /\ n = m)
    BY <1>2, <1>3, <1>5 DEF Reacting, At
  <2>2. \A d \in Clients, n \in Messages : At(d, "react", n)' => At(d, "react", n) /\ d # c
    BY <1>2, <1>3, <1>5 DEF At
  <2>3. ASSUME NEW n \in Messages, n # m, n \notin seen'.raced
        PROVE  /\ \A d, e \in Clients : Reacting(d, n)' /\ Reacting(e, n)' => d = e
               /\ \A d \in Clients : At(d, "react", n)' => task'[d].by = reactions'[n]
               /\ seen'.shown[n] = reactions'[n] \/ \E d \in Clients : Reacting(d, n)'
    <3>1. n \notin seen.raced
      BY <1>6, <2>3
    <3> QED
      BY <1>5, <1>6, <1>7, <2>1, <2>2, <2>3, <3>1 DEF IInv, RaceInv
  <2>4. ASSUME m \notin seen'.raced
        PROVE  /\ \A d, e \in Clients : Reacting(d, m)' /\ Reacting(e, m)' => d = e
               /\ \A d \in Clients : ~At(d, "react", m)'
               /\ Reacting(c, m)'
    <3>1. \A d \in Clients : ~Reacting(d, m)
      BY <1>4, <1>6, <2>4
    <3> QED
      BY <2>1, <2>2, <3>1 DEF Reacting
  <2> QED
    BY <2>3, <2>4 DEF RaceInv
<1>10. Outside
  BY <1>2, <1>6 DEF Outside
<1> QED
  BY <1>2, <1>3, <1>5, <1>6, <1>8, <1>9, <1>10, QuietTaskKeeps DEF IInv

\* The count of the reactions.
LEMMA ReactCountKeeps ==
    ASSUME IInv, NEW c \in Clients, ReactCount(c)
    PROVE  IInv'
<1> DEFINE m == task[c].message
           by == reactions[m]
           t == [do |-> "react", message |-> m, by |-> by]
<1>1. /\ members' = members /\ table' = table /\ notes' = notes /\ served' = served /\ wire' = wire
      /\ reactions' = reactions /\ changes' = changes /\ seen' = seen /\ Outside
      /\ task[c].do = "count" /\ Then(c, t)
  BY DEF ReactCount, rows, bridge, browser, limits, Outside
<1>2. m \in Messages
  BY <1>1, TaskTypes DEF IInv
<1>3. by \in SUBSET Clients
  BY <1>2 DEF IInv, TypeInv, TypeOK
<1>4. At(c, "count", m)
  BY <1>1 DEF At
<1> HIDE DEF m, by
<1>5. t \in Tasks /\ t.do = "react" /\ t.message = m /\ t.by = by
  BY <1>2, <1>3, TaskValues
<1> HIDE DEF t
<1>6. task' \in [Clients -> Tasks] /\ task'[c] = t /\ \A d \in Clients : d # c => task'[d] = task[d]
  BY <1>1, <1>5, ThenEffect DEF IInv
<1>7. TypeInv'
  BY <1>1, <1>6 DEF IInv, TypeInv, TypeOK, Outside
<1>8. RaceInv'
  <2>1. \A d \in Clients, n \in Messages : Reacting(d, n)' <=> Reacting(d, n)
    BY <1>1, <1>4, <1>5, <1>6 DEF Reacting, At
  <2>2. \A d \in Clients, n \in Messages : At(d, "react", n)' /\ d # c => At(d, "react", n) /\ task'[d] = task[d]
    BY <1>6 DEF At
  <2>3. \A n \in Messages : At(c, "react", n)' => n = m /\ task'[c].by = reactions[n]
    BY <1>5, <1>6 DEF At, by
  <2> QED
    BY <1>1, <2>1, <2>2, <2>3 DEF IInv, RaceInv
<1> QED
  BY <1>1, <1>5, <1>6, <1>7, <1>8, QuietTaskKeeps DEF IInv

\* The broadcast of the reactions.
LEMMA ReactTellKeeps ==
    ASSUME IInv, NEW c \in Clients, ReactTell(c)
    PROVE  IInv'
<1> DEFINE m == task[c].message
           by == task[c].by
<1>1. /\ members' = members /\ table' = table /\ notes' = notes /\ served' = served /\ wire' = wire
      /\ reactions' = reactions /\ changes' = changes
      /\ pending' = pending /\ deaf' = deaf /\ events' = events /\ answer' = answer
      /\ screen' = screen /\ page' = page /\ requests' = requests /\ bounds' = bounds
      /\ seen' = [seen EXCEPT !.shown[m] = by]
      /\ task[c].do = "react" /\ Then(c, Idle)
  BY DEF ReactTell, rows, bridge, browser, limits
<1>2. m \in Messages /\ by \in SUBSET Clients /\ At(c, "react", m)
  BY <1>1, TaskTypes DEF IInv, At
<1>3. m \notin seen.raced => by = reactions[m]
  BY <1>2 DEF IInv, RaceInv
<1> HIDE DEF m, by
<1>4. Idle \in Tasks /\ Idle.do = "idle"
  BY TaskValues
<1>5. task' \in [Clients -> Tasks] /\ task'[c] = Idle /\ \A d \in Clients : d # c => task'[d] = task[d]
  BY <1>1, <1>4, ThenEffect DEF IInv
<1>6. /\ seen' \in Seen
      /\ seen'.sent = seen.sent /\ seen'.gone = seen.gone /\ seen'.answered = seen.answered
      /\ seen'.early = seen.early /\ seen'.raced = seen.raced
      /\ seen'.rendered = seen.rendered /\ seen'.lost = seen.lost /\ seen'.during = seen.during
      /\ seen'.shown[m] = by /\ \A n \in Messages : n # m => seen'.shown[n] = seen.shown[n]
  <2>1. seen \in Seen /\ seen.shown \in [Messages -> SUBSET Clients]
    BY DEF IInv, TypeInv, TypeOK, Seen
  <2>2. PICK shown : shown = [seen.shown EXCEPT ![m] = by]
    OBVIOUS
  <2>3. shown \in [Messages -> SUBSET Clients] /\ seen' = [seen EXCEPT !.shown = shown]
    BY <1>1, <1>2, <2>1, <2>2
  <2>4. shown[m] = by /\ \A n \in Messages : n # m => shown[n] = seen.shown[n]
    BY <1>2, <2>1, <2>2
  <2>5. seen'.shown = shown
    BY <2>1, <2>3 DEF Seen
  <2>6. seen' \in Seen
    BY <2>1, <2>3 DEF Seen
  <2> QED
    BY <2>1, <2>3, <2>4, <2>5, <2>6 DEF Seen
<1>7. TypeInv'
  BY <1>1, <1>5, <1>6 DEF IInv, TypeInv, TypeOK
<1>8. RaceInv'
  <2>1. \A d \in Clients, n \in Messages : Reacting(d, n)' => Reacting(d, n)
    BY <1>4, <1>5 DEF Reacting, At
  <2>2. \A d \in Clients, n \in Messages : At(d, "react", n)' => At(d, "react", n) /\ task'[d] = task[d]
    BY <1>4, <1>5 DEF At
  <2>3. \A d \in Clients, n \in Messages : Reacting(d, n) /\ n # m => Reacting(d, n)'
    BY <1>2, <1>4, <1>5 DEF Reacting, At
  <2> QED
    BY <1>1, <1>3, <1>6, <2>1, <2>2, <2>3 DEF IInv, RaceInv
<1>9. Outside
  BY <1>1, <1>6 DEF Outside
<1> QED
  BY <1>1, <1>4, <1>5, <1>6, <1>7, <1>8, <1>9, QuietTaskKeeps DEF IInv

\* The history that is read has the rows of the table, but for those that the
\* limit cuts off.
LEMMA HistoryKeeps ==
    ASSUME IInv, NEW c \in Clients, History(c)
    PROVE  IInv'
<1>1. PICK n \in 0..notes, some \in SUBSET Stored :
          /\ n <= Limit /\ some \in Newest(Limit - n)
          /\ Then(c, [do |-> "answer", number |-> served[c] + 1, rows |-> some])
  BY DEF History
<1>2. PICK t : t = [do |-> "answer", number |-> served[c] + 1, rows |-> some]
  OBVIOUS
<1>3. /\ members' = members /\ table' = table /\ notes' = notes /\ reactions' = reactions
      /\ wire' = wire /\ changes' = changes /\ seen' = seen /\ Outside
      /\ c \in members /\ task[c] = Idle /\ Then(c, t)
      /\ served[c] < requests[c] /\ served' = [served EXCEPT ![c] = @ + 1]
  BY <1>1, <1>2 DEF History, Serving, rows, bridge, browser, limits, Outside
<1>4. some \subseteq Messages /\ \A m \in some : table[m] = "stored"
  BY DEF Stored
<1>5. \A m \in Messages : table[m] = "stored" => m \in some \/ Crowded(m)
  <2>1. ASSUME NEW m \in Messages, table[m] = "stored", m \notin some PROVE Crowded(m)
    <3>1. m \in Stored \ some
      BY <2>1 DEF Stored
    <3>2. (\A o \in some : Time[o] >= Time[m]) /\ Cardinality(some) = Limit - n
      BY <1>1, <3>1 DEF Newest
    <3>3. some \in SUBSET {o \in Messages \ {m} : table[o] # "none" /\ Time[o] >= Time[m]}
      BY <1>4, <2>1, <3>2
    <3> QED
      BY <1>1, <3>2, <3>3 DEF Crowded
  <2> QED
    BY <2>1
<1>6. /\ t \in Tasks /\ t.do = "answer" /\ t.number = served[c] + 1 /\ t.rows = some
      /\ served[c] \in Nat /\ Idle.do = "idle"
  <2>1. served[c] \in Nat /\ served[c] + 1 \in Nat
    BY DEF IInv, TypeInv, TypeOK
  <2> QED
    BY <1>2, <1>4, <2>1, TaskValues
<1>7. task' \in [Clients -> Tasks] /\ task'[c] = t /\ \A d \in Clients : d # c => task'[d] = task[d]
  BY <1>3, <1>6, ThenEffect DEF IInv
<1>8. /\ served' \in [Clients -> Nat] /\ served'[c] = served[c] + 1
      /\ \A d \in Clients : d # c => served'[d] = served[d]
  BY <1>3, <1>6 DEF IInv, TypeInv, TypeOK
<1>9. /\ Known(c)' = seen.sent[c] \cup some /\ Known(c) = seen.sent[c]
      /\ \A d \in Clients : d # c => Known(d)' = Known(d)
  BY <1>3, <1>6, <1>7 DEF Known
<1>10. \A d \in Clients : \A q : Coming(d, q)' <=> Coming(d, q)
  BY <1>3 DEF Coming, Outside
<1>11. \A m : Telling(m)' <=> Telling(m)
  BY <1>3, <1>6, <1>7 DEF Telling, At
<1>12. \A m \in Messages : Crowded(m)' <=> Crowded(m)
  BY <1>3 DEF Crowded
<1>13. TypeInv'
  BY <1>3, <1>7, <1>8 DEF IInv, TypeInv, TypeOK, Outside
<1>14. TaskInv'
  BY <1>3, <1>6, <1>7 DEF IInv, TaskInv
<1>15. MemberInv'
  BY <1>3, <1>6, <1>7, <1>9 DEF IInv, MemberInv, Outside
<1>16. NumberInv'
  <2>1. \A d \in Clients : requests[d] \in Nat /\ served[d] \in Nat
    BY RoomAssumption DEF IInv, TypeInv, TypeOK
  <2> QED
    BY <1>3, <1>6, <1>7, <1>8, <2>1 DEF IInv, NumberInv, Outside
<1>17. StoredInv'
  <2>1. ASSUME NEW d \in Clients, NEW m \in Messages, table[m] = "stored", task'[d].do = "answer"
        PROVE  m \in Known(d)' \/ Telling(m) \/ Crowded(m)
    <3>1. CASE d = c
      BY <1>5, <1>9, <2>1, <3>1
    <3>2. CASE d # c
      BY <1>7, <1>9, <2>1, <3>2 DEF IInv, StoredInv
    <3> QED
      BY <3>1, <3>2
  <2>2. \A d \in Clients, m \in Messages : table[m] = "stored" /\ d \in seen.answered =>
            m \in seen.sent[d] \/ Telling(m) \/ Crowded(m)
    BY DEF IInv, StoredInv
  <2> QED
    BY <1>3, <1>11, <1>12, <2>1, <2>2 DEF StoredInv
<1>18. GoneInv'
  BY <1>3, <1>10 DEF IInv, GoneInv
<1>19. EarlyInv'
  BY <1>3, <1>11 DEF IInv, EarlyInv
<1>20. \A m \in some, d \in Clients : m \notin seen.gone[d]
  BY <1>4 DEF IInv, GoneInv
<1>21. DeletionInv'
  <2>1. ASSUME NEW m \in Cards, m \notin seen.early, NEW d \in Clients, NEW e \in Clients,
               m \in seen.gone[e], m \in Known(d)'
        PROVE  m \in seen.gone[d]
    <3>1. m \in Known(d)
      BY <1>9, <1>20, <2>1
    <3> QED
      BY <2>1, <3>1 DEF IInv, DeletionInv
  <2> QED
    BY <1>3, <2>1 DEF DeletionInv
<1>22. RaceInv'
  BY <1>3, <1>6, <1>7, RaceKept DEF IInv
<1>23. PageInv'
  <2>1. ASSUME NEW d \in Clients, Followed(d)' PROVE PageOf(d)'
    <3>1. Followed(d) /\ PageOf(d)
      BY <1>3, <2>1 DEF IInv, PageInv, Followed, Outside
    <3>2. ASSUME NEW r \in SUBSET Messages, OnItsWay(d, r)', ~OnItsWay(d, r)
          PROVE  Current(d, r, r, seen.during[d])'
      <4>1. d = c
        BY <1>3, <1>7, <3>2 DEF OnItsWay, Outside
      <4>2. r = some
        BY <1>3, <1>6, <1>7, <3>2, <4>1 DEF OnItsWay, Outside
      <4>3. \A m \in Messages : table'[m] = "stored" => m \in r \/ Crowded(m)'
        BY <1>3, <1>5, <1>12, <4>2
      <4>4. \A m \in Messages : ~(m \in seen'.gone[d] /\ m \in r)
        BY <1>3, <1>20, <4>2
      <4> QED
        BY <4>3, <4>4 DEF Current
    <3> QED
      BY <1>3, <1>10, <1>11, <1>12, <3>1, <3>2, PageOfKept DEF Outside
  <2> QED
    BY <2>1 DEF PageInv
<1> QED
  BY <1>13, <1>14, <1>15, <1>16, <1>17, <1>18, <1>19, <1>21, <1>22, <1>23 DEF IInv

\* The history is sent as it was read.
LEMMA HistoryTellKeeps ==
    ASSUME IInv, NEW c \in Clients, HistoryTell(c)
    PROVE  IInv'
<1>1. PICK n, some : n = task[c].number /\ some = task[c].rows
  OBVIOUS
<1>2. /\ members' = members /\ table' = table /\ notes' = notes /\ reactions' = reactions
      /\ served' = served /\ changes' = changes /\ pending' = pending /\ deaf' = deaf
      /\ events' = events /\ answer' = answer
      /\ screen' = screen /\ page' = page /\ requests' = requests /\ bounds' = bounds
      /\ wire' = [wire EXCEPT ![c] = Sent(c, Hist(n, some))]
      /\ seen' = [seen EXCEPT !.sent[c] = @ \cup some, !.answered = @ \cup {c}]
      /\ task[c].do = "answer" /\ Then(c, Idle)
  BY <1>1 DEF HistoryTell, rows, bridge, browser, limits, Hist
<1>3. n \in Nat /\ some \in SUBSET Messages /\ Idle \in Tasks /\ Idle.do = "idle"
  BY <1>1, <1>2, TaskTypes, TaskValues DEF IInv
<1>4. task' \in [Clients -> Tasks] /\ task'[c] = Idle /\ \A d \in Clients : d # c => task'[d] = task[d]
  BY <1>2, <1>3, ThenEffect DEF IInv
<1>5. /\ wire' \in [Clients -> Seq(Packet)] /\ \A d \in Clients : d # c => wire'[d] = wire[d]
      /\ \A q : Among(wire[c], q) => Among(wire'[c], q)
      /\ \A q : Among(wire'[c], q) => Among(wire[c], q) \/ q = Hist(n, some)
  <2>1. Hist(n, some) \in Packet
    BY <1>3, PacketKinds
  <2>2. /\ Sent(c, Hist(n, some)) \in Seq(Packet)
        /\ \A q : Among(wire[c], q) => Among(Sent(c, Hist(n, some)), q)
        /\ \A q : Among(Sent(c, Hist(n, some)), q) => Among(wire[c], q) \/ q = Hist(n, some)
    BY <2>1, SentEffect DEF IInv
  <2>3. wire'[c] = Sent(c, Hist(n, some)) /\ \A d \in Clients : d # c => wire'[d] = wire[d]
    BY <1>2 DEF IInv, TypeInv
  <2> QED
    BY <1>2, <2>2, <2>3 DEF IInv, TypeInv
<1>6. /\ seen' \in Seen
      /\ seen'.gone = seen.gone /\ seen'.answered = seen.answered \cup {c}
      /\ seen'.early = seen.early /\ seen'.raced = seen.raced /\ seen'.shown = seen.shown
      /\ seen'.rendered = seen.rendered /\ seen'.lost = seen.lost /\ seen'.during = seen.during
      /\ seen'.sent[c] = seen.sent[c] \cup some
      /\ \A d \in Clients : d # c => seen'.sent[d] = seen.sent[d]
  <2>1. seen \in Seen /\ seen.sent \in [Clients -> SUBSET Messages] /\ seen.answered \in SUBSET Clients
    BY DEF IInv, TypeInv, TypeOK, Seen
  <2>2. PICK sent : sent = [seen.sent EXCEPT ![c] = @ \cup some]
    OBVIOUS
  <2>3. seen' = [seen EXCEPT !.sent = sent, !.answered = @ \cup {c}]
    BY <1>2, <2>1, <2>2 DEF Seen
  <2>4. sent \in [Clients -> SUBSET Messages]
    BY <1>3, <2>1, <2>2
  <2>5. sent[c] = seen.sent[c] \cup some /\ \A d \in Clients : d # c => sent[d] = seen.sent[d]
    BY <2>1, <2>2
  <2>6. /\ seen'.gone = seen.gone /\ seen'.answered = seen.answered \cup {c}
        /\ seen'.early = seen.early /\ seen'.raced = seen.raced /\ seen'.shown = seen.shown
        /\ seen'.rendered = seen.rendered /\ seen'.lost = seen.lost /\ seen'.during = seen.during
        /\ seen'.sent = sent
    BY <2>1, <2>3 DEF Seen
  <2>7. seen' \in Seen
    BY <2>1, <2>3, <2>4 DEF Seen
  <2> QED
    BY <2>5, <2>6, <2>7
<1>7. Outside
  BY <1>2, <1>6 DEF Outside
<1>8. \A d \in Clients : Known(d)' = Known(d)
  BY <1>1, <1>2, <1>3, <1>4, <1>6 DEF Known
<1>9. \A d \in Clients, m \in Messages : /\ Coming(d, Chat(m))' <=> Coming(d, Chat(m))
                                         /\ Coming(d, Gone(m))' <=> Coming(d, Gone(m))
  <2>1. \A m : Chat(m) # Hist(n, some) /\ Gone(m) # Hist(n, some)
    BY PacketsDiffer
  <2>2. \A d \in Clients : \A q : q # Hist(n, some) => (Among(wire'[d], q) <=> Among(wire[d], q))
    BY <1>5
  <2> QED
    BY <1>2, <2>1, <2>2 DEF Coming, Chat, Gone
<1>10. \A m : Telling(m)' <=> Telling(m)
  BY <1>2, <1>3, <1>4 DEF Telling, At
<1>11. \A m \in Messages : Crowded(m)' <=> Crowded(m)
  BY <1>2 DEF Crowded
<1>12. TypeInv'
  BY <1>2, <1>4, <1>5, <1>6 DEF IInv, TypeInv, TypeOK
<1>13. TaskInv'
  BY <1>2, <1>3, <1>4 DEF IInv, TaskInv
<1>14. MemberInv'
  <2>1. c \in members
    BY <1>2 DEF IInv, MemberInv
  <2>2. \A d \in Clients : task'[d].do = "answer" => task[d].do = "answer"
    BY <1>3, <1>4
  <2> QED
    BY <1>2, <1>6, <1>8, <2>1, <2>2 DEF IInv, MemberInv
<1>15. NumberInv'
  <2>1. ASSUME NEW d \in Clients, NEW k \in Nat, NEW r \in SUBSET Messages, Among(wire'[d], Hist(k, r))
        PROVE  k <= served[d]
    <3>1. CASE Among(wire[d], Hist(k, r))
      BY <3>1 DEF IInv, NumberInv
    <3>2. CASE ~Among(wire[d], Hist(k, r))
      <4>1. d = c /\ Hist(k, r) = Hist(n, some)
        BY <1>5, <2>1, <3>2
      <4>2. k = n
        BY <4>1, PacketsDiffer
      <4> QED
        BY <1>1, <1>2, <4>1, <4>2 DEF IInv, NumberInv
    <3> QED
      BY <3>1, <3>2
  <2>2. \A d \in Clients : task'[d].do = "answer" => task'[d] = task[d]
    BY <1>3, <1>4
  <2> QED
    BY <1>2, <2>1, <2>2 DEF IInv, NumberInv
<1>16. StoredInv'
  <2>1. ASSUME NEW d \in Clients, NEW m \in Messages, table[m] = "stored", d \in seen'.answered
        PROVE  m \in seen'.sent[d] \/ Telling(m) \/ Crowded(m)
    <3>1. CASE d = c
      <4>1. Known(c) = seen'.sent[c]
        BY <1>1, <1>2, <1>6 DEF Known
      <4> QED
        BY <1>2, <2>1, <3>1, <4>1 DEF IInv, StoredInv
    <3>2. CASE d # c
      BY <1>6, <2>1, <3>2 DEF IInv, StoredInv
    <3> QED
      BY <3>1, <3>2
  <2>2. \A d \in Clients : task'[d].do = "answer" => task[d].do = "answer"
    BY <1>3, <1>4
  <2>3. \A d \in Clients, m \in Messages : table[m] = "stored" /\ task'[d].do = "answer" =>
            m \in Known(d)' \/ Telling(m) \/ Crowded(m)
    BY <1>8, <2>2 DEF IInv, StoredInv
  <2> QED
    BY <1>2, <1>10, <1>11, <2>1, <2>3 DEF StoredInv
<1>17. GoneInv'
  BY <1>2, <1>6, <1>9 DEF IInv, GoneInv
<1>18. EarlyInv' /\ DeletionInv'
  BY <1>2, <1>6, <1>8, <1>10 DEF IInv, EarlyInv, DeletionInv
<1>19. RaceInv'
  BY <1>2, <1>3, <1>4, <1>6, RaceKept DEF IInv
<1>20. PageInv'
  <2>1. ASSUME NEW d \in Clients, Followed(d)' PROVE PageOf(d)'
    <3>1. Followed(d) /\ PageOf(d)
      BY <1>2, <2>1 DEF IInv, PageInv, Followed
    <3>2. ASSUME NEW r \in SUBSET Messages, OnItsWay(d, r)' PROVE OnItsWay(d, r)
      <4>1. CASE d # c
        BY <1>2, <1>4, <1>5, <3>2, <4>1 DEF OnItsWay
      <4>2. CASE d = c
        <5>1. PICK k : k = requests[c]
          OBVIOUS
        <5>2. r \in answer[c] \/ (page[c] = "waiting" /\ Among(wire'[c], Hist(k, r)))
          BY <1>2, <1>3, <1>4, <3>2, <4>2, <5>1 DEF OnItsWay
        <5>3. Among(wire'[c], Hist(k, r)) => Among(wire[c], Hist(k, r)) \/ (k = n /\ r = some)
          <6>1. Hist(k, r) = Hist(n, some) => k = n /\ r = some
            BY PacketsDiffer
          <6> QED
            BY <1>5, <6>1
        <5> QED
          BY <1>1, <1>2, <4>2, <5>1, <5>2, <5>3 DEF OnItsWay
      <4> QED
        BY <4>1, <4>2
    <3> QED
      BY <1>2, <1>6, <1>9, <1>10, <1>11, <3>1, <3>2, PageOfKept
  <2> QED
    BY <2>1 DEF PageInv
<1> QED
  BY <1>12, <1>13, <1>14, <1>15, <1>16, <1>17, <1>18, <1>19, <1>20 DEF IInv

-----------------------------------------------------------------------------
(* The bridge and the browser *)

\* What the receiver and the page do is nothing to the server.
LEMMA OutsideKeeps ==
    ASSUME IInv, UNCHANGED server,
           seen'.sent = seen.sent, seen'.gone = seen.gone, seen'.answered = seen.answered,
           seen'.early = seen.early, seen'.shown = seen.shown, seen'.raced = seen.raced
    PROVE  /\ TaskInv' /\ StoredInv' /\ EarlyInv' /\ DeletionInv' /\ RaceInv'
           /\ \A d \in Clients : Known(d)' = Known(d)
           /\ \A m : Telling(m)' <=> Telling(m)
           /\ \A m \in Messages : Crowded(m)' <=> Crowded(m)
<1>1. table' = table /\ notes' = notes /\ reactions' = reactions /\ task' = task
  BY DEF server, rows
<1>2. /\ \A m : Telling(m)' <=> Telling(m)
      /\ \A m \in Messages : Crowded(m)' <=> Crowded(m)
      /\ \A d \in Clients : Known(d)' = Known(d)
  BY <1>1 DEF Telling, At, Crowded, Known
<1>3. TaskInv' /\ RaceInv'
  BY <1>1 DEF IInv, TaskInv, RaceInv, Reacting, At
<1>4. StoredInv' /\ EarlyInv' /\ DeletionInv'
  BY <1>1, <1>2 DEF IInv, StoredInv, EarlyInv, DeletionInv
<1> QED
  BY <1>2, <1>3, <1>4

\* What a step of one client's bridge or page leaves alone of the others.
Others(c) ==
    \A d \in Clients : d # c =>
        /\ wire'[d] = wire[d] /\ events'[d] = events[d] /\ answer'[d] = answer[d]
        /\ screen'[d] = screen[d] /\ page'[d] = page[d] /\ requests'[d] = requests[d]
        /\ (d \in deaf' <=> d \in deaf) /\ (d \in seen'.rendered <=> d \in seen.rendered)
        /\ seen'.lost[d] = seen.lost[d] /\ seen'.during[d] = seen.during[d]

\* The other pages stay current.
LEMMA OthersKept ==
    ASSUME IInv, UNCHANGED server, bounds' = bounds, seen'.gone = seen.gone,
           NEW c \in Clients, Others(c), Followed(c)' => PageOf(c)'
    PROVE  PageInv'
<1>1. /\ table' = table /\ notes' = notes /\ task' = task /\ members' = members
      /\ \A m : Telling(m)' <=> Telling(m)
      /\ \A m \in Messages : Crowded(m)' <=> Crowded(m)
  BY DEF server, rows, Telling, At, Crowded
<1>2. ASSUME NEW d \in Clients, d # c, Followed(d)' PROVE PageOf(d)'
  <2>1. Followed(d) /\ PageOf(d)
    BY <1>1, <1>2 DEF IInv, PageInv, Followed, Others
  <2>2. /\ wire'[d] = wire[d] /\ events'[d] = events[d] /\ answer'[d] = answer[d]
        /\ screen'[d] = screen[d] /\ page'[d] = page[d] /\ requests'[d] = requests[d]
        /\ (d \in seen'.rendered <=> d \in seen.rendered)
        /\ seen'.lost[d] = seen.lost[d] /\ seen'.during[d] = seen.during[d]
    BY <1>2 DEF Others
  <2>3. \A q : Coming(d, q)' <=> Coming(d, q)
    BY <2>2 DEF Coming
  <2>4. \A r : OnItsWay(d, r)' => OnItsWay(d, r)
    BY <1>1, <2>2 DEF OnItsWay
  <2> QED
    BY <1>1, <2>1, <2>2, <2>3, <2>4, PageOfKept
<1> QED
  BY <1>2 DEF PageInv

\* What only the following of a page depends on.
LEMMA OutsideMembers ==
    ASSUME IInv, UNCHANGED server, bounds' = bounds, seen'.sent = seen.sent,
           seen'.answered = seen.answered, NEW c \in Clients, Others(c),
           page'[c] # "out" => c \in members,
           page'[c] = "waiting" \/ c \in seen'.rendered => c \in bounds.pages /\ requests'[c] > 0,
           c \in seen'.rendered => page'[c] # "out"
    PROVE  MemberInv'
<1>1. task' = task /\ members' = members /\ \A d \in Clients : Known(d)' = Known(d)
  BY DEF server, Known
<1>2. ASSUME NEW d \in Clients
      PROVE  /\ Known(d) # {} \/ task[d].do = "answer" \/ d \in seen.answered \/ page'[d] # "out"
                    => d \in members
             /\ page'[d] = "waiting" \/ d \in seen'.rendered => d \in bounds.pages /\ requests'[d] > 0
             /\ d \in seen'.rendered => page'[d] # "out"
  <2>1. CASE d = c
    BY <2>1 DEF IInv, MemberInv
  <2>2. CASE d # c
    BY <2>2 DEF IInv, MemberInv, Others
  <2> QED
    BY <2>1, <2>2
<1> QED
  BY <1>1, <1>2 DEF MemberInv

\* The first packet before the receiver.
LEMMA FirstOfWire ==
    ASSUME IInv, NEW c \in Clients, wire[c] # <<>>, Received(c)
    PROVE  /\ wire' \in [Clients -> Seq(Packet)] /\ Head(wire[c]) \in Packet
           /\ \A d \in Clients : d # c => wire'[d] = wire[d]
           /\ \A q : Among(wire[c], q) <=> Among(wire'[c], q) \/ q = Head(wire[c])
           /\ \A d \in Clients : \A q : Among(wire'[d], q) => Among(wire[d], q)
<1>1. wire \in [Clients -> Seq(Packet)] /\ wire' = [wire EXCEPT ![c] = Tail(@)]
  BY DEF IInv, TypeInv, Received
<1>2. wire[c] \in Seq(Packet) /\ wire'[c] = Tail(wire[c])
      /\ \A d \in Clients : d # c => wire'[d] = wire[d]
  BY <1>1
<1>3. Head(wire[c]) \in Packet /\ Tail(wire[c]) \in Seq(Packet)
  BY <1>2, AmongTail
<1>4. \A q : Among(wire[c], q) <=> Among(Tail(wire[c]), q) \/ q = Head(wire[c])
  BY <1>2, AmongTail
<1>5. \A d \in Clients : \A q : Among(wire'[d], q) => Among(wire[d], q)
  BY <1>2, <1>4
<1>6. wire' \in [Clients -> Seq(Packet)]
  BY <1>1, <1>2, <1>3
<1> QED
  BY <1>2, <1>3, <1>4, <1>5, <1>6

\* Requests, histories and answers, when no history joins those before the
\* receiver.
LEMMA OutsideNumbers ==
    ASSUME IInv, UNCHANGED server, NEW c \in Clients, Others(c), requests'[c] \in {requests[c], requests[c] + 1},
           \A d \in Clients : \A q : Among(wire'[d], q) => Among(wire[d], q),
           answer'[c] # {} => page'[c] = "waiting"
    PROVE  NumberInv'
<1>1. task' = task /\ served' = served
  BY DEF server
<1>2. ASSUME NEW d \in Clients
      PROVE  /\ served[d] <= requests'[d]
             /\ answer'[d] # {} => page'[d] = "waiting"
  <2>1. CASE d = c
    <3>1. served[c] \in Nat /\ requests[c] \in Nat /\ served[c] <= requests[c]
      BY RoomAssumption DEF IInv, TypeInv, TypeOK, NumberInv
    <3>2. CASE requests'[c] = requests[c]
      BY <2>1, <3>1, <3>2
    <3>3. CASE requests'[c] # requests[c]
      BY <2>1, <3>1, <3>3, SMT DEF Others
    <3> QED
      BY <3>2, <3>3
  <2>2. CASE d # c
    BY <2>2 DEF IInv, NumberInv, Others
  <2> QED
    BY <2>1, <2>2
<1> QED
  BY <1>1, <1>2 DEF IInv, NumberInv

\* An event goes from the wire to the queue.
LEMMA ReceiveEventKeeps ==
    ASSUME IInv, NEW c \in Clients, ReceiveEvent(c)
    PROVE  IInv'
<1>1. PICK p : p = Head(wire[c])
  OBVIOUS
<1>2. /\ UNCHANGED server /\ pending' = pending /\ deaf' = deaf /\ answer' = answer
      /\ screen' = screen /\ page' = page /\ requests' = requests
      /\ changes' = changes /\ bounds' = bounds /\ seen' = seen
      /\ wire[c] # <<>> /\ p \in Event /\ Received(c)
      /\ events' = [events EXCEPT ![c] = Append(@, p)]
  BY <1>1 DEF ReceiveEvent, browser, limits
<1>3. /\ wire' \in [Clients -> Seq(Packet)] /\ \A d \in Clients : d # c => wire'[d] = wire[d]
      /\ \A q : Among(wire[c], q) <=> Among(wire'[c], q) \/ q = p
      /\ \A d \in Clients : \A q : Among(wire'[d], q) => Among(wire[d], q)
  BY <1>1, <1>2, FirstOfWire
<1>4. /\ events' \in [Clients -> Seq(Event)] /\ \A d \in Clients : d # c => events'[d] = events[d]
      /\ \A q : Among(events'[c], q) <=> Among(events[c], q) \/ q = p
  <2>1. events \in [Clients -> Seq(Event)] /\ events[c] \in Seq(Event)
    BY DEF IInv, TypeInv
  <2>2. /\ Append(events[c], p) \in Seq(Event)
        /\ \A q : Among(Append(events[c], p), q) <=> Among(events[c], q) \/ q = p
    BY <1>2, <2>1, AmongAppend
  <2> QED
    BY <1>2, <2>1, <2>2
<1>5. \A d \in Clients : \A q : Coming(d, q)' <=> Coming(d, q)
  <2>1. \A q : Coming(c, q)' <=> Coming(c, q)
    BY <1>3, <1>4 DEF Coming
  <2> QED
    BY <1>3, <1>4, <2>1 DEF Coming
<1>6. Others(c)
  BY <1>2, <1>3, <1>4 DEF Others
<1>7. TypeInv'
  BY <1>2, <1>3, <1>4 DEF IInv, TypeInv, TypeOK, server, rows
<1>8. MemberInv'
  BY <1>2, <1>6, OutsideMembers DEF IInv, MemberInv
<1>9. GoneInv'
  BY <1>2, <1>5 DEF IInv, GoneInv, server, rows
<1>10. NumberInv'
  BY <1>2, <1>3, <1>6, OutsideNumbers DEF IInv, NumberInv
<1>11. /\ TaskInv' /\ StoredInv' /\ EarlyInv' /\ DeletionInv' /\ RaceInv'
       /\ \A m : Telling(m)' <=> Telling(m)
       /\ \A m \in Messages : Crowded(m)' <=> Crowded(m)
  BY <1>2, OutsideKeeps
<1>12. PageInv'
  <2>1. ASSUME Followed(c)' PROVE PageOf(c)'
    <3>1. Followed(c) /\ PageOf(c)
      BY <1>2, <2>1 DEF IInv, PageInv, Followed, server
    <3>2. \A r : OnItsWay(c, r)' => OnItsWay(c, r)
      BY <1>2, <1>3 DEF OnItsWay, server
    <3> QED
      BY <1>2, <1>5, <1>11, <3>1, <3>2, PageOfKept DEF server, rows
  <2> QED
    BY <1>2, <1>6, <2>1, OthersKept
<1> QED
  BY <1>7, <1>8, <1>9, <1>10, <1>11, <1>12 DEF IInv

\* An event is taken for an answer.
LEMMA TakenForAnswerKeeps ==
    ASSUME IInv, NEW c \in Clients, TakenForAnswer(c)
    PROVE  IInv'
<1>1. PICK p, m : p = Head(wire[c]) /\ m = p.message
  OBVIOUS
<1>2. /\ UNCHANGED server /\ deaf' = deaf /\ answer' = answer /\ events' = events
      /\ screen' = screen /\ page' = page /\ requests' = requests
      /\ changes' = changes /\ bounds' = bounds
      /\ wire[c] # <<>> /\ p \in Event /\ Received(c)
      /\ seen' = [seen EXCEPT !.lost[c] = @ \cup {m}, !.during[c] = @ \cup {m}]
  BY <1>1 DEF TakenForAnswer, browser, limits
<1>3. pending' \in [Clients -> SUBSET Nat]
  <2>1. pending \in [Clients -> SUBSET Nat]
    BY DEF IInv, TypeInv, TypeOK
  <2>2. CASE pending' = pending
    BY <2>1, <2>2
  <2>3. ASSUME NEW n \in pending[c], pending' = [pending EXCEPT ![c] = @ \ {n}]
        PROVE  pending' \in [Clients -> SUBSET Nat]
    BY <2>1, <2>3
  <2> QED
    BY <2>2, <2>3 DEF TakenForAnswer
<1>4. /\ wire' \in [Clients -> Seq(Packet)] /\ \A d \in Clients : d # c => wire'[d] = wire[d]
      /\ \A q : Among(wire[c], q) <=> Among(wire'[c], q) \/ q = p
      /\ \A d \in Clients : \A q : Among(wire'[d], q) => Among(wire[d], q)
  BY <1>1, <1>2, FirstOfWire
<1>5. m \in Messages /\ \A n : (Chat(n) = p => n = m) /\ (Gone(n) = p => n = m)
  BY <1>1, <1>2, PacketKinds, PacketsDiffer
<1>6. /\ seen' \in Seen
      /\ seen'.sent = seen.sent /\ seen'.gone = seen.gone /\ seen'.answered = seen.answered
      /\ seen'.early = seen.early /\ seen'.shown = seen.shown /\ seen'.raced = seen.raced
      /\ seen'.rendered = seen.rendered
      /\ seen'.lost[c] = seen.lost[c] \cup {m} /\ seen'.during[c] = seen.during[c] \cup {m}
      /\ \A d \in Clients : d # c => seen'.lost[d] = seen.lost[d] /\ seen'.during[d] = seen.during[d]
  <2>1. /\ seen \in Seen /\ seen.lost \in [Clients -> SUBSET Messages]
        /\ seen.during \in [Clients -> SUBSET Messages]
    BY DEF IInv, TypeInv, TypeOK, Seen
  <2>2. PICK lost, during : /\ lost = [seen.lost EXCEPT ![c] = @ \cup {m}]
                            /\ during = [seen.during EXCEPT ![c] = @ \cup {m}]
    OBVIOUS
  <2>3. seen' = [seen EXCEPT !.lost = lost, !.during = during]
    BY <1>2, <2>1, <2>2 DEF Seen
  <2>4. /\ lost \in [Clients -> SUBSET Messages] /\ during \in [Clients -> SUBSET Messages]
        /\ lost[c] = seen.lost[c] \cup {m} /\ during[c] = seen.during[c] \cup {m}
        /\ \A d \in Clients : d # c => lost[d] = seen.lost[d] /\ during[d] = seen.during[d]
    BY <1>5, <2>1, <2>2
  <2>5. seen'.lost = lost /\ seen'.during = during /\ seen' \in Seen
    BY <2>1, <2>3, <2>4 DEF Seen
  <2> QED
    BY <2>1, <2>3, <2>4, <2>5 DEF Seen
<1>7. \A d \in Clients : \A q : Coming(d, q)' => Coming(d, q)
  BY <1>2, <1>4 DEF Coming
<1>8. \A q : Coming(c, q) => Coming(c, q)' \/ q = p
  BY <1>2, <1>4 DEF Coming
<1>9. Others(c)
  BY <1>2, <1>4, <1>6 DEF Others
<1>10. TypeInv'
  BY <1>2, <1>3, <1>4, <1>6 DEF IInv, TypeInv, TypeOK, server, rows
<1>11. MemberInv'
  BY <1>2, <1>6, <1>9, OutsideMembers DEF IInv, MemberInv
<1>12. GoneInv'
  BY <1>2, <1>6, <1>7 DEF IInv, GoneInv, server, rows
<1>13. NumberInv'
  BY <1>2, <1>4, <1>9, OutsideNumbers DEF IInv, NumberInv
<1>14. /\ TaskInv' /\ StoredInv' /\ EarlyInv' /\ DeletionInv' /\ RaceInv'
       /\ \A n : Telling(n)' <=> Telling(n)
       /\ \A n \in Messages : Crowded(n)' <=> Crowded(n)
  BY <1>2, <1>6, OutsideKeeps
<1>15. PageInv'
  <2>1. ASSUME Followed(c)' PROVE PageOf(c)'
    <3>1. Followed(c) /\ PageOf(c)
      BY <1>2, <2>1 DEF IInv, PageInv, Followed, server
    <3>2. \A r : OnItsWay(c, r)' => OnItsWay(c, r)
      BY <1>2, <1>4 DEF OnItsWay, server
    <3>3. \A n \in Messages :
              /\ Coming(c, Chat(n)) => Coming(c, Chat(n))' \/ n \in seen'.lost[c] \cap seen'.during[c]
              /\ Coming(c, Gone(n)) => Coming(c, Gone(n))' \/ n \in seen'.lost[c] \cap seen'.during[c]
      <4>1. m \in seen'.lost[c] \cap seen'.during[c]
        BY <1>6
      <4>2. \A n : /\ Coming(c, Chat(n)) => Coming(c, Chat(n))' \/ Chat(n) = p
                   /\ Coming(c, Gone(n)) => Coming(c, Gone(n))' \/ Gone(n) = p
        BY <1>8 DEF Chat, Gone
      <4> QED
        BY <1>5, <4>1, <4>2
    <3>4. /\ table' = table /\ screen'[c] = screen[c] /\ seen'.gone[c] = seen.gone[c]
          /\ seen.lost[c] \subseteq seen'.lost[c] /\ seen.during[c] \subseteq seen'.during[c]
          /\ (c \in seen'.rendered => c \in seen.rendered)
      BY <1>2, <1>6 DEF server, rows
    <3> QED
      BY <1>14, <3>1, <3>2, <3>3, <3>4, PageOfKept
  <2> QED
    BY <1>2, <1>6, <1>9, <2>1, OthersKept
<1> QED
  BY <1>10, <1>11, <1>12, <1>13, <1>14, <1>15 DEF IInv

\* A history comes to the request that waits for it, or is dropped.
LEMMA ReceiveHistoryKeeps ==
    ASSUME IInv, NEW c \in Clients, ReceiveHistory(c)
    PROVE  IInv'
<1>1. PICK h : h = Head(wire[c])
  OBVIOUS
<1>2. /\ UNCHANGED server /\ deaf' = deaf /\ events' = events
      /\ screen' = screen /\ page' = page /\ requests' = requests
      /\ changes' = changes /\ bounds' = bounds /\ seen' = seen
      /\ wire[c] # <<>> /\ h.type = "history" /\ Received(c)
      /\ pending' = [pending EXCEPT ![c] = @ \ {h.number}]
      /\ answer' = IF Awaited(c, h.number) THEN [answer EXCEPT ![c] = {h.rows}] ELSE answer
  BY <1>1 DEF ReceiveHistory, browser, limits
<1>3. /\ wire' \in [Clients -> Seq(Packet)] /\ \A d \in Clients : d # c => wire'[d] = wire[d]
      /\ \A q : Among(wire[c], q) <=> Among(wire'[c], q) \/ q = h
      /\ \A d \in Clients : \A q : Among(wire'[d], q) => Among(wire[d], q)
      /\ h \in Packet
  BY <1>1, <1>2, FirstOfWire
<1>4. h.number \in Nat /\ h.rows \in SUBSET Messages /\ h = Hist(h.number, h.rows)
  BY <1>2, <1>3, PacketKinds
<1>5. /\ answer' \in [Clients -> SUBSET SUBSET Messages]
      /\ \A d \in Clients : d # c => answer'[d] = answer[d]
      /\ answer'[c] = answer[c]
         \/ (answer'[c] = {h.rows} /\ page[c] = "waiting" /\ h.number = requests[c])
  BY <1>2, <1>4 DEF IInv, TypeInv, TypeOK, Awaited
<1>6. pending' \in [Clients -> SUBSET Nat]
  BY <1>2 DEF IInv, TypeInv, TypeOK
<1>7. \A m : Chat(m) # h /\ Gone(m) # h
  BY <1>2, PacketsDiffer
<1>8. \A d \in Clients : \A q : Coming(d, q)' => Coming(d, q)
  BY <1>2, <1>3 DEF Coming
<1>9. \A m : /\ Coming(c, Chat(m)) => Coming(c, Chat(m))'
             /\ Coming(c, Gone(m)) => Coming(c, Gone(m))'
  BY <1>2, <1>3, <1>7 DEF Coming, Chat, Gone
<1>10. Others(c)
  BY <1>2, <1>3, <1>5 DEF Others
<1>11. TypeInv'
  BY <1>2, <1>3, <1>5, <1>6 DEF IInv, TypeInv, TypeOK, server, rows
<1>12. MemberInv'
  BY <1>2, <1>10, OutsideMembers DEF IInv, MemberInv
<1>13. GoneInv'
  BY <1>2, <1>8 DEF IInv, GoneInv, server, rows
<1>14. NumberInv'
  BY <1>2, <1>3, <1>5, <1>10, OutsideNumbers DEF IInv, NumberInv
<1>15. /\ TaskInv' /\ StoredInv' /\ EarlyInv' /\ DeletionInv' /\ RaceInv'
       /\ \A m : Telling(m)' <=> Telling(m)
       /\ \A m \in Messages : Crowded(m)' <=> Crowded(m)
  BY <1>2, OutsideKeeps
<1>16. PageInv'
  <2>1. ASSUME Followed(c)' PROVE PageOf(c)'
    <3>1. Followed(c) /\ PageOf(c)
      BY <1>2, <2>1 DEF IInv, PageInv, Followed, server
    <3>2. ASSUME NEW r, OnItsWay(c, r)' PROVE OnItsWay(c, r)
      <4>1. CASE r \in answer'[c] /\ answer'[c] # answer[c]
        <5>1. r = h.rows /\ page[c] = "waiting" /\ h.number = requests[c]
          BY <1>5, <4>1
        <5>2. Among(wire[c], Hist(requests[c], r))
          BY <1>3, <1>4, <5>1
        <5> QED
          BY <5>1, <5>2 DEF OnItsWay
      <4>2. CASE r \notin answer'[c] \/ answer'[c] = answer[c]
        BY <1>2, <1>3, <3>2, <4>2 DEF OnItsWay, server
      <4> QED
        BY <4>1, <4>2
    <3>3. /\ table' = table /\ screen'[c] = screen[c] /\ seen' = seen
      BY <1>2 DEF server, rows
    <3> QED
      BY <1>9, <1>15, <3>1, <3>2, <3>3, PageOfKept
  <2> QED
    BY <1>2, <1>10, <2>1, OthersKept
<1> QED
  BY <1>11, <1>12, <1>13, <1>14, <1>15, <1>16 DEF IInv

\* The receiver ends, and its page is followed no longer.
LEMMA ReceiverEndsKeeps ==
    ASSUME IInv, NEW c \in Clients, ReceiverEnds(c)
    PROVE  IInv'
<1>1. /\ UNCHANGED server /\ pending' = pending /\ events' = events /\ answer' = answer
      /\ screen' = screen /\ page' = page /\ requests' = requests
      /\ changes' = changes /\ bounds' = bounds /\ seen' = seen
      /\ deaf' = deaf \cup {c} /\ wire' = [wire EXCEPT ![c] = <<>>]
  BY DEF ReceiverEnds, browser, limits
<1>2. /\ wire' \in [Clients -> Seq(Packet)] /\ wire'[c] = <<>>
      /\ \A d \in Clients : d # c => wire'[d] = wire[d]
  <2>1. <<>> \in Seq(Packet)
    OBVIOUS
  <2> QED
    BY <1>1, <2>1 DEF IInv, TypeInv
<1>3. \A d \in Clients : \A q : Among(wire'[d], q) => Among(wire[d], q)
  BY <1>2 DEF Among
<1>4. \A d \in Clients : \A q : Coming(d, q)' => Coming(d, q)
  BY <1>1, <1>3 DEF Coming
<1>5. Others(c)
  BY <1>1, <1>2 DEF Others
<1>6. TypeInv'
  BY <1>1, <1>2 DEF IInv, TypeInv, TypeOK, server, rows
<1>7. MemberInv'
  BY <1>1, <1>5, OutsideMembers DEF IInv, MemberInv
<1>8. GoneInv'
  BY <1>1, <1>4 DEF IInv, GoneInv, server, rows
<1>9. NumberInv'
  BY <1>1, <1>3, <1>5, OutsideNumbers DEF IInv, NumberInv
<1>10. TaskInv' /\ StoredInv' /\ EarlyInv' /\ DeletionInv' /\ RaceInv'
  BY <1>1, OutsideKeeps
<1>11. PageInv'
  BY <1>1, <1>5, OthersKept DEF Followed
<1> QED
  BY <1>6, <1>7, <1>8, <1>9, <1>10, <1>11 DEF IInv

\* The page is entered by a member.
LEMMA EnterKeeps ==
    ASSUME IInv, NEW c \in Clients, Enter(c)
    PROVE  IInv'
<1>1. /\ UNCHANGED server /\ wire' = wire /\ pending' = pending /\ deaf' = deaf
      /\ events' = events /\ answer' = answer /\ screen' = screen /\ requests' = requests
      /\ changes' = changes /\ bounds' = bounds /\ seen' = seen
      /\ c \in members /\ page[c] = "out" /\ page' = [page EXCEPT ![c] = "in"]
  BY DEF Enter, bridge, limits
<1>2. /\ page' \in [Clients -> {"out", "in", "waiting"}] /\ page'[c] = "in"
      /\ \A d \in Clients : d # c => page'[d] = page[d]
  BY <1>1 DEF IInv, TypeInv, TypeOK
<1>3. Others(c)
  BY <1>1, <1>2 DEF Others
<1>4. TypeInv'
  BY <1>1, <1>2 DEF IInv, TypeInv, TypeOK, server, rows
<1>5. c \notin seen.rendered /\ answer[c] = {}
  BY <1>1 DEF IInv, MemberInv, NumberInv
<1>6. MemberInv'
  BY <1>1, <1>2, <1>3, <1>5, OutsideMembers
<1>7. GoneInv'
  BY <1>1 DEF IInv, GoneInv, Coming, server, rows
<1>8. NumberInv'
  BY <1>1, <1>3, <1>5, OutsideNumbers
<1>9. TaskInv' /\ StoredInv' /\ EarlyInv' /\ DeletionInv' /\ RaceInv'
  BY <1>1, OutsideKeeps
<1>10. PageInv'
  <2>1. \A r : ~OnItsWay(c, r)'
    BY <1>1, <1>2, <1>5 DEF OnItsWay
  <2>2. PageOf(c)'
    BY <1>1, <1>5, <2>1 DEF PageOf
  <2> QED
    BY <1>1, <1>3, <2>2, OthersKept
<1> QED
  BY <1>4, <1>6, <1>7, <1>8, <1>9, <1>10 DEF IInv

\* A history is requested: no answer of an earlier request has its number.
LEMMA RequestHistoryKeeps ==
    ASSUME IInv, NEW c \in Clients, RequestHistory(c)
    PROVE  IInv'
<1>1. /\ UNCHANGED server /\ wire' = wire /\ deaf' = deaf /\ events' = events /\ answer' = answer
      /\ changes' = changes /\ bounds' = bounds
      /\ c \in bounds.pages /\ requests[c] < bounds.requests
      /\ page[c] = "in" /\ page' = [page EXCEPT ![c] = "waiting"]
      /\ requests' = [requests EXCEPT ![c] = @ + 1]
      /\ pending' = [pending EXCEPT ![c] = @ \cup {requests[c] + 1}]
      /\ screen' = IF requests[c] = 0 THEN [screen EXCEPT ![c] = {}] ELSE screen
      /\ seen' = [seen EXCEPT !.during[c] = {}]
  BY DEF RequestHistory, limits
<1>2. bounds.requests \in Nat /\ requests \in [Clients -> 0..bounds.requests] /\ requests[c] \in Nat
  BY RoomAssumption DEF IInv, TypeInv, TypeOK
<1>3. /\ page' \in [Clients -> {"out", "in", "waiting"}] /\ page'[c] = "waiting"
      /\ \A d \in Clients : d # c => page'[d] = page[d]
  BY <1>1 DEF IInv, TypeInv, TypeOK
<1>4. /\ requests' \in [Clients -> 0..bounds.requests] /\ requests'[c] = requests[c] + 1
      /\ \A d \in Clients : d # c => requests'[d] = requests[d]
  BY <1>1, <1>2
<1>5. /\ screen' \in [Clients -> SUBSET (Messages \X {"history", "live"})]
      /\ requests[c] # 0 => screen'[c] = screen[c]
      /\ \A d \in Clients : d # c => screen'[d] = screen[d]
  BY <1>1 DEF IInv, TypeInv, TypeOK
<1>6. pending' \in [Clients -> SUBSET Nat]
  BY <1>1, <1>2 DEF IInv, TypeInv, TypeOK
<1>7. /\ seen' \in Seen
      /\ seen'.sent = seen.sent /\ seen'.gone = seen.gone /\ seen'.answered = seen.answered
      /\ seen'.early = seen.early /\ seen'.shown = seen.shown /\ seen'.raced = seen.raced
      /\ seen'.rendered = seen.rendered /\ seen'.lost = seen.lost
      /\ \A d \in Clients : d # c => seen'.during[d] = seen.during[d]
  <2>1. seen \in Seen /\ seen.during \in [Clients -> SUBSET Messages]
    BY DEF IInv, TypeInv, TypeOK, Seen
  <2>2. PICK during : during = [seen.during EXCEPT ![c] = {}]
    OBVIOUS
  <2>3. seen' = [seen EXCEPT !.during = during]
    BY <1>1, <2>1, <2>2 DEF Seen
  <2>4. /\ during \in [Clients -> SUBSET Messages]
        /\ \A d \in Clients : d # c => during[d] = seen.during[d]
    BY <2>1, <2>2
  <2> QED
    BY <2>1, <2>3, <2>4 DEF Seen
<1>8. Others(c)
  BY <1>1, <1>3, <1>4, <1>5, <1>7 DEF Others
<1>9. answer[c] = {}
  BY <1>1 DEF IInv, NumberInv
<1>10. TypeInv'
  BY <1>1, <1>3, <1>4, <1>5, <1>6, <1>7 DEF IInv, TypeInv, TypeOK, server, rows
<1>11. MemberInv'
  <2>1. c \in members /\ requests'[c] > 0
    BY <1>1, <1>2, <1>4 DEF IInv, MemberInv
  <2> QED
    BY <1>1, <1>3, <1>7, <1>8, <2>1, OutsideMembers
<1>12. GoneInv'
  BY <1>1, <1>7 DEF IInv, GoneInv, Coming, server, rows
<1>13. NumberInv'
  BY <1>1, <1>3, <1>4, <1>8, OutsideNumbers
<1>14. /\ TaskInv' /\ StoredInv' /\ EarlyInv' /\ DeletionInv' /\ RaceInv'
       /\ \A m : Telling(m)' <=> Telling(m)
       /\ \A m \in Messages : Crowded(m)' <=> Crowded(m)
  BY <1>1, <1>7, OutsideKeeps
<1>15. ASSUME NEW r \in SUBSET Messages PROVE ~OnItsWay(c, r)'
  <2>1. PICK n : n = requests[c] + 1
    OBVIOUS
  <2>2. served[c] \in Nat /\ served[c] <= requests[c] /\ n \in Nat /\ ~(n <= served[c])
    BY <1>2, <2>1 DEF IInv, TypeInv, TypeOK, NumberInv
  <2>3. ~Among(wire[c], Hist(n, r))
    BY <2>2 DEF IInv, NumberInv
  <2>4. task[c].do = "answer" => task[c].number # n
    BY <2>2 DEF IInv, NumberInv
  <2> QED
    BY <1>1, <1>4, <1>9, <2>1, <2>3, <2>4 DEF OnItsWay, server
<1>16. PageInv'
  <2>1. ASSUME Followed(c)', c \in seen.rendered
        PROVE  Current(c, Shown(c), FromHistory(c), seen.lost[c])'
    <3>1. PageOf(c) /\ requests[c] # 0
      BY <1>1, <1>2, <2>1 DEF IInv, PageInv, MemberInv, Followed, server
    <3>2. Shown(c)' = Shown(c) /\ FromHistory(c)' = FromHistory(c)
      BY <1>5, <3>1 DEF Shown, FromHistory
    <3>3. Current(c, Shown(c), FromHistory(c), seen.lost[c])
      BY <2>1, <3>1 DEF PageOf
    <3>4. \A q : Coming(c, q)' <=> Coming(c, q)
      BY <1>1 DEF Coming
    <3> QED
      BY <1>1, <1>7, <1>14, <3>2, <3>3, <3>4 DEF Current, server, rows
  <2>2. Followed(c)' => PageOf(c)'
    BY <1>7, <1>15, <2>1 DEF PageOf
  <2> QED
    BY <1>1, <1>7, <1>8, <2>2, OthersKept
<1> QED
  BY <1>10, <1>11, <1>12, <1>13, <1>14, <1>16 DEF IInv

\* A request fails, and its history is one no more that the page waits for.
LEMMA GiveUpKeeps ==
    ASSUME IInv, NEW c \in Clients, GiveUp(c)
    PROVE  IInv'
<1>1. /\ UNCHANGED server /\ wire' = wire /\ pending' = pending /\ deaf' = deaf
      /\ events' = events /\ answer' = answer /\ screen' = screen /\ requests' = requests
      /\ changes' = changes /\ bounds' = bounds /\ seen' = seen
      /\ page[c] = "waiting" /\ answer[c] = {} /\ page' = [page EXCEPT ![c] = "in"]
  BY DEF GiveUp, bridge, limits
<1>2. /\ page' \in [Clients -> {"out", "in", "waiting"}] /\ page'[c] = "in"
      /\ \A d \in Clients : d # c => page'[d] = page[d]
  BY <1>1 DEF IInv, TypeInv, TypeOK
<1>3. Others(c)
  BY <1>1, <1>2 DEF Others
<1>4. TypeInv'
  BY <1>1, <1>2 DEF IInv, TypeInv, TypeOK, server, rows
<1>5. MemberInv'
  BY <1>1, <1>2, <1>3, OutsideMembers DEF IInv, MemberInv
<1>6. GoneInv'
  BY <1>1 DEF IInv, GoneInv, Coming, server, rows
<1>7. NumberInv'
  BY <1>1, <1>3, OutsideNumbers
<1>8. /\ TaskInv' /\ StoredInv' /\ EarlyInv' /\ DeletionInv' /\ RaceInv'
      /\ \A m : Telling(m)' <=> Telling(m)
      /\ \A m \in Messages : Crowded(m)' <=> Crowded(m)
  BY <1>1, OutsideKeeps
<1>9. PageInv'
  <2>1. ASSUME Followed(c)' PROVE PageOf(c)'
    <3>1. PageOf(c)
      BY <1>1, <2>1 DEF IInv, PageInv, Followed, server
    <3>2. \A r : ~OnItsWay(c, r)'
      BY <1>1, <1>2 DEF OnItsWay
    <3>3. \A q : Coming(c, q)' <=> Coming(c, q)
      BY <1>1 DEF Coming
    <3> QED
      BY <1>1, <1>8, <3>1, <3>2, <3>3, PageOfKept DEF server, rows
  <2> QED
    BY <1>1, <1>3, <2>1, OthersKept
<1> QED
  BY <1>4, <1>5, <1>6, <1>7, <1>8, <1>9 DEF IInv

\* What an event does to the page of the room.
LEMMA ApplyEffect ==
    ASSUME NEW c \in Clients, NEW p \in Event, page[c] # "out", screen'[c] = Apply(c, p)
    PROVE  /\ p.type = "chat" => /\ Shown(c)' = Shown(c) \cup {p.message}
                                 /\ FromHistory(c)' = FromHistory(c)
           /\ p.type = "gone" => /\ Shown(c) \ {p.message} \subseteq Shown(c)'
                                 /\ FromHistory(c)' = FromHistory(c) \ {p.message}
<1>1. p.message \in Messages
  BY PacketKinds
<1>2. ASSUME p.type = "chat"
      PROVE  Shown(c)' = Shown(c) \cup {p.message} /\ FromHistory(c)' = FromHistory(c)
  <2>1. screen'[c] = screen[c] \cup {<<p.message, "live">>}
    BY <1>2 DEF Apply
  <2>2. \A m \in Messages : /\ <<m, "history">> \in screen'[c] <=> <<m, "history">> \in screen[c]
                            /\ <<m, "live">> \in screen'[c] <=> <<m, "live">> \in screen[c] \/ m = p.message
    BY <2>1
  <2>3. FromHistory(c)' = FromHistory(c)
    BY <2>2 DEF FromHistory
  <2>4. \A m \in Messages : m \in Shown(c)' <=> m \in Shown(c) \/ m = p.message
    BY <2>2 DEF Shown
  <2> QED
    BY <1>1, <2>3, <2>4 DEF Shown
<1>3. ASSUME p.type = "gone"
      PROVE  Shown(c) \ {p.message} \subseteq Shown(c)' /\ FromHistory(c)' = FromHistory(c) \ {p.message}
  <2>1. screen'[c] = screen[c] \ {<<p.message, "history">>}
    BY <1>3 DEF Apply
  <2>2. \A m \in Messages : /\ <<m, "history">> \in screen'[c] <=> <<m, "history">> \in screen[c] /\ m # p.message
                            /\ <<m, "live">> \in screen'[c] <=> <<m, "live">> \in screen[c]
    BY <2>1
  <2>3. FromHistory(c)' = FromHistory(c) \ {p.message}
    BY <2>2 DEF FromHistory
  <2>4. \A m \in Messages : m \in Shown(c) /\ m # p.message => m \in Shown(c)'
    BY <2>2 DEF Shown
  <2>5. Shown(c) \subseteq Messages
    BY DEF Shown
  <2> QED
    BY <2>3, <2>4, <2>5
<1> QED
  BY <1>2, <1>3

\* A page that handles an event stays current: what the event brings it shows now,
\* and what the event takes is gone from it.
LEMMA AppliedIsCurrent ==
    ASSUME IInv, UNCHANGED server, seen'.gone = seen.gone, NEW c \in Clients, NEW p \in Event,
           page[c] # "out", screen'[c] = Apply(c, p), Coming(c, p),
           \A q : Coming(c, q) => Coming(c, q)' \/ q = p,
           NEW spare, Current(c, Shown(c), FromHistory(c), spare)
    PROVE  Current(c, Shown(c), FromHistory(c), spare)'
<1>1. /\ p.message \in Messages /\ p.type \in {"chat", "gone"}
      /\ p.type = "chat" => p = Chat(p.message)
      /\ p.type = "gone" => p = Gone(p.message)
  BY PacketKinds
<1>2. /\ table' = table /\ \A m : Telling(m)' <=> Telling(m)
      /\ \A m \in Messages : Crowded(m)' <=> Crowded(m)
  BY DEF server, rows, Telling, At, Crowded
<1>3. ASSUME NEW m \in Messages \ spare, table[m] = "stored", ~Telling(m), ~Crowded(m)
      PROVE  m \in Shown(c)' \/ Coming(c, Chat(m))'
  <2>1. m \in Shown(c) \/ Coming(c, Chat(m))
    BY <1>3 DEF Current
  <2>2. Coming(c, Chat(m)) => Coming(c, Chat(m))' \/ Chat(m) = p
    OBVIOUS
  <2>3. CASE p.type = "chat"
    <3>1. Shown(c)' = Shown(c) \cup {p.message}
      BY <2>3, ApplyEffect
    <3>2. Chat(m) = p => m = p.message
      BY PacketsDiffer
    <3> QED
      BY <2>1, <2>2, <3>1, <3>2
  <2>4. CASE p.type = "gone"
    <3>1. Shown(c) \ {p.message} \subseteq Shown(c)'
      BY <2>4, ApplyEffect
    <3>2. Chat(m) # p
      BY <2>4, PacketsDiffer
    <3>3. Coming(c, Gone(p.message))
      BY <1>1, <2>4
    <3>4. table[p.message] = "deleted"
      BY <1>1, <3>3 DEF IInv, GoneInv
    <3> QED
      BY <1>3, <2>1, <2>2, <3>1, <3>2, <3>4
  <2> QED
    BY <1>1, <2>3, <2>4
<1>4. ASSUME NEW m \in Messages \ spare, m \in seen.gone[c], m \in FromHistory(c)'
      PROVE  Coming(c, Gone(m))'
  <2>1. m \in FromHistory(c) /\ p # Gone(m)
    <3>1. CASE p.type = "chat"
      <4>1. FromHistory(c)' = FromHistory(c) /\ p # Gone(m)
        BY <3>1, ApplyEffect, PacketsDiffer
      <4> QED
        BY <1>4, <4>1
    <3>2. CASE p.type = "gone"
      <4>1. FromHistory(c)' = FromHistory(c) \ {p.message} /\ (p = Gone(m) => p.message = m)
        BY <3>2, ApplyEffect, PacketsDiffer
      <4> QED
        BY <1>4, <4>1
    <3> QED
      BY <1>1, <3>1, <3>2
  <2>2. Coming(c, Gone(m))
    BY <1>4, <2>1 DEF Current
  <2> QED
    BY <2>1, <2>2
<1> QED
  BY <1>2, <1>3, <1>4 DEF Current

\* An event is handled.  A history that the page waits for makes nothing of it.
LEMMA HandleEventKeeps ==
    ASSUME IInv, NEW c \in Clients, HandleEvent(c)
    PROVE  IInv'
<1>1. PICK p, m : p = Head(events[c]) /\ m = p.message
  OBVIOUS
<1>2. /\ UNCHANGED server /\ wire' = wire /\ pending' = pending /\ deaf' = deaf
      /\ answer' = answer /\ page' = page /\ requests' = requests
      /\ changes' = changes /\ bounds' = bounds
      /\ screen' = [screen EXCEPT ![c] = Apply(c, p)]
      /\ events[c] # <<>> /\ events' = [events EXCEPT ![c] = Tail(@)]
      /\ seen' = IF page[c] = "waiting" THEN [seen EXCEPT !.during[c] = @ \cup {m}] ELSE seen
  BY <1>1 DEF HandleEvent, limits
<1>3. /\ events' \in [Clients -> Seq(Event)] /\ p \in Event
      /\ \A d \in Clients : d # c => events'[d] = events[d]
      /\ \A q : Among(events[c], q) <=> Among(events'[c], q) \/ q = p
  <2>1. events \in [Clients -> Seq(Event)] /\ events[c] \in Seq(Event)
    BY DEF IInv, TypeInv
  <2>2. /\ Tail(events[c]) \in Seq(Event) /\ p \in Event
        /\ \A q : Among(events[c], q) <=> Among(Tail(events[c]), q) \/ q = p
    BY <1>1, <1>2, <2>1, AmongTail
  <2> QED
    BY <1>2, <2>1, <2>2
<1>4. /\ \A d \in Clients : \A q : Coming(d, q)' => Coming(d, q)
      /\ \A q : Coming(c, q) => Coming(c, q)' \/ q = p
      /\ Coming(c, p)
  <2>1. \A q : Coming(c, q) <=> Coming(c, q)' \/ q = p
    BY <1>2, <1>3 DEF Coming
  <2>2. \A d \in Clients : d # c => \A q : Coming(d, q)' => Coming(d, q)
    BY <1>2, <1>3 DEF Coming
  <2> QED
    BY <2>1, <2>2
<1>5. m \in Messages /\ \A n : (Chat(n) = p => n = m) /\ (Gone(n) = p => n = m)
  BY <1>1, <1>3, PacketKinds, PacketsDiffer
<1>6. /\ seen' \in Seen
      /\ seen'.sent = seen.sent /\ seen'.gone = seen.gone /\ seen'.answered = seen.answered
      /\ seen'.early = seen.early /\ seen'.shown = seen.shown /\ seen'.raced = seen.raced
      /\ seen'.rendered = seen.rendered /\ seen'.lost = seen.lost
      /\ seen'.during[c] = IF page[c] = "waiting" THEN seen.during[c] \cup {m} ELSE seen.during[c]
      /\ \A d \in Clients : d # c => seen'.during[d] = seen.during[d]
  <2>1. seen \in Seen /\ seen.during \in [Clients -> SUBSET Messages]
    BY DEF IInv, TypeInv, TypeOK, Seen
  <2>2. PICK during : during = IF page[c] = "waiting" THEN [seen.during EXCEPT ![c] = @ \cup {m}] ELSE seen.during
    OBVIOUS
  <2>3. seen' = [seen EXCEPT !.during = during]
    BY <1>2, <2>1, <2>2 DEF Seen
  <2>4. /\ during \in [Clients -> SUBSET Messages]
        /\ during[c] = IF page[c] = "waiting" THEN seen.during[c] \cup {m} ELSE seen.during[c]
        /\ \A d \in Clients : d # c => during[d] = seen.during[d]
    BY <1>5, <2>1, <2>2
  <2> QED
    BY <2>1, <2>3, <2>4 DEF Seen
<1>7. /\ screen' \in [Clients -> SUBSET (Messages \X {"history", "live"})]
      /\ screen'[c] = Apply(c, p) /\ \A d \in Clients : d # c => screen'[d] = screen[d]
  <2>1. screen \in [Clients -> SUBSET (Messages \X {"history", "live"})]
    BY DEF IInv, TypeInv, TypeOK
  <2>2. Apply(c, p) \in SUBSET (Messages \X {"history", "live"})
    BY <1>1, <1>5, <2>1 DEF Apply
  <2> QED
    BY <1>2, <2>1, <2>2
<1>8. Others(c)
  BY <1>2, <1>3, <1>6, <1>7 DEF Others
<1>9. TypeInv'
  BY <1>2, <1>3, <1>6, <1>7 DEF IInv, TypeInv, TypeOK, server, rows
<1>10. MemberInv'
  BY <1>2, <1>6, <1>8, OutsideMembers DEF IInv, MemberInv
<1>11. GoneInv'
  BY <1>2, <1>4, <1>6 DEF IInv, GoneInv, server, rows
<1>12. NumberInv'
  BY <1>2, <1>8, OutsideNumbers DEF IInv, NumberInv
<1>13. /\ TaskInv' /\ StoredInv' /\ EarlyInv' /\ DeletionInv' /\ RaceInv'
       /\ \A n : Telling(n)' <=> Telling(n)
       /\ \A n \in Messages : Crowded(n)' <=> Crowded(n)
  BY <1>2, <1>6, OutsideKeeps
<1>14. PageInv'
  <2>1. ASSUME Followed(c)' PROVE PageOf(c)'
    <3>1. PageOf(c)
      BY <1>2, <2>1 DEF IInv, PageInv, Followed, server
    <3>2. ASSUME c \in seen.rendered PROVE Current(c, Shown(c), FromHistory(c), seen.lost[c])'
      <4>1. Current(c, Shown(c), FromHistory(c), seen.lost[c]) /\ page[c] # "out"
        BY <3>1, <3>2 DEF PageOf, IInv, MemberInv
      <4>2. PICK spare : spare = seen.lost[c]
        OBVIOUS
      <4>3. Current(c, Shown(c), FromHistory(c), spare)'
        BY <1>2, <1>3, <1>4, <1>6, <1>7, <4>1, <4>2, AppliedIsCurrent
      <4> QED
        BY <1>6, <4>2, <4>3
    <3>3. ASSUME NEW r \in SUBSET Messages, OnItsWay(c, r)' PROVE Current(c, r, r, seen.during[c])'
      <4>1. OnItsWay(c, r) /\ page[c] = "waiting"
        BY <1>2, <3>3 DEF OnItsWay, server, IInv, NumberInv
      <4>2. Current(c, r, r, seen.during[c]) /\ seen'.during[c] = seen.during[c] \cup {m}
        BY <1>6, <3>1, <4>1 DEF PageOf
      <4>3. \A n \in Messages : n # m =>
                /\ Coming(c, Chat(n)) => Coming(c, Chat(n))'
                /\ Coming(c, Gone(n)) => Coming(c, Gone(n))'
        BY <1>4, <1>5
      <4> QED
        BY <1>2, <1>6, <1>13, <4>2, <4>3 DEF Current, server, rows
    <3> QED
      BY <1>6, <3>2, <3>3 DEF PageOf
  <2> QED
    BY <1>2, <1>6, <1>8, <2>1, OthersKept
<1> QED
  BY <1>9, <1>10, <1>11, <1>12, <1>13, <1>14 DEF IInv

\* The history is shown.
LEMMA ShowHistoryKeeps ==
    ASSUME IInv, NEW c \in Clients, ShowHistory(c)
    PROVE  IInv'
<1>1. PICK some \in answer[c] : screen' = [screen EXCEPT ![c] = some \X {"history"}]
  BY DEF ShowHistory
<1>2. /\ UNCHANGED server /\ wire' = wire /\ pending' = pending /\ deaf' = deaf
      /\ events' = events /\ requests' = requests /\ changes' = changes /\ bounds' = bounds
      /\ answer' = [answer EXCEPT ![c] = {}] /\ page' = [page EXCEPT ![c] = "in"]
      /\ seen' = [seen EXCEPT !.lost[c] = seen.during[c], !.rendered = @ \cup {c}]
  BY DEF ShowHistory, limits
<1>3. some \subseteq Messages /\ page[c] = "waiting"
  BY DEF IInv, TypeInv, TypeOK, NumberInv
<1>4. /\ screen' \in [Clients -> SUBSET (Messages \X {"history", "live"})]
      /\ screen'[c] = some \X {"history"} /\ \A d \in Clients : d # c => screen'[d] = screen[d]
  <2>1. some \X {"history"} \in SUBSET (Messages \X {"history", "live"})
    BY <1>3
  <2> QED
    BY <1>1, <2>1 DEF IInv, TypeInv, TypeOK
<1>5. /\ page' \in [Clients -> {"out", "in", "waiting"}] /\ page'[c] = "in"
      /\ answer' \in [Clients -> SUBSET SUBSET Messages] /\ answer'[c] = {}
      /\ \A d \in Clients : d # c => page'[d] = page[d] /\ answer'[d] = answer[d]
  BY <1>2 DEF IInv, TypeInv, TypeOK
<1>6. /\ seen' \in Seen
      /\ seen'.sent = seen.sent /\ seen'.gone = seen.gone /\ seen'.answered = seen.answered
      /\ seen'.early = seen.early /\ seen'.shown = seen.shown /\ seen'.raced = seen.raced
      /\ seen'.rendered = seen.rendered \cup {c} /\ seen'.during = seen.during
      /\ seen'.lost[c] = seen.during[c]
      /\ \A d \in Clients : d # c => seen'.lost[d] = seen.lost[d]
  <2>1. /\ seen \in Seen /\ seen.lost \in [Clients -> SUBSET Messages]
        /\ seen.during \in [Clients -> SUBSET Messages] /\ seen.rendered \in SUBSET Clients
    BY DEF IInv, TypeInv, TypeOK, Seen
  <2>2. PICK lost : lost = [seen.lost EXCEPT ![c] = seen.during[c]]
    OBVIOUS
  <2>3. seen' = [seen EXCEPT !.lost = lost, !.rendered = @ \cup {c}]
    BY <1>2, <2>1, <2>2 DEF Seen
  <2>4. /\ lost \in [Clients -> SUBSET Messages] /\ lost[c] = seen.during[c]
        /\ \A d \in Clients : d # c => lost[d] = seen.lost[d]
    BY <2>1, <2>2
  <2> QED
    BY <2>1, <2>3, <2>4 DEF Seen
<1>7. Others(c)
  BY <1>2, <1>4, <1>5, <1>6 DEF Others
<1>8. \A d \in Clients : \A q : Coming(d, q)' <=> Coming(d, q)
  BY <1>2 DEF Coming
<1>9. TypeInv'
  BY <1>2, <1>4, <1>5, <1>6 DEF IInv, TypeInv, TypeOK, server, rows
<1>10. MemberInv'
  <2>1. c \in members /\ c \in bounds.pages /\ requests'[c] > 0
    BY <1>2, <1>3 DEF IInv, MemberInv
  <2> QED
    BY <1>2, <1>5, <1>6, <1>7, <2>1, OutsideMembers
<1>11. GoneInv'
  BY <1>2, <1>6, <1>8 DEF IInv, GoneInv, server, rows
<1>12. NumberInv'
  BY <1>2, <1>5, <1>7, OutsideNumbers
<1>13. /\ TaskInv' /\ StoredInv' /\ EarlyInv' /\ DeletionInv' /\ RaceInv'
       /\ \A m : Telling(m)' <=> Telling(m)
       /\ \A m \in Messages : Crowded(m)' <=> Crowded(m)
  BY <1>2, <1>6, OutsideKeeps
<1>14. PageInv'
  <2>1. Shown(c)' = some /\ FromHistory(c)' = some
    <3>1. \A m : /\ <<m, "history">> \in screen'[c] <=> m \in some
                 /\ <<m, "live">> \notin screen'[c]
      BY <1>4
    <3> QED
      BY <1>3, <3>1 DEF Shown, FromHistory
  <2>2. ASSUME Followed(c)' PROVE PageOf(c)'
    <3>1. Current(c, some, some, seen.during[c])
      BY <1>2, <1>3, <2>2 DEF IInv, PageInv, PageOf, OnItsWay, Followed, server
    <3>2. Current(c, Shown(c), FromHistory(c), seen.lost[c])'
      BY <1>2, <1>6, <1>8, <1>13, <2>1, <3>1 DEF Current, server, rows
    <3>3. \A r : ~OnItsWay(c, r)'
      BY <1>5 DEF OnItsWay
    <3> QED
      BY <3>2, <3>3 DEF PageOf
  <2> QED
    BY <1>2, <1>6, <1>7, <2>2, OthersKept
<1> QED
  BY <1>9, <1>10, <1>11, <1>12, <1>13, <1>14 DEF IInv

-----------------------------------------------------------------------------
(* The theorems *)

\* An empty room with nobody at work satisfies the invariant.
LEMMA InitIInv == Init => IInv
<1> SUFFICES ASSUME Init PROVE IInv
  OBVIOUS
<1>1. bounds.requests \in Nat /\ bounds.changes \in Nat
  BY RoomAssumption DEF Init
<1>2. Idle \in Tasks /\ Idle.do = "idle" /\ <<>> \in Seq(Packet) /\ <<>> \in Seq(Event)
  BY TaskValues
<1>3. /\ table = [m \in Messages |-> "none"] /\ reactions = [m \in Messages |-> {}] /\ notes = 0
      /\ members = {} /\ task = [c \in Clients |-> Idle] /\ served = [c \in Clients |-> 0]
      /\ wire = [c \in Clients |-> <<>>] /\ events = [c \in Clients |-> <<>>]
      /\ pending = [c \in Clients |-> {}] /\ deaf = {} /\ answer = [c \in Clients |-> {}]
      /\ screen = [c \in Clients |-> {}] /\ page = [c \in Clients |-> "out"]
      /\ requests = [c \in Clients |-> 0] /\ changes = 0 /\ bounds \in Bounds
  BY DEF Init
<1>4. /\ seen \in Seen /\ seen.answered = {} /\ seen.rendered = {} /\ seen.raced = {}
      /\ \A c \in Clients : seen.sent[c] = {} /\ seen.gone[c] = {}
      /\ \A m \in Messages : seen.shown[m] = {}
  BY DEF Init, Seen
<1>5. TypeInv
  BY <1>1, <1>2, <1>3, <1>4 DEF TypeInv, TypeOK
<1>6. \A c \in Clients : task[c].do = "idle" /\ \A q : ~Among(wire[c], q) /\ ~Coming(c, q)
  BY <1>2, <1>3 DEF Among, Coming
<1>7. \A c \in Clients : Known(c) = {}
  BY <1>4, <1>6 DEF Known
<1>8. TaskInv /\ MemberInv /\ StoredInv /\ GoneInv /\ EarlyInv /\ DeletionInv
  BY <1>3, <1>4, <1>6, <1>7 DEF TaskInv, MemberInv, StoredInv, GoneInv, EarlyInv, DeletionInv, Telling, At
<1>9. RaceInv
  BY <1>3, <1>4, <1>6 DEF RaceInv, Reacting, At
<1>10. NumberInv
  BY <1>3, <1>6 DEF NumberInv
<1>11. PageInv
  BY <1>3 DEF PageInv, Followed
<1> QED
  BY <1>5, <1>8, <1>9, <1>10, <1>11 DEF IInv

\* Every step keeps the invariant.
LEMMA NextIInv == IInv /\ [Next]_vars => IInv'
<1> SUFFICES ASSUME IInv, [Next]_vars PROVE IInv'
  OBVIOUS
<1>1. CASE UNCHANGED vars
  <2>1. /\ table' = table /\ notes' = notes /\ reactions' = reactions /\ members' = members
        /\ task' = task /\ served' = served /\ wire' = wire /\ pending' = pending /\ deaf' = deaf
        /\ events' = events /\ answer' = answer /\ screen' = screen /\ page' = page
        /\ requests' = requests /\ changes' = changes /\ bounds' = bounds /\ seen' = seen
    BY <1>1 DEF vars, server, rows, bridge, browser, limits
  <2>2. /\ \A m : Telling(m)' <=> Telling(m)
        /\ \A m \in Messages : Crowded(m)' <=> Crowded(m)
        /\ \A c \in Clients : Known(c)' = Known(c)
        /\ \A c \in Clients : \A q : Coming(c, q)' <=> Coming(c, q)
    BY <2>1 DEF Telling, At, Crowded, Known, Coming
  <2>3. TypeInv' /\ TaskInv' /\ MemberInv' /\ NumberInv'
    BY <2>1, <2>2 DEF IInv, TypeInv, TypeOK, TaskInv, MemberInv, NumberInv
  <2>4. StoredInv' /\ GoneInv' /\ EarlyInv' /\ DeletionInv'
    BY <2>1, <2>2 DEF IInv, StoredInv, GoneInv, EarlyInv, DeletionInv
  <2>5. RaceInv'
    BY <2>1 DEF IInv, RaceInv, Reacting, At
  <2>6. PageInv'
    <3>1. ASSUME NEW c \in Clients, Followed(c)' PROVE PageOf(c)'
      <4>1. PageOf(c) /\ \A r : OnItsWay(c, r)' => OnItsWay(c, r)
        BY <2>1, <3>1 DEF IInv, PageInv, Followed, OnItsWay
      <4> QED
        BY <2>1, <2>2, <4>1, PageOfKept
    <3> QED
      BY <3>1 DEF PageInv
  <2> QED
    BY <2>3, <2>4, <2>5, <2>6 DEF IInv
<1>2. ASSUME NEW c \in Clients, Handler(c) PROVE IInv'
  BY <1>2, PostTellKeeps, DeleteMarkKeeps, DeleteTellKeeps, ReactCountKeeps, ReactTellKeeps,
     HistoryKeeps, HistoryTellKeeps, PostKeeps, ReactKeeps, DeleteFileKeeps DEF Handler
<1>3. ASSUME NEW c \in Clients, Receiver(c) PROVE IInv'
  BY <1>3, ReceiveEventKeeps, TakenForAnswerKeeps, ReceiveHistoryKeeps, ReceiverEndsKeeps DEF Receiver
<1>4. ASSUME NEW c \in Clients, Browser(c) PROVE IInv'
  BY <1>4, EnterKeeps, RequestHistoryKeeps, GiveUpKeeps, HandleEventKeeps, ShowHistoryKeeps DEF Browser
<1> QED
  BY <1>1, <1>2, <1>3, <1>4, JoinKeeps DEF Next

\* The invariant: what is on its way makes up for what a page does not show yet.
THEOREM Invariance == Spec => []IInv
BY InitIInv, NextIInv, PTL DEF Spec

\* Nobody who was sent a history misses a message that was told of, in any room
\* and with any limit, but for those the limit may have cut off: the row is
\* committed before the broadcast, and the join before the history.
THEOREM MissedTheorem == Spec => []NothingMissed
<1>1. IInv => NothingMissed
  <2>1. ASSUME IInv, NEW c \in seen.answered, NEW m \in Stored
        PROVE  m \in seen.sent[c] \/ Under({"tell"}, m) \/ Crowded(m)
    <3>1. c \in Clients /\ m \in Messages /\ table[m] = "stored"
      BY <2>1 DEF IInv, TypeInv, TypeOK, Seen, Stored
    <3>2. m \in seen.sent[c] \/ Telling(m) \/ Crowded(m)
      BY <2>1, <3>1 DEF IInv, StoredInv
    <3> QED
      BY <3>2 DEF Telling, At, Under
  <2> QED
    BY <2>1 DEF IInv, TypeInv, NothingMissed
<1> QED
  BY <1>1, Invariance, PTL

\* A deletion that was broadcast reached every client that was sent the card.
THEOREM DeletionTheorem == Spec => []DeletionReachesAll
<1>1. IInv => DeletionReachesAll
  BY DEF IInv, DeletionInv, DeletionReachesAll, Known
<1> QED
  BY <1>1, Invariance, PTL

\* Without an overlap the room was told the reactions the table has.
THEOREM ReactionsTheorem == Spec => []ReactionsAgree
<1>1. IInv => ReactionsAgree
  BY DEF IInv, RaceInv, ReactionsAgree, Under, Reacting, At
<1> QED
  BY <1>1, Invariance, PTL

\* A page that has shown a history shows the room once nothing is on its way to
\* it, but for what it lost and what the limit may have cut off, whatever
\* requests have failed or been answered late in between.
THEOREM PageTheorem == Spec => []PageIsCurrent
<1>1. ASSUME IInv, NEW c \in seen.rendered \ deaf, wire[c] = <<>>, events[c] = <<>>,
             \A d \in Clients : task[d] = Idle, NEW m \in Messages \ seen.lost[c]
      PROVE  /\ m \in Stored => Crowded(m) \/ \E from \in {"history", "live"} : <<m, from>> \in screen[c]
             /\ table[m] = "deleted" /\ m \in seen.gone[c] => <<m, "history">> \notin screen[c]
  <2>1. c \in Clients /\ Followed(c)
    BY <1>1 DEF IInv, TypeInv, TypeOK, Seen, MemberInv, Followed
  <2>2. Current(c, Shown(c), FromHistory(c), seen.lost[c])
    BY <1>1, <2>1 DEF IInv, PageInv, PageOf
  <2>3. \A q : ~Coming(c, q)
    BY <1>1 DEF Coming, Among
  <2>4. \A d \in Clients : ~At(d, "tell", m)
    BY <1>1, TaskValues DEF At
  <2> QED
    BY <2>2, <2>3, <2>4 DEF Current, Shown, FromHistory, Stored, Telling
<1>2. IInv => PageIsCurrent
  BY <1>1 DEF PageIsCurrent
<1> QED
  BY <1>2, Invariance, PTL
=============================================================================
