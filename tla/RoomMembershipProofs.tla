------------------------- MODULE RoomMembershipProofs -------------------------
(***************************************************************************)
(* Proofs about RoomMembership, for every set of connections, rooms and    *)
(* users and every choice of uses, LEAVE_ROOM together with kicks and      *)
(* second authentications included.  That the sets of members and the client records agree is not *)
(* inductive by itself: the record is reset several statements after the   *)
(* member was discarded, and only the lock, or the fact that the thread    *)
(* that leaves without it is the connection's own, keeps the connection    *)
(* from joining in between.                                                *)
(***************************************************************************)
EXTENDS RoomMembership, TLAPS

\* The statements of _leave_room_logic.
LeaveLabels == {"check", "discard", "empty", "del", "reset"}

\* The connection is no member anywhere, unless it has authenticated again while
\* it was one.
InNoRoom(c) == "auth" \notin uses => \A r \in Rooms : c \notin rooms[r]

\* The handler a thread may run at each of its places, and what it is about:
\* only a kick is about another connection.
TasksAt(label) ==
    CASE label \in {"recv", "dead"}          -> {"none"}
      [] label \in {"join", "join_add"}      -> {"join"}
      [] label = "left"                      -> {"leave"}
      [] label \in LeaveLabels               -> {"join", "leave", "kick", "final"}
      [] label \in {"clean", "forget"}       -> {"kick", "final"}
      [] label \in {"notice", "close"}       -> {"kick"}
      [] label = "reply"                     -> {"join", "kicked"}
      [] label = "members"                   -> {"join", "leave", "kick", "kicked", "final"}
      [] OTHER                               -> {"join", "leave", "chat", "kick", "kicked", "final"}

Control(c) ==
    /\ task[c] \in TasksAt(pc[c])
    /\ task[c] \notin {"kick", "kicked"} => who[c] = c
    /\ task[c] = "join" => room[c] \in Rooms
    /\ pc[c] \in {"discard", "empty", "del", "reset"} => old[c] \in Rooms
    /\ task[c] = "leave" => "leave" \in uses
    /\ task[c] \in {"kick", "kicked"} => "kick" \in uses

\* Who holds the lock: every critical section but that of LEAVE_ROOM, which
\* runs _leave_room_logic without it.
Holds(c) ==
    \/ pc[c] \in {"join_add", "forget", "sending"}
    \/ pc[c] \in LeaveLabels /\ task[c] # "leave"

\* A connection that is being taken out of its room has no other room, and has
\* none at all once it was discarded, up to the join that follows or the end of
\* its entry in clients.
Leaving(c) ==
    /\ pc[c] = "discard" => current[who[c]] \in {old[c], NoRoom}
    /\ pc[c] \in {"empty", "del", "reset", "join_add", "forget"} => InNoRoom(who[c])

\* A member that is no client was kicked during its JOIN_ROOM: the computation
\* of the member list is still ahead of it, or has ended its handler.
Ghost(c) ==
    "auth" \notin uses =>
        \/ c \in clients
        \/ InNoRoom(c)
        \/ /\ pc[c] = "members" /\ task[c] = "join"
           /\ \A r \in Rooms : c \in rooms[r] => r = room[c]
        \/ task[c] = "final" \/ pc[c] = "dead"

\* Without LEAVE_ROOM only the holder of the lock changes a room: the room it
\* leaves stays, is empty when it is deleted, and the set a broadcast iterates
\* over stays what it was.
Undisturbed(c) ==
    /\ pc[c] \in {"discard", "empty", "del"} => old[c] \in open
    /\ pc[c] = "del" => rooms[old[c]] = {}
    /\ pc[c] = "sending" => seen[c] = rooms[BcastRoom(c)]
    /\ task[c] = "final" /\ pc[c] \in {"members", "bcast", "sending"} => c \notin clients
    /\ pc[c] = "dead" => c \notin clients

\* Without kicks a client that is served is in clients.
Known(c) == task[c] \in {"join", "leave", "chat"} => c \in clients

\* The record of a client that names a room is true unless the thread that
\* takes it out is about to reset it.
Recorded(c) ==
    \/ current[c] = NoRoom
    \/ c \in rooms[current[c]]
    \/ \E d \in Conns : who[d] = c /\ pc[d] \in {"empty", "del", "reset"}

ControlInv == \A c \in Conns : Control(c)
LockInv    == \A c \in Conns : Holds(c) <=> lock = c
LeavingInv == \A c \in Conns : Leaving(c)
GhostInv   == \A c \in Conns : Ghost(c)

NoKickInv ==
    "kick" \notin uses =>
        /\ \A c \in Conns : Known(c)
        /\ "auth" \notin uses => \A r \in Rooms : rooms[r] \subseteq clients

NoLeaveInv ==
    "leave" \notin uses =>
        (\A c \in Conns : Undisturbed(c)) /\ \A c \in clients : Recorded(c)

IInv == TypeOK /\ ControlInv /\ LockInv /\ MembershipMatchesRecord /\ LeavingInv
               /\ GhostInv /\ NoKickInv /\ NoLeaveInv

-----------------------------------------------------------------------------
\* The table of TasksAt.
LEMMA TaskTable ==
    /\ TasksAt("recv") = {"none"} /\ TasksAt("dead") = {"none"}
    /\ TasksAt("join") = {"join"} /\ TasksAt("join_add") = {"join"}
    /\ TasksAt("left") = {"leave"}
    /\ \A l \in LeaveLabels : TasksAt(l) = {"join", "leave", "kick", "final"}
    /\ TasksAt("clean") = {"kick", "final"} /\ TasksAt("forget") = {"kick", "final"}
    /\ TasksAt("notice") = {"kick"} /\ TasksAt("close") = {"kick"}
    /\ TasksAt("reply") = {"join", "kicked"}
    /\ TasksAt("members") = {"join", "leave", "kick", "kicked", "final"}
    /\ TasksAt("bcast") = {"join", "leave", "chat", "kick", "kicked", "final"}
    /\ TasksAt("sending") = {"join", "leave", "chat", "kick", "kicked", "final"}
BY DEF TasksAt, LeaveLabels

\* What a thread does at each of its places.
LEMMA TaskFacts ==
    ASSUME NEW c \in Conns, Control(c)
    PROVE  /\ pc[c] \in {"recv", "dead"} => task[c] = "none"
           /\ pc[c] \in {"join", "join_add"} => task[c] = "join"
           /\ pc[c] = "left" => task[c] = "leave"
           /\ pc[c] \in LeaveLabels => task[c] \in {"join", "leave", "kick", "final"}
           /\ pc[c] \in {"clean", "forget"} => task[c] \in {"kick", "final"}
           /\ pc[c] \in {"notice", "close"} => task[c] = "kick"
           /\ pc[c] = "reply" => task[c] \in {"join", "kicked"}
           /\ pc[c] = "members" => task[c] \in {"join", "leave", "kick", "kicked", "final"}
           /\ pc[c] \in {"bcast", "sending"} =>
                 task[c] \in {"join", "leave", "chat", "kick", "kicked", "final"}
BY TaskTable DEF Control

\* A step of one thread changes the locals of no other.
Frame(c) ==
    /\ uses' = uses
    /\ \A d \in Conns \ {c} :
          /\ pc'[d] = pc[d] /\ task'[d] = task[d] /\ room'[d] = room[d]
          /\ old'[d] = old[d] /\ who'[d] = who[d] /\ seen'[d] = seen[d]

\* A step of a connection's handler changes the locals of no other handler.
LEMMA OneThread ==
    ASSUME TypeOK, NEW c \in Conns, HandlerStep(c) \/ RequestStep(c)
    PROVE  Frame(c)
<1> DEFINE Others(f) == \A d \in Conns \ {c} : f'[d] = f[d]
           Locals    == Others(pc) /\ Others(task) /\ Others(room) /\ Others(old) /\ Others(who)
<1>1. ASSUME NEW l, Goto(c, l) PROVE Locals
  BY <1>1 DEF Goto, locals, TypeOK
<1>2. ASSUME NEW l, Return(c, l) PROVE Locals
  BY <1>2 DEF Return, TypeOK
<1>3. ASSUME ToFinally(c) PROVE Locals
  BY <1>3 DEF ToFinally, TypeOK
<1>4. ASSUME Raise(c) PROVE Locals
  BY <1>2, <1>3, <1>4 DEF Raise
<1>5. ASSUME NEW t, NEW r, NEW w, NEW l, Begin(c, t, r, w, l) PROVE Locals /\ Others(seen)
  BY <1>5 DEF Begin, TypeOK
<1>6. ASSUME AfterBcast(c) \/ AfterCleanup(c) PROVE Locals
  BY <1>1, <1>2, <1>6 DEF AfterBcast, AfterCleanup
<1>7. ASSUME Request(c) PROVE Locals /\ Others(seen)
  <2>1. CASE Auth(c)
    BY <2>1 DEF Auth, locals
  <2>2. CASE Disconnect(c)
    BY <1>3, <2>2 DEF Disconnect
  <2> QED
    BY <1>5, <1>7, <2>1, <2>2 DEF Request, Join, Leave, Chat, Kick
<1>8. ASSUME Handler(c) PROVE Locals
  <2>1. CASE LeaveCheck(c)
    BY <1>4, <2>1 DEF LeaveCheck, TypeOK
  <2>2. CASE LeaveDiscard(c) \/ LeaveEmpty(c) \/ LeaveDel(c) \/ LeaveReset(c)
    BY <1>1, <1>4, <2>2 DEF LeaveDiscard, LeaveEmpty, LeaveDel, LeaveReset
  <2>3. CASE JoinLock(c) \/ JoinAdd(c) \/ LeaveOK(c) \/ Reply(c) \/ KickNotice(c)
    BY <1>1, <1>2, <1>4, <2>3 DEF JoinLock, JoinAdd, LeaveOK, Reply, KickNotice
  <2>4. CASE Members(c) \/ BcastStart(c) \/ BcastEnd(c)
    BY <1>1, <1>4, <1>6, <2>4 DEF Members, BcastStart, BcastEnd
  <2>5. CASE CleanLock(c)
    BY <1>6, <2>5 DEF CleanLock, TypeOK
  <2>6. CASE Forget(c)
    BY <1>1, <1>6, <2>6 DEF Forget
  <2>7. CASE KickClose(c)
    BY <2>7 DEF KickClose, TypeOK
  <2> QED
    BY <1>8, <2>1, <2>2, <2>3, <2>4, <2>5, <2>6, <2>7 DEF Handler
<1>9. ASSUME Handler(c) PROVE Others(seen)
  BY <1>9 DEF Handler, LeaveCheck, LeaveDiscard, LeaveEmpty, LeaveDel, LeaveReset, JoinLock,
              JoinAdd, LeaveOK, Reply, Members, BcastStart, BcastEnd, KickNotice, CleanLock,
              Forget, KickClose, TypeOK
<1> QED
  BY <1>7, <1>8, <1>9 DEF Frame, HandlerStep, RequestStep

\* An exception leads to the finally clause, or out of it, and gives the lock
\* back.
LEMMA RaiseFacts ==
    ASSUME TypeOK, NEW c \in Conns, Raise(c)
    PROVE  /\ \/ /\ task[c] # "final" /\ pc'[c] = "clean" /\ task'[c] = "final"
                 /\ closed' = closed \cup {c}
              \/ /\ task[c] = "final" /\ pc'[c] = "dead" /\ task'[c] = "none"
                 /\ closed' = closed
           /\ who'[c] = c /\ room'[c] = NoRoom /\ old'[c] = NoRoom
           /\ lock' = IF lock = c THEN NoThread ELSE lock
           /\ pc' \in [Conns -> Labels]
           /\ task' \in [Conns -> {"none", "join", "leave", "chat", "kick", "kicked", "final"}]
           /\ room' \in [Conns -> Rooms \cup {NoRoom}]
           /\ old' \in [Conns -> Rooms \cup {NoRoom}]
           /\ who' \in [Conns -> Conns]
<1>1. CASE task[c] = "final"
  BY <1>1 DEF Raise, Return, Release, TypeOK, Labels
<1>2. CASE task[c] # "final"
  BY <1>2 DEF Raise, ToFinally, Release, TypeOK, Labels
<1> QED
  BY <1>1, <1>2

\* A step that leaves the rooms and the records alone keeps the invariant if it
\* keeps the part of it that is about the thread itself.
LEMMA QuietStep ==
    ASSUME IInv, NEW c \in Conns, Frame(c), UNCHANGED registry, TypeOK',
           Control(c)', Holds(c)' <=> lock' = c,
           \A d \in Conns \ {c} : lock' = d <=> lock = d,
           Leaving(c)', Ghost(c)',
           "kick" \notin uses => Known(c)',
           "leave" \notin uses =>
               /\ Undisturbed(c)'
               /\ pc[c] \in {"empty", "del", "reset"} =>
                     pc'[c] \in {"empty", "del", "reset"} /\ who'[c] = who[c]
    PROVE  IInv'
<1> USE DEF IInv, Frame, registry
<1>1. ControlInv'
  BY DEF ControlInv, Control
<1>2. LockInv'
  BY DEF LockInv, Holds
<1>3. MembershipMatchesRecord'
  BY DEF MembershipMatchesRecord
<1>4. LeavingInv'
  BY DEF LeavingInv, Leaving, InNoRoom
<1>5. GhostInv'
  BY DEF GhostInv, Ghost, InNoRoom
<1>6. NoKickInv'
  BY DEF NoKickInv, Known
<1>7. NoLeaveInv'
  <2> SUFFICES ASSUME "leave" \notin uses
               PROVE  (\A d \in Conns : Undisturbed(d)') /\ \A d \in clients : Recorded(d)'
    BY DEF NoLeaveInv
  <2>1. ASSUME NEW d \in Conns \ {c} PROVE Undisturbed(d)'
    BY <2>1 DEF NoLeaveInv, Undisturbed, BcastRoom
  <2>2. ASSUME NEW d \in clients PROVE Recorded(d)'
    <3>1. \A e \in Conns : who[e] = d /\ pc[e] \in {"empty", "del", "reset"} =>
                           who'[e] = d /\ pc'[e] \in {"empty", "del", "reset"}
      OBVIOUS
    <3>2. Recorded(d)
      BY DEF NoLeaveInv
    <3> QED
      BY <3>1, <3>2 DEF Recorded
  <2> QED
    BY <2>1, <2>2
<1> QED
  BY <1>1, <1>2, <1>3, <1>4, <1>5, <1>6, <1>7

\* An exception keeps the invariant; without LEAVE_ROOM it neither strikes
\* between the discard of a member and the reset of its record, nor ends the
\* thread of a connection that is still in clients.
LEMMA RaiseStep ==
    ASSUME IInv, NEW c \in Conns, Frame(c), UNCHANGED registry, Raise(c),
           seen' \in [Conns -> SUBSET Conns],
           "leave" \notin uses =>
               /\ pc[c] \notin {"empty", "del", "reset"}
               /\ task[c] = "final" => c \notin clients
    PROVE  IInv'
<1> USE RoomsAssumption
<1>1. TypeOK
  BY DEF IInv
<1>2. TypeOK'
  BY <1>1, RaiseFacts DEF TypeOK, registry, Frame
<1>3. (pc'[c] = "clean" /\ task'[c] = "final") \/ (pc'[c] = "dead" /\ task'[c] = "none")
  BY <1>1, RaiseFacts
<1>4. Control(c)'
  BY <1>1, <1>3, RaiseFacts DEF Control, TasksAt, LeaveLabels
<1>5. (Holds(c)' <=> lock' = c) /\ \A d \in Conns \ {c} : lock' = d <=> lock = d
  BY <1>1, <1>3, RaiseFacts DEF Holds, LeaveLabels
<1>6. Leaving(c)' /\ Ghost(c)' /\ Known(c)'
  BY <1>3 DEF Leaving, Ghost, Known
<1>7. "leave" \notin uses => Undisturbed(c)'
  BY <1>1, <1>3, RaiseFacts DEF Undisturbed, registry
<1> QED
  BY <1>2, <1>4, <1>5, <1>6, <1>7, QuietStep

\* The requests other than AUTH_BACKEND change only the thread's own locals.
LEMMA RequestKeeps ==
    ASSUME IInv, NEW c \in Conns, Frame(c),
           \/ (\E r \in Rooms : Join(c, r)) \/ Leave(c) \/ Chat(c)
           \/ (\E d \in Conns : Kick(c, d)) \/ Disconnect(c)
    PROVE  IInv'
<1> USE RoomsAssumption
<1>1. /\ UNCHANGED <<registry, lock, seen>> /\ pc[c] = "recv"
      /\ TypeOK /\ (Holds(c) <=> lock = c)
  BY DEF Join, Leave, Chat, Kick, Disconnect, Begin, CanServe, IInv, LockInv
<1>2. task[c] = "none"
  BY <1>1, TaskFacts DEF IInv, ControlInv
<1>3. lock # c
  BY <1>1 DEF Holds, LeaveLabels
<1>4. CASE Disconnect(c)
  <2>1. /\ pc'[c] = "clean" /\ task'[c] = "final" /\ who'[c] = c
    BY <1>1, <1>4 DEF Disconnect, ToFinally, TypeOK
  <2>2. TypeOK'
    BY <1>1, <1>4 DEF Disconnect, ToFinally, TypeOK, Frame, registry, Labels
  <2>3. Control(c)' /\ Leaving(c)' /\ Ghost(c)' /\ Known(c)' /\ Undisturbed(c)' /\ ~Holds(c)'
    BY <2>1 DEF Control, TasksAt, LeaveLabels, Leaving, Ghost, Known, Undisturbed, Holds
  <2> QED
    BY <1>1, <1>3, <2>2, <2>3, QuietStep
<1>5. ASSUME NEW t \in {"join", "leave", "chat", "kick"}, NEW r \in Rooms, NEW w \in Conns,
             NEW l \in {"join", "check", "bcast", "notice"}, Begin(c, t, r, w, l),
             t \in TasksAt(l), t # "kick" => w = c, l = "check" => t = "leave",
             t = "leave" => "leave" \in uses, t = "kick" => "kick" \in uses,
             t # "kick" => c \in clients, c \in clients
      PROVE  IInv'
  <2>1. /\ pc'[c] = l /\ task'[c] = t /\ who'[c] = w /\ room'[c] = r
    BY <1>1, <1>5 DEF Begin, TypeOK
  <2>2. TypeOK'
    BY <1>1, <1>5 DEF Begin, TypeOK, Frame, registry, Labels
  <2>3. Control(c)' /\ Known(c)'
    BY <1>1, <1>5, <2>1 DEF Control, Known, registry, Frame
  <2>4. Leaving(c)' /\ Ghost(c)' /\ ~Holds(c)'
    BY <1>1, <1>5, <2>1 DEF Leaving, Ghost, Holds, LeaveLabels, registry
  <2>5. Undisturbed(c)'
    BY <1>5, <2>1 DEF Undisturbed
  <2> QED
    BY <1>1, <1>3, <2>2, <2>3, <2>4, <2>5, QuietStep
<1>6. CASE \E r \in Rooms : Join(c, r)
  <2>1. "join" \in TasksAt("join")
    BY DEF TasksAt
  <2> QED
    BY <1>5, <1>6, <2>1 DEF Join
<1>7. CASE Leave(c)
  <2>1. "leave" \in TasksAt("check") /\ current[c] \in Rooms
    BY <1>1, <1>7 DEF TasksAt, LeaveLabels, Leave, TypeOK
  <2> QED
    BY <1>5, <1>7, <2>1 DEF Leave
<1>8. CASE Chat(c)
  <2>1. "chat" \in TasksAt("bcast") /\ current[c] \in Rooms
    BY <1>1, <1>8 DEF TasksAt, LeaveLabels, Chat, TypeOK
  <2> QED
    BY <1>5, <1>8, <2>1 DEF Chat
<1>9. CASE \E d \in Conns : Kick(c, d)
  <2>1. "kick" \in TasksAt("notice") /\ current[c] \in Rooms
    BY <1>1, <1>9 DEF TasksAt, LeaveLabels, Kick, TypeOK
  <2> QED
    BY <1>5, <1>9, <2>1 DEF Kick
<1> QED
  BY <1>4, <1>6, <1>7, <1>8, <1>9

-----------------------------------------------------------------------------
(* Steps of the handlers that leave rooms and records alone *)

\* Goto moves the thread and nothing else of its own.
LEMMA GotoFacts ==
    ASSUME TypeOK, NEW c \in Conns, NEW l \in Labels, Goto(c, l)
    PROVE  /\ pc'[c] = l /\ pc' \in [Conns -> Labels]
           /\ UNCHANGED locals
BY DEF Goto, TypeOK

\* So does the end of a handler, which forgets its locals.
LEMMA ReturnFacts ==
    ASSUME TypeOK, NEW c \in Conns, NEW l \in Labels, Return(c, l)
    PROVE  /\ pc'[c] = l /\ task'[c] = "none" /\ who'[c] = c
           /\ pc' \in [Conns -> Labels]
           /\ task' \in [Conns -> {"none", "join", "leave", "chat", "kick", "kicked", "final"}]
           /\ room' \in [Conns -> Rooms \cup {NoRoom}]
           /\ old' \in [Conns -> Rooms \cup {NoRoom}]
           /\ who' \in [Conns -> Conns]
BY DEF Return, TypeOK

\* A thread moves on within its handler.
LEMMA GotoStep ==
    ASSUME IInv, NEW c \in Conns, Frame(c), UNCHANGED <<registry, closed>>,
           NEW l \in Labels, Goto(c, l), task[c] \in TasksAt(l),
           lock' \in Conns \cup {NoThread}, seen' \in [Conns -> SUBSET Conns],
           (l \in {"join_add", "forget", "sending"} \/ (l \in LeaveLabels /\ task[c] # "leave"))
               <=> lock' = c,
           lock' # lock => {lock, lock'} = {c, NoThread},
           l \in {"discard", "empty", "del", "reset"} => old[c] \in Rooms,
           l = "discard" => current[who[c]] \in {old[c], NoRoom},
           l \in {"empty", "del", "reset", "join_add", "forget"} => InNoRoom(who[c]),
           c \notin clients => InNoRoom(c) \/ task[c] = "final",
           "leave" \notin uses =>
               /\ l \in {"discard", "empty", "del"} => old[c] \in open
               /\ l = "del" => rooms[old[c]] = {}
               /\ l = "sending" => seen'[c] = rooms[BcastRoom(c)]
               /\ task[c] = "final" /\ l \in {"members", "bcast", "sending"} => c \notin clients
               /\ pc[c] \in {"empty", "del", "reset"} => l \in {"empty", "del", "reset"},
           l # "dead"
    PROVE  IInv'
<1> USE RoomsAssumption
<1>1. TypeOK /\ Control(c)
  BY DEF IInv, ControlInv
<1>2. pc'[c] = l /\ pc' \in [Conns -> Labels] /\ UNCHANGED locals
  BY <1>1, GotoFacts
<1>3. TypeOK'
  BY <1>1, <1>2 DEF TypeOK, registry, locals, Frame
<1>4. Control(c)'
  BY <1>1, <1>2 DEF Control, locals, Frame
<1>5. (Holds(c)' <=> lock' = c) /\ \A d \in Conns \ {c} : lock' = d <=> lock = d
  BY <1>2 DEF Holds, locals
<1>6. Leaving(c)' /\ Ghost(c)'
  BY <1>2 DEF Leaving, Ghost, InNoRoom, locals, registry, Frame
<1>7. "kick" \notin uses => Known(c)'
  BY <1>2 DEF Known, IInv, NoKickInv, locals, registry
<1>8. "leave" \notin uses => Undisturbed(c)'
  BY <1>2 DEF Undisturbed, BcastRoom, locals, registry
<1> QED
  BY <1>2, <1>3, <1>4, <1>5, <1>6, <1>7, <1>8, QuietStep DEF locals

\* A handler ends, outside every critical section.
LEMMA ReturnStep ==
    ASSUME IInv, NEW c \in Conns, Frame(c), UNCHANGED <<registry, closed>>,
           NEW l \in {"recv", "dead"}, Return(c, l),
           lock' \in Conns \cup {NoThread}, seen' \in [Conns -> SUBSET Conns],
           lock' # c, lock' # lock => lock = c /\ lock' = NoThread,
           c \in clients \/ InNoRoom(c) \/ l = "dead",
           "leave" \notin uses =>
               /\ l = "dead" => c \notin clients
               /\ pc[c] \notin {"empty", "del", "reset"}
    PROVE  IInv'
<1> USE RoomsAssumption
<1>1. TypeOK /\ l \in Labels
  BY DEF IInv, Labels
<1>2. TypeOK'
  BY <1>1, ReturnFacts DEF TypeOK, registry, Frame
<1>3. pc'[c] = l /\ task'[c] = "none" /\ who'[c] = c
  BY <1>1, ReturnFacts
<1>4. Control(c)'
  BY <1>3, TaskTable DEF Control
<1>5. (Holds(c)' <=> lock' = c) /\ \A d \in Conns \ {c} : lock' = d <=> lock = d
  BY <1>3 DEF Holds, LeaveLabels
<1>6. Leaving(c)' /\ Ghost(c)' /\ Known(c)'
  BY <1>3 DEF Leaving, Ghost, Known, InNoRoom, registry, Frame
<1>7. "leave" \notin uses => Undisturbed(c)'
  BY <1>3 DEF Undisturbed, registry
<1> QED
  BY <1>2, <1>4, <1>5, <1>6, <1>7, QuietStep

\* JOIN_ROOM takes the lock; a connection whose record names no room is in none.
LEMMA JoinLockKeeps ==
    ASSUME IInv, NEW c \in Conns, Frame(c), JoinLock(c)
    PROVE  IInv'
<1> DEFINE l == IF current[c] # NoRoom THEN "check" ELSE "join_add"
<1> USE RoomsAssumption
<1>1. TypeOK /\ Control(c) /\ pc[c] = "join" /\ task[c] = "join" /\ who[c] = c
  BY TaskFacts DEF IInv, ControlInv, Control, JoinLock
<1>2. /\ UNCHANGED <<registry, closed, seen>> /\ lock = NoThread /\ lock' = c /\ Goto(c, l)
      /\ l \in Labels
  BY DEF JoinLock, LockFree, Labels
<1>3. task[c] \in TasksAt(l) /\ l \in {"check", "join_add"}
  BY <1>1, TaskTable DEF LeaveLabels
<1>4. l = "join_add" => InNoRoom(c)
  BY DEF IInv, MembershipMatchesRecord, InNoRoom
<1>5. c \notin clients => InNoRoom(c)
  BY <1>1 DEF IInv, GhostInv, Ghost, InNoRoom
<1>6. lock' \in Conns \cup {NoThread} /\ seen' \in [Conns -> SUBSET Conns]
  BY <1>1, <1>2 DEF TypeOK
<1> HIDE DEF l
<1> QED
  BY <1>1, <1>2, <1>3, <1>4, <1>5, <1>6, GotoStep DEF LeaveLabels

\* A connection in a handler that is not about to compute the member list of a
\* join, and is not being closed, is a client or in no room.
LEMMA GhostFacts ==
    ASSUME IInv, NEW c \in Conns, pc[c] # "members" \/ task[c] # "join", pc[c] # "dead"
    PROVE  c \notin clients => InNoRoom(c) \/ task[c] = "final"
BY DEF IInv, GhostInv, Ghost, InNoRoom

\* The answers: LEAVE_ROOM_OK, JOIN_ROOM_OK, KICK_USER_OK, and the notice to the
\* target of a kick.
LEMMA AnswerKeeps ==
    ASSUME IInv, NEW c \in Conns, Frame(c), LeaveOK(c) \/ Reply(c) \/ KickNotice(c)
    PROVE  IInv'
<1> USE RoomsAssumption
<1>1. TypeOK /\ Control(c) /\ (Holds(c) <=> lock = c) /\ pc[c] \in {"left", "reply", "notice"}
  BY DEF IInv, ControlInv, LockInv, LeaveOK, Reply, KickNotice
<1>2. /\ UNCHANGED <<registry, seen>> /\ lock # c
      /\ task[c] \in {"leave", "join", "kicked", "kick"}
  BY <1>1, TaskFacts DEF LeaveOK, Reply, KickNotice, Holds, LeaveLabels
<1>3. CASE Raise(c)
  BY <1>1, <1>2, <1>3, RaiseStep DEF TypeOK
<1>4. c \notin clients => InNoRoom(c)
  BY <1>1, <1>2, GhostFacts
<1>5. CASE Return(c, "recv") /\ UNCHANGED <<lock, closed>>
  BY <1>1, <1>2, <1>4, <1>5, ReturnStep DEF TypeOK
<1>6. ASSUME NEW l \in {"members", "clean"}, Goto(c, l), UNCHANGED <<lock, closed>>,
             task[c] \in TasksAt(l)
      PROVE  IInv'
  BY <1>1, <1>2, <1>4, <1>6, GotoStep DEF TypeOK, Labels, LeaveLabels
<1>7. CASE LeaveOK(c)
  BY <1>1, <1>3, <1>6, <1>7, TaskFacts, TaskTable DEF LeaveOK
<1>8. CASE KickNotice(c)
  BY <1>1, <1>3, <1>6, <1>8, TaskFacts, TaskTable DEF KickNotice
<1> QED
  BY <1>3, <1>5, <1>7, <1>8 DEF Reply

\* The member list is computed, or the computation raises.
LEMMA MembersKeeps ==
    ASSUME IInv, NEW c \in Conns, Frame(c), Members(c)
    PROVE  IInv'
<1> USE RoomsAssumption
<1>1. /\ TypeOK /\ Control(c) /\ pc[c] = "members" /\ lock = NoThread
      /\ UNCHANGED <<registry, seen>>
      /\ task[c] \in {"join", "leave", "kick", "kicked", "final"}
  BY TaskFacts DEF IInv, ControlInv, Members, LockFree
<1>2. "leave" \notin uses => Undisturbed(c)
  BY DEF IInv, NoLeaveInv
<1>3. CASE Raise(c)
  BY <1>1, <1>2, <1>3, RaiseStep DEF TypeOK, Undisturbed
<1>4. CASE rooms[BcastRoom(c)] \subseteq clients /\ Goto(c, "bcast") /\ UNCHANGED <<lock, closed>>
  <2>1. c \notin clients => InNoRoom(c) \/ task[c] = "final"
    BY <1>1, <1>4 DEF IInv, GhostInv, Ghost, BcastRoom, InNoRoom
  <2>2. task[c] \in TasksAt("bcast")
    BY <1>1, TaskTable
  <2> QED
    BY <1>1, <1>2, <1>4, <2>1, <2>2, GotoStep DEF TypeOK, Labels, LeaveLabels, Undisturbed
<1> QED
  BY <1>3, <1>4 DEF Members

\* What follows a broadcast.
LEMMA AfterBcastKeeps ==
    ASSUME IInv, NEW c \in Conns, Frame(c), pc[c] \in {"bcast", "sending"}, AfterBcast(c),
           UNCHANGED <<registry, closed>>, seen' \in [Conns -> SUBSET Conns],
           lock' \in Conns \cup {NoThread}, lock' # c, lock' # lock => lock = c /\ lock' = NoThread
    PROVE  IInv'
<1> USE RoomsAssumption
<1>1. /\ TypeOK /\ Control(c)
      /\ task[c] \in {"join", "leave", "chat", "kick", "kicked", "final"}
  BY TaskFacts DEF IInv, ControlInv
<1>2. c \notin clients => InNoRoom(c) \/ task[c] = "final"
  BY GhostFacts
<1>3. "leave" \notin uses /\ task[c] = "final" => c \notin clients
  BY DEF IInv, NoLeaveInv, Undisturbed
<1>4. ASSUME NEW l \in {"reply", "close"}, Goto(c, l), task[c] \in TasksAt(l) PROVE IInv'
  BY <1>1, <1>2, <1>4, GotoStep DEF Labels, LeaveLabels
<1>5. CASE Return(c, "recv") /\ task[c] # "final"
  BY <1>2, <1>5, ReturnStep
<1>6. CASE Return(c, "dead") /\ task[c] = "final"
  BY <1>2, <1>3, <1>6, ReturnStep
<1> QED
  BY <1>1, <1>4, <1>5, <1>6, TaskTable DEF AfterBcast

\* A broadcast begins, unless its room is gone.
LEMMA BcastStartKeeps ==
    ASSUME IInv, NEW c \in Conns, Frame(c), BcastStart(c)
    PROVE  IInv'
<1> USE RoomsAssumption
<1>1. /\ TypeOK /\ Control(c) /\ pc[c] = "bcast" /\ lock = NoThread
      /\ UNCHANGED <<registry, closed>>
      /\ task[c] \in {"join", "leave", "chat", "kick", "kicked", "final"}
  BY TaskFacts DEF IInv, ControlInv, BcastStart, LockFree
<1>2. CASE AfterBcast(c) /\ UNCHANGED <<lock, seen>>
  BY <1>1, <1>2, AfterBcastKeeps DEF TypeOK
<1>3. CASE /\ BcastRoom(c) \in open /\ lock' = c /\ Goto(c, "sending")
           /\ seen' = [seen EXCEPT ![c] = rooms[BcastRoom(c)]]
  <2>1. seen' \in [Conns -> SUBSET Conns] /\ seen'[c] = rooms[BcastRoom(c)]
    BY <1>1, <1>3 DEF TypeOK
  <2>2. c \notin clients => InNoRoom(c) \/ task[c] = "final"
    BY <1>1, GhostFacts
  <2>3. "leave" \notin uses /\ task[c] = "final" => c \notin clients
    BY <1>1 DEF IInv, NoLeaveInv, Undisturbed
  <2>4. task[c] \in TasksAt("sending")
    BY <1>1, TaskTable
  <2> QED
    BY <1>1, <1>3, <2>1, <2>2, <2>3, <2>4, GotoStep DEF Labels, LeaveLabels
<1> QED
  BY <1>2, <1>3 DEF BcastStart

\* A broadcast ends, or its iterator raises.
LEMMA BcastEndKeeps ==
    ASSUME IInv, NEW c \in Conns, Frame(c), BcastEnd(c)
    PROVE  IInv'
<1> USE RoomsAssumption
<1>1. /\ TypeOK /\ pc[c] = "sending" /\ lock = c /\ UNCHANGED registry
      /\ seen' \in [Conns -> SUBSET Conns]
  BY DEF IInv, LockInv, Holds, BcastEnd, TypeOK
<1>2. CASE lock' = NoThread /\ AfterBcast(c) /\ UNCHANGED closed
  BY <1>1, <1>2, AfterBcastKeeps DEF TypeOK
<1>3. CASE Raise(c)
  <2>1. "leave" \notin uses /\ task[c] = "final" => c \notin clients
    BY <1>1 DEF IInv, NoLeaveInv, Undisturbed
  <2> QED
    BY <1>1, <1>3, <2>1, RaiseStep
<1> QED
  BY <1>2, <1>3 DEF BcastEnd

\* _cleanup_client finds the connection in clients, or has nothing to do.
LEMMA CleanLockKeeps ==
    ASSUME IInv, NEW c \in Conns, Frame(c), CleanLock(c)
    PROVE  IInv'
<1> USE RoomsAssumption
<1>1. /\ TypeOK /\ Control(c) /\ pc[c] = "clean" /\ lock = NoThread
      /\ UNCHANGED <<registry, closed, seen>> /\ task[c] \in {"kick", "final"}
      /\ who[c] \in Conns
  BY TaskFacts DEF IInv, ControlInv, CleanLock, LockFree, TypeOK
<1>2. c \notin clients => InNoRoom(c) \/ task[c] = "final"
  BY <1>1, GhostFacts
<1>3. CASE who[c] \notin clients
  <2>1. CASE task[c] = "final"
    <3>1. c \notin clients /\ Return(c, "dead") /\ lock' = lock
      BY <1>1, <1>3, <2>1 DEF Control, CleanLock, AfterCleanup
    <3> QED
      BY <1>1, <3>1, ReturnStep DEF TypeOK
  <2>2. CASE task[c] = "kick"
    <3>1. Goto(c, "close") /\ lock' = lock /\ "kick" \in TasksAt("close")
      BY <1>3, <2>2, TaskTable DEF CleanLock, AfterCleanup
    <3> QED
      BY <1>1, <1>2, <2>2, <3>1, GotoStep DEF TypeOK, Labels, LeaveLabels
  <2> QED
    BY <1>1, <2>1, <2>2
<1>4. CASE who[c] \in clients
  <2> DEFINE l == IF current[who[c]] # NoRoom THEN "check" ELSE "forget"
  <2>1. /\ lock' = c /\ pc' = [pc EXCEPT ![c] = l] /\ UNCHANGED <<task, room, who>>
        /\ old' = [old EXCEPT ![c] = current[who[c]]]
    BY <1>4 DEF CleanLock
  <2>2. l = "forget" => InNoRoom(who[c])
    BY DEF IInv, MembershipMatchesRecord, InNoRoom
  <2>3. l \in {"check", "forget"} /\ task[c] \in TasksAt(l)
    BY <1>1, TaskTable DEF LeaveLabels
  <2> HIDE DEF l
  <2>4. pc'[c] = l /\ l \in Labels /\ TypeOK'
    BY <1>1, <2>1, <2>3 DEF TypeOK, Frame, registry, Labels
  <2>5. Control(c)' /\ Known(c)'
    BY <1>1, <2>1, <2>3, <2>4 DEF Control, Known, Frame
  <2>6. (Holds(c)' <=> lock' = c) /\ \A d \in Conns \ {c} : lock' = d <=> lock = d
    BY <1>1, <2>1, <2>3, <2>4 DEF Holds, LeaveLabels
  <2>7. Leaving(c)' /\ Ghost(c)' /\ Undisturbed(c)'
    BY <1>1, <1>2, <2>1, <2>2, <2>3, <2>4
       DEF Leaving, Ghost, Undisturbed, InNoRoom, registry, Frame
  <2> QED
    BY <1>1, <2>4, <2>5, <2>6, <2>7, QuietStep
<1> QED
  BY <1>3, <1>4

\* The target's socket is closed.
LEMMA KickCloseKeeps ==
    ASSUME IInv, NEW c \in Conns, Frame(c), KickClose(c)
    PROVE  IInv'
<1> USE RoomsAssumption
<1>1. /\ TypeOK /\ Control(c) /\ (Holds(c) <=> lock = c) /\ pc[c] = "close"
      /\ task[c] = "kick" /\ UNCHANGED <<lock, registry, room, old, who, seen>>
  BY TaskFacts DEF IInv, ControlInv, LockInv, KickClose
<1>2. pc'[c] = "members" /\ task'[c] = "kicked" /\ TypeOK'
  BY <1>1 DEF KickClose, TypeOK, Labels, Frame, registry
<1>3. Control(c)' /\ Known(c)'
  BY <1>1, <1>2, TaskTable DEF Control, Known, Frame
<1>4. ~Holds(c)' /\ lock # c
  BY <1>1, <1>2 DEF Holds, LeaveLabels
<1>5. Ghost(c)'
  BY <1>1, GhostFacts DEF Ghost, InNoRoom, registry, Frame
<1>6. Leaving(c)' /\ Undisturbed(c)'
  BY <1>2 DEF Leaving, Undisturbed
<1> QED
  BY <1>1, <1>2, <1>3, <1>4, <1>5, <1>6, QuietStep

-----------------------------------------------------------------------------
(* _leave_room_logic *)

\* Where it leads when it is done, and who runs it.
LEMMA LeaveFacts ==
    ASSUME IInv, NEW c \in Conns, pc[c] \in LeaveLabels
    PROVE  /\ TypeOK /\ Control(c) /\ who[c] \in Conns
           /\ task[c] \in {"join", "leave", "kick", "final"}
           /\ (task[c] # "leave") <=> lock = c
           /\ AfterLeave(c) = IF task[c] = "join" THEN "join_add"
                              ELSE IF task[c] = "leave" THEN "left" ELSE "forget"
           /\ task[c] \in TasksAt(AfterLeave(c))
           /\ \A l \in LeaveLabels : task[c] \in TasksAt(l)
           /\ c \notin clients => InNoRoom(c) \/ task[c] = "final"
<1>1. TypeOK /\ Control(c) /\ (Holds(c) <=> lock = c)
  BY DEF IInv, ControlInv, LockInv
<1>2. task[c] \in {"join", "leave", "kick", "final"} /\ (task[c] # "leave" <=> lock = c)
  BY <1>1, TaskFacts DEF Holds, LeaveLabels
<1>3. AfterLeave(c) = IF task[c] = "join" THEN "join_add"
                      ELSE IF task[c] = "leave" THEN "left" ELSE "forget"
  BY DEF AfterLeave
<1>4. task[c] \in TasksAt(AfterLeave(c)) /\ \A l \in LeaveLabels : task[c] \in TasksAt(l)
  BY <1>2, <1>3, TaskTable
<1>5. c \notin clients => InNoRoom(c) \/ task[c] = "final"
  BY GhostFacts DEF LeaveLabels
<1> QED
  BY <1>1, <1>2, <1>3, <1>4, <1>5 DEF TypeOK

\* The record is looked up.
LEMMA LeaveCheckKeeps ==
    ASSUME IInv, NEW c \in Conns, Frame(c), LeaveCheck(c)
    PROVE  IInv'
<1> DEFINE w == who[c]
           l == IF current[w] # NoRoom /\ current[w] \in open THEN "discard" ELSE AfterLeave(c)
<1> USE RoomsAssumption
<1>1. pc[c] = "check" /\ pc[c] \in LeaveLabels /\ UNCHANGED <<registry, seen>>
  BY DEF LeaveCheck, LeaveLabels
<1>2. /\ TypeOK /\ Control(c) /\ w \in Conns
      /\ task[c] \in {"join", "leave", "kick", "final"}
      /\ (task[c] # "leave") <=> lock = c
      /\ task[c] \in TasksAt(l)
      /\ c \notin clients => InNoRoom(c) \/ task[c] = "final"
  BY <1>1, LeaveFacts DEF LeaveLabels
<1>3. CASE w \notin clients /\ Raise(c)
  BY <1>1, <1>2, <1>3, RaiseStep DEF TypeOK, Control
<1>4. CASE /\ old' = [old EXCEPT ![c] = IF current[w] = NoRoom THEN @ ELSE current[w]]
           /\ pc' = [pc EXCEPT ![c] = l]
           /\ UNCHANGED <<lock, registry, closed, task, room, who, seen>>
  <2>1. l = IF current[w] # NoRoom /\ current[w] \in open THEN "discard"
            ELSE IF task[c] = "join" THEN "join_add"
            ELSE IF task[c] = "leave" THEN "left" ELSE "forget"
    BY <1>1, LeaveFacts
  <2>2. l # "discard" => InNoRoom(w)
    BY <1>2, <2>1 DEF IInv, MembershipMatchesRecord, InNoRoom, TypeOK
  <2>3. l = "discard" => current[w] \in open /\ current[w] \in Rooms
    BY <1>2, <2>1 DEF TypeOK
  <2> HIDE DEF l
  <2>4. /\ pc'[c] = l /\ task'[c] = task[c] /\ who'[c] = w
        /\ l = "discard" => old'[c] = current[w]
    BY <1>2, <1>4, <2>3 DEF TypeOK
  <2>5. TypeOK'
    BY <1>2, <1>4, <2>1 DEF TypeOK, Frame, registry, Labels
  <2>6. Control(c)' /\ ("kick" \notin uses => Known(c)')
    BY <1>2, <1>4, <2>1, <2>3, <2>4 DEF Control, Known, Frame, IInv, NoKickInv, registry
  <2>7. (Holds(c)' <=> lock' = c) /\ lock' = lock
    BY <1>2, <1>4, <2>1, <2>4 DEF Holds, LeaveLabels
  <2>8. Leaving(c)'
    BY <1>4, <2>1, <2>2, <2>3, <2>4 DEF Leaving, InNoRoom, registry, Frame
  <2>9. Ghost(c)' /\ Undisturbed(c)'
    BY <1>2, <1>4, <2>1, <2>3, <2>4 DEF Ghost, Undisturbed, InNoRoom, registry, Frame
  <2> QED
    BY <1>1, <1>4, <2>5, <2>6, <2>7, <2>8, <2>9, QuietStep
<1> QED
  BY <1>3, <1>4 DEF LeaveCheck

\* Whether the room is empty now is looked up.
LEMMA LeaveEmptyKeeps ==
    ASSUME IInv, NEW c \in Conns, Frame(c), LeaveEmpty(c)
    PROVE  IInv'
<1> USE RoomsAssumption
<1>1. pc[c] = "empty" /\ pc[c] \in LeaveLabels /\ UNCHANGED <<registry, seen>>
  BY DEF LeaveEmpty, LeaveLabels
<1>2. /\ TypeOK /\ Control(c)
      /\ (task[c] # "leave") <=> lock = c
      /\ \A l \in LeaveLabels : task[c] \in TasksAt(l)
      /\ c \notin clients => InNoRoom(c) \/ task[c] = "final"
  BY <1>1, LeaveFacts
<1>3. InNoRoom(who[c]) /\ ("leave" \notin uses => Undisturbed(c))
  BY <1>1 DEF IInv, LeavingInv, Leaving, NoLeaveInv
<1>4. CASE old[c] \notin open
  <2>1. Raise(c) /\ "leave" \in uses
    BY <1>1, <1>3, <1>4 DEF LeaveEmpty, Undisturbed
  <2> QED
    BY <1>1, <1>2, <2>1, RaiseStep DEF TypeOK
<1>5. CASE old[c] \in open
  <2> DEFINE l == IF rooms[old[c]] = {} THEN "del" ELSE "reset"
  <2>1. Goto(c, l) /\ UNCHANGED <<lock, closed>>
    BY <1>5 DEF LeaveEmpty
  <2>2. l \in {"del", "reset"} /\ (l = "del" => rooms[old[c]] = {})
    OBVIOUS
  <2>3. old[c] \in Rooms
    BY <1>1, <1>2 DEF Control
  <2> HIDE DEF l
  <2> QED
    BY <1>1, <1>2, <1>3, <1>5, <2>1, <2>2, <2>3, GotoStep DEF TypeOK, Labels, LeaveLabels
<1> QED
  BY <1>4, <1>5

\* A statement of _leave_room_logic that takes members out of rooms, and
\* changes no record, keeps the invariant if it keeps what is about the thread
\* itself and, without LEAVE_ROOM, leaves no record behind that is about to
\* stay wrong.
LEMMA ShrinkStep ==
    ASSUME IInv, NEW c \in Conns, Frame(c), pc[c] \in {"discard", "del"},
           UNCHANGED <<lock, clients, current, closed, locals, seen>>,
           \A r \in Rooms : rooms'[r] \subseteq rooms[r],
           TypeOK', pc'[c] \in {"empty", "reset"}, InNoRoom(who[c])',
           "leave" \notin uses =>
               /\ Undisturbed(c)'
               /\ \A e \in clients : Recorded(e)'
    PROVE  IInv'
<1> USE DEF Frame
<1>1. /\ TypeOK /\ Control(c) /\ ((task[c] # "leave") <=> lock = c)
      /\ \A l \in LeaveLabels : task[c] \in TasksAt(l)
      /\ c \notin clients => InNoRoom(c) \/ task[c] = "final"
  BY LeaveFacts DEF LeaveLabels
<1>2. Control(c)' /\ ControlInv'
  BY <1>1 DEF IInv, ControlInv, Control, LeaveLabels, locals
<1>3. LockInv'
  BY <1>1 DEF IInv, LockInv, Holds, LeaveLabels, locals
<1>4. MembershipMatchesRecord'
  BY DEF IInv, MembershipMatchesRecord
<1>5. LeavingInv'
  BY DEF IInv, LeavingInv, Leaving, InNoRoom, locals
<1>6. GhostInv'
  BY <1>1 DEF IInv, GhostInv, Ghost, InNoRoom, locals
<1>7. NoKickInv'
  BY DEF IInv, NoKickInv, Known, locals
<1>8. NoLeaveInv'
  <2> SUFFICES ASSUME "leave" \notin uses PROVE \A d \in Conns \ {c} : Undisturbed(d)'
    BY DEF NoLeaveInv
  <2>1. lock = c
    BY <1>1 DEF Control
  <2>2. \A d \in Conns \ {c} : pc[d] \notin {"discard", "empty", "del", "sending"}
    BY <2>1, <1>1 DEF IInv, LockInv, Holds, LeaveLabels, ControlInv, Control
  <2> QED
    BY <2>2 DEF IInv, NoLeaveInv, Undisturbed, locals
<1> QED
  BY <1>2, <1>3, <1>4, <1>5, <1>6, <1>7, <1>8 DEF IInv

\* The member is discarded: from here on it is in no room.
LEMMA LeaveDiscardKeeps ==
    ASSUME IInv, NEW c \in Conns, Frame(c), LeaveDiscard(c)
    PROVE  IInv'
<1> USE RoomsAssumption
<1>1. pc[c] = "discard" /\ pc[c] \in LeaveLabels
  BY DEF LeaveDiscard, LeaveLabels
<1>2. /\ TypeOK /\ Control(c) /\ who[c] \in Conns /\ old[c] \in Rooms
      /\ current[who[c]] \in {old[c], NoRoom}
      /\ "leave" \notin uses => Undisturbed(c)
  BY <1>1, LeaveFacts DEF Control, IInv, LeavingInv, Leaving, NoLeaveInv
<1>3. CASE old[c] \notin open
  <2>1. Raise(c) /\ "leave" \in uses /\ UNCHANGED <<registry, seen>>
    BY <1>1, <1>2, <1>3 DEF LeaveDiscard, Undisturbed
  <2> QED
    BY <1>1, <1>2, <2>1, RaiseStep DEF TypeOK
<1>4. CASE old[c] \in open
  <2>1. /\ rooms' = [rooms EXCEPT ![old[c]] = rooms[old[c]] \ {who[c]}]
        /\ Goto(c, "empty")
        /\ UNCHANGED <<lock, clients, current, open, closed, seen>>
    BY <1>4 DEF LeaveDiscard
  <2>2. /\ pc'[c] = "empty" /\ pc' \in [Conns -> Labels] /\ UNCHANGED locals
    BY <1>2, <2>1, GotoFacts DEF Labels
  <2>3. \A r \in Rooms :
           /\ rooms'[r] \subseteq rooms[r]
           /\ \A d \in rooms[r] : d \in rooms'[r] <=> ~(r = old[c] /\ d = who[c])
    BY <1>2, <2>1 DEF TypeOK
  <2>4. TypeOK'
    BY <1>2, <2>1, <2>2, <2>3 DEF TypeOK, Frame, locals
  <2>5. InNoRoom(who[c])'
    BY <1>2, <2>2, <2>3 DEF InNoRoom, IInv, MembershipMatchesRecord, locals, Frame
  <2>6. "leave" \notin uses => Undisturbed(c)'
    BY <1>4, <2>1, <2>2 DEF Undisturbed, locals
  <2>7. ASSUME "leave" \notin uses, NEW e \in clients PROVE Recorded(e)'
    <3>1. CASE e = who[c]
      BY <2>2, <3>1 DEF Recorded, locals
    <3>2. CASE e # who[c]
      <4>1. Recorded(e) /\ current'[e] = current[e] /\ e \in Conns
        BY <2>1, <2>7, <1>2 DEF IInv, NoLeaveInv, TypeOK
      <4>2. CASE current[e] # NoRoom /\ e \in rooms[current[e]]
        <5>1. e \in rooms'[current[e]]
          BY <1>2, <2>3, <3>2, <4>1, <4>2 DEF TypeOK
        <5> QED
          BY <4>1, <5>1 DEF Recorded
      <4>3. CASE \E d \in Conns : who[d] = e /\ pc[d] \in {"empty", "del", "reset"}
        BY <1>1, <2>2, <4>3 DEF Recorded, Frame, locals
      <4> QED
        BY <4>1, <4>2, <4>3 DEF Recorded
    <3> QED
      BY <3>1, <3>2
  <2> QED
    BY <1>1, <2>1, <2>2, <2>3, <2>4, <2>5, <2>6, <2>7, ShrinkStep
<1> QED
  BY <1>3, <1>4

\* The room is deleted.  A LEAVE_ROOM may delete members with it, who then have
\* a record that names no room of theirs; without one the set is empty.
LEMMA LeaveDelKeeps ==
    ASSUME IInv, NEW c \in Conns, Frame(c), LeaveDel(c)
    PROVE  IInv'
<1> USE RoomsAssumption
<1>1. pc[c] = "del" /\ pc[c] \in LeaveLabels
  BY DEF LeaveDel, LeaveLabels
<1>2. /\ TypeOK /\ Control(c) /\ old[c] \in Rooms /\ InNoRoom(who[c])
      /\ "leave" \notin uses => Undisturbed(c)
  BY <1>1, LeaveFacts DEF Control, IInv, LeavingInv, Leaving, NoLeaveInv
<1>3. CASE old[c] \notin open
  <2>1. Raise(c) /\ "leave" \in uses /\ UNCHANGED <<registry, seen>>
    BY <1>1, <1>2, <1>3 DEF LeaveDel, Undisturbed
  <2> QED
    BY <1>1, <1>2, <2>1, RaiseStep DEF TypeOK
<1>4. CASE old[c] \in open
  <2>1. /\ rooms' = [rooms EXCEPT ![old[c]] = {}] /\ open' = open \ {old[c]}
        /\ Goto(c, "reset")
        /\ UNCHANGED <<lock, clients, current, closed, seen>>
    BY <1>4 DEF LeaveDel
  <2>2. /\ pc'[c] = "reset" /\ pc' \in [Conns -> Labels] /\ UNCHANGED locals
    BY <1>2, <2>1, GotoFacts DEF Labels
  <2>3. \A r \in Rooms : rooms'[r] = IF r = old[c] THEN {} ELSE rooms[r]
    BY <1>2, <2>1 DEF TypeOK
  <2>4. TypeOK'
    BY <1>2, <2>1, <2>2, <2>3 DEF TypeOK, Frame, locals
  <2>5. InNoRoom(who[c])'
    BY <1>2, <2>2, <2>3 DEF InNoRoom, locals, Frame
  <2>6. Undisturbed(c)'
    BY <2>2 DEF Undisturbed
  <2>7. ASSUME "leave" \notin uses, NEW e \in clients PROVE Recorded(e)'
    <3>1. rooms' = rooms
      BY <1>1, <1>2, <2>1, <2>7 DEF Undisturbed, TypeOK
    <3>2. \A d \in Conns : pc[d] \in {"empty", "del", "reset"} =>
                           pc'[d] \in {"empty", "del", "reset"} /\ who'[d] = who[d]
      BY <2>2 DEF Frame, locals
    <3> QED
      BY <2>1, <2>7, <3>1, <3>2 DEF IInv, NoLeaveInv, Recorded
  <2> QED
    BY <1>1, <2>1, <2>2, <2>3, <2>4, <2>5, <2>6, <2>7, ShrinkStep
<1> QED
  BY <1>3, <1>4

\* The record is reset, of a connection that is in no room by now.
LEMMA LeaveResetKeeps ==
    ASSUME IInv, NEW c \in Conns, Frame(c), LeaveReset(c)
    PROVE  IInv'
<1> DEFINE l == AfterLeave(c)
<1> USE RoomsAssumption DEF Frame
<1>1. pc[c] = "reset" /\ pc[c] \in LeaveLabels
  BY DEF LeaveReset, LeaveLabels
<1>2. /\ TypeOK /\ Control(c) /\ who[c] \in Conns /\ InNoRoom(who[c])
      /\ task[c] \in {"join", "leave", "kick", "final"}
      /\ (task[c] # "leave") <=> lock = c
      /\ l = IF task[c] = "join" THEN "join_add" ELSE IF task[c] = "leave" THEN "left" ELSE "forget"
      /\ task[c] \in TasksAt(l)
      /\ c \notin clients => InNoRoom(c) \/ task[c] = "final"
  BY <1>1, LeaveFacts DEF IInv, LeavingInv, Leaving
<1>3. /\ current' = [current EXCEPT ![who[c]] = NoRoom]
      /\ Goto(c, l)
      /\ UNCHANGED <<lock, clients, open, rooms, closed, seen>>
  BY DEF LeaveReset
<1> HIDE DEF l
<1>4. l \in Labels
  BY <1>2 DEF Labels
<1>5. /\ pc'[c] = l /\ pc' \in [Conns -> Labels] /\ UNCHANGED locals
  BY <1>2, <1>3, <1>4, GotoFacts
<1>6. \A d \in Conns : current'[d] = IF d = who[c] THEN NoRoom ELSE current[d]
  BY <1>2, <1>3 DEF TypeOK
<1>7. TypeOK'
  BY <1>2, <1>3, <1>5 DEF TypeOK, locals
<1>8. ControlInv'
  BY <1>2, <1>5 DEF IInv, ControlInv, Control, locals
<1>9. LockInv'
  BY <1>1, <1>2, <1>3, <1>5 DEF IInv, LockInv, Holds, LeaveLabels, locals
<1>10. MembershipMatchesRecord'
  BY <1>2, <1>3, <1>6 DEF IInv, MembershipMatchesRecord, InNoRoom, TypeOK
<1>11. LeavingInv'
  <2>1. ASSUME NEW d \in Conns \ {c} PROVE Leaving(d)'
    BY <1>2, <1>3, <1>5, <1>6 DEF IInv, LeavingInv, Leaving, InNoRoom, locals, TypeOK
  <2>2. Leaving(c)'
    BY <1>2, <1>3, <1>5 DEF Leaving, InNoRoom, locals
  <2> QED
    BY <2>1, <2>2 DEF LeavingInv
<1>12. GhostInv'
  BY <1>2, <1>3, <1>5 DEF IInv, GhostInv, Ghost, InNoRoom, locals
<1>13. NoKickInv'
  BY <1>3, <1>5 DEF IInv, NoKickInv, Known, locals
<1>14. NoLeaveInv'
  <2> SUFFICES ASSUME "leave" \notin uses
               PROVE  /\ \A d \in Conns : Undisturbed(d)'
                      /\ \A e \in clients : Recorded(e)'
    BY <1>3 DEF NoLeaveInv
  <2>1. ASSUME NEW d \in Conns \ {c} PROVE Undisturbed(d)'
    BY <1>3, <1>5, <2>1 DEF IInv, NoLeaveInv, Undisturbed, BcastRoom, locals
  <2>2. Undisturbed(c)'
    BY <1>2, <1>5 DEF Undisturbed
  <2>3. ASSUME NEW e \in clients PROVE Recorded(e)'
    BY <1>2, <1>3, <1>5, <1>6, <2>3 DEF IInv, NoLeaveInv, Recorded, locals, TypeOK
  <2> QED
    BY <2>1, <2>2, <2>3
<1> QED
  BY <1>7, <1>8, <1>9, <1>10, <1>11, <1>12, <1>13, <1>14 DEF IInv

-----------------------------------------------------------------------------
(* The other steps that change rooms and records *)

\* Who holds the lock is alone in the critical sections, of which only
\* LEAVE_ROOM's is not one.
LEMMA HolderAlone ==
    ASSUME IInv, NEW c \in Conns, lock = c, NEW d \in Conns \ {c}
    PROVE  /\ pc[d] \notin {"join_add", "forget", "sending"}
           /\ pc[d] \in LeaveLabels => task[d] = "leave" /\ who[d] = d /\ "leave" \in uses
BY DEF IInv, LockInv, Holds, ControlInv, Control

\* The connection enters the room.
LEMMA JoinAddKeeps ==
    ASSUME IInv, NEW c \in Conns, Frame(c), JoinAdd(c)
    PROVE  IInv'
<1> USE RoomsAssumption DEF Frame
<1>1. /\ pc[c] = "join_add" /\ lock' = NoThread /\ Goto(c, "members")
      /\ open' = open \cup {room[c]}
      /\ rooms' = [rooms EXCEPT ![room[c]] = rooms[room[c]] \cup {c}]
      /\ current' = [current EXCEPT ![c] = room[c]]
      /\ UNCHANGED <<clients, closed, seen>>
  BY DEF JoinAdd
<1>2. /\ TypeOK /\ Control(c) /\ task[c] = "join" /\ who[c] = c /\ room[c] \in Rooms
  BY <1>1, TaskFacts DEF IInv, ControlInv, Control
<1>3. lock = c /\ InNoRoom(c)
  BY <1>1, <1>2 DEF IInv, LockInv, Holds, LeavingInv, Leaving
<1>4. /\ pc'[c] = "members" /\ pc' \in [Conns -> Labels] /\ UNCHANGED locals
  BY <1>1, <1>2, GotoFacts DEF Labels
<1>5. /\ \A d \in Conns : current'[d] = IF d = c THEN room[c] ELSE current[d]
      /\ \A r \in Rooms, d \in Conns :
            d \in rooms'[r] <=> d \in rooms[r] \/ (r = room[c] /\ d = c)
  BY <1>1, <1>2 DEF TypeOK
<1>6. TypeOK'
  BY <1>1, <1>2, <1>4 DEF TypeOK, locals
<1>7. ControlInv'
  <2>1. task[c] \in TasksAt("members")
    BY <1>2, TaskTable
  <2> QED
    BY <1>2, <1>4, <2>1 DEF IInv, ControlInv, Control, locals
<1>8. \A d \in Conns \ {c} :
         /\ pc[d] \notin {"join_add", "forget", "sending"}
         /\ pc[d] \in LeaveLabels => task[d] = "leave" /\ who[d] = d /\ "leave" \in uses
  BY <1>3, HolderAlone
<1>9. LockInv'
  BY <1>1, <1>3, <1>4, <1>8 DEF LockInv, Holds, LeaveLabels, locals
<1>10. MembershipMatchesRecord'
  <2> SUFFICES ASSUME "auth" \notin uses, NEW r \in Rooms, NEW d \in rooms'[r]
               PROVE  current'[d] = r
    BY DEF MembershipMatchesRecord
  <2>1. d \in Conns
    BY <1>6 DEF TypeOK
  <2>2. CASE d = c
    BY <1>3, <1>5, <2>1, <2>2 DEF InNoRoom
  <2>3. CASE d # c
    BY <1>5, <2>1, <2>3 DEF IInv, MembershipMatchesRecord
  <2> QED
    BY <2>2, <2>3
<1>11. LeavingInv'
  <2>1. ASSUME NEW d \in Conns \ {c} PROVE Leaving(d)'
    <3>1. Leaving(d)
      BY DEF IInv, LeavingInv
    <3> QED
      BY <1>4, <1>5, <1>8, <3>1 DEF Leaving, InNoRoom, locals, LeaveLabels
  <2>2. Leaving(c)'
    BY <1>4 DEF Leaving
  <2> QED
    BY <2>1, <2>2 DEF LeavingInv
<1>12. GhostInv'
  <2>1. ASSUME NEW d \in Conns \ {c} PROVE Ghost(d)'
    BY <1>1, <1>4, <1>5 DEF IInv, GhostInv, Ghost, InNoRoom, locals
  <2>2. Ghost(c)'
    BY <1>2, <1>3, <1>4, <1>5 DEF Ghost, InNoRoom, locals
  <2> QED
    BY <2>1, <2>2 DEF GhostInv
<1>13. NoKickInv'
  <2> SUFFICES ASSUME "kick" \notin uses
               PROVE  /\ \A d \in Conns : Known(d)'
                      /\ "auth" \notin uses => \A r \in Rooms : rooms'[r] \subseteq clients
    BY <1>1 DEF NoKickInv
  <2>1. \A d \in Conns : Known(d) /\ Known(d)'
    BY <1>1, <1>4 DEF IInv, NoKickInv, Known, locals
  <2>2. c \in clients
    BY <1>2, <2>1 DEF Known
  <2>3. /\ "auth" \notin uses => \A r \in Rooms : rooms[r] \subseteq clients
        /\ \A r \in Rooms : rooms'[r] \subseteq rooms[r] \cup {c}
    BY <1>1, <1>2 DEF IInv, NoKickInv, TypeOK
  <2> QED
    BY <2>1, <2>2, <2>3
<1>14. NoLeaveInv'
  <2> SUFFICES ASSUME "leave" \notin uses
               PROVE  /\ \A d \in Conns : Undisturbed(d)'
                      /\ \A e \in clients : Recorded(e)'
    BY <1>1 DEF NoLeaveInv
  <2>1. ASSUME NEW d \in Conns \ {c} PROVE Undisturbed(d)'
    BY <1>1, <1>4, <1>8 DEF IInv, NoLeaveInv, Undisturbed, locals, LeaveLabels
  <2>2. Undisturbed(c)'
    BY <1>2, <1>4 DEF Undisturbed, locals
  <2>3. ASSUME NEW e \in clients PROVE Recorded(e)'
    <3>1. CASE e = c
      BY <1>2, <1>5, <3>1 DEF Recorded
    <3>2. CASE e # c
      <4>1. Recorded(e) /\ e \in Conns /\ current'[e] = current[e] /\ current[e] \in Rooms \cup {NoRoom}
        BY <1>2, <1>5, <2>3, <3>2 DEF IInv, NoLeaveInv, TypeOK
      <4>2. CASE current[e] \in Rooms /\ e \in rooms[current[e]]
        BY <1>5, <4>1, <4>2 DEF Recorded
      <4>3. CASE current[e] = NoRoom
        BY <4>1, <4>3 DEF Recorded
      <4>4. CASE \E d \in Conns : who[d] = e /\ pc[d] \in {"empty", "del", "reset"}
        BY <1>1, <1>4, <4>4 DEF Recorded, locals
      <4> QED
        BY <4>1, <4>2, <4>3, <4>4 DEF Recorded
    <3> QED
      BY <3>1, <3>2
  <2> QED
    BY <2>1, <2>2, <2>3
<1> QED
  BY <1>6, <1>7, <1>9, <1>10, <1>11, <1>12, <1>13, <1>14 DEF IInv

\* The connection is taken out of clients; it is in no room by now.
LEMMA ForgetKeeps ==
    ASSUME IInv, NEW c \in Conns, Frame(c), Forget(c)
    PROVE  IInv'
<1> USE RoomsAssumption DEF Frame
<1>1. /\ pc[c] = "forget" /\ lock' = NoThread /\ clients' = clients \ {who[c]}
      /\ UNCHANGED <<current, open, rooms, closed, seen>>
  BY DEF Forget
<1>2. /\ TypeOK /\ Control(c) /\ task[c] \in {"kick", "final"} /\ who[c] \in Conns
      /\ task[c] = "final" => who[c] = c
      /\ task[c] = "kick" => "kick" \in uses
  BY <1>1, TaskFacts DEF IInv, ControlInv, Control, TypeOK
<1>3. lock = c /\ InNoRoom(who[c]) /\ (c \notin clients => InNoRoom(c) \/ task[c] = "final")
  BY <1>1, GhostFacts DEF IInv, LockInv, Holds, LeavingInv, Leaving
<1>4. /\ TypeOK'
      /\ \/ pc'[c] = "members" /\ task'[c] = task[c] /\ who'[c] = who[c]
         \/ pc'[c] = "close" /\ task'[c] = "kick" /\ task[c] = "kick" /\ who'[c] = who[c]
         \/ pc'[c] = "dead" /\ task'[c] = "none" /\ task[c] = "final" /\ who'[c] = c
  <2>1. CASE Goto(c, "members")
    BY <1>1, <1>2, <2>1, GotoFacts DEF TypeOK, locals, Labels
  <2>2. CASE Goto(c, "close") /\ task[c] = "kick"
    BY <1>1, <1>2, <2>2, GotoFacts DEF TypeOK, locals, Labels
  <2>3. CASE Return(c, "dead") /\ task[c] = "final"
    <3>1. "dead" \in Labels
      BY DEF Labels
    <3> QED
      BY <1>1, <1>2, <2>3, <3>1, ReturnFacts DEF TypeOK
  <2> QED
    BY <1>2, <2>1, <2>2, <2>3 DEF Forget, AfterCleanup
<1>5. ControlInv'
  <2>1. Control(c)'
    BY <1>2, <1>4, TaskTable DEF Control
  <2> QED
    BY <2>1 DEF IInv, ControlInv, Control
<1>6. \A d \in Conns \ {c} :
         /\ pc[d] \notin {"join_add", "forget", "sending"}
         /\ pc[d] \in LeaveLabels => task[d] = "leave" /\ who[d] = d /\ "leave" \in uses
  BY <1>3, HolderAlone
<1>7. LockInv'
  BY <1>1, <1>4, <1>6 DEF LockInv, Holds, LeaveLabels
<1>8. MembershipMatchesRecord'
  BY <1>1 DEF IInv, MembershipMatchesRecord
<1>9. LeavingInv'
  BY <1>1, <1>4 DEF IInv, LeavingInv, Leaving, InNoRoom
<1>10. GhostInv'
  <2>1. ASSUME NEW d \in Conns \ {c} PROVE Ghost(d)'
    BY <1>1, <1>3 DEF IInv, GhostInv, Ghost, InNoRoom
  <2>2. Ghost(c)'
    BY <1>1, <1>2, <1>3, <1>4 DEF Ghost, InNoRoom
  <2> QED
    BY <2>1, <2>2 DEF GhostInv
<1>11. NoKickInv'
  <2> SUFFICES ASSUME "kick" \notin uses
               PROVE  /\ \A d \in Conns : Known(d)'
                      /\ "auth" \notin uses => \A r \in Rooms : rooms'[r] \subseteq clients'
    BY DEF NoKickInv
  <2>1. task[c] = "final" /\ who[c] = c
    BY <1>2
  <2>2. \A d \in Conns : Known(d)'
    BY <1>1, <1>4, <2>1 DEF IInv, NoKickInv, Known
  <2>3. "auth" \notin uses => \A r \in Rooms : rooms'[r] \subseteq clients'
    BY <1>1, <1>3, <2>1 DEF IInv, NoKickInv, InNoRoom
  <2> QED
    BY <2>2, <2>3
<1>12. NoLeaveInv'
  <2> SUFFICES ASSUME "leave" \notin uses
               PROVE  /\ \A d \in Conns : Undisturbed(d)'
                      /\ \A e \in clients' : Recorded(e)'
    BY DEF NoLeaveInv
  <2>1. ASSUME NEW d \in Conns \ {c} PROVE Undisturbed(d)'
    BY <1>1, <1>6, <2>1 DEF IInv, NoLeaveInv, Undisturbed, LeaveLabels
  <2>2. Undisturbed(c)'
    BY <1>1, <1>2, <1>4 DEF Undisturbed
  <2>3. ASSUME NEW e \in clients' PROVE Recorded(e)'
    BY <1>1, <2>3 DEF IInv, NoLeaveInv, Recorded
  <2> QED
    BY <2>1, <2>2, <2>3
<1> QED
  BY <1>4, <1>5, <1>7, <1>8, <1>9, <1>10, <1>11, <1>12 DEF IInv

\* A connection authenticates.  One that a kick has taken out of clients, and
\* that authenticates again, is in no room; one that is a client may stay where
\* it is, with a record that does not say so.
LEMMA AuthKeeps ==
    ASSUME IInv, NEW c \in Conns, Frame(c), Auth(c)
    PROVE  IInv'
<1> USE RoomsAssumption DEF Frame
<1>1. /\ pc[c] = "recv" /\ (c \in clients => "auth" \in uses)
      /\ clients' = clients \cup {c}
      /\ current' = [current EXCEPT ![c] = NoRoom]
      /\ UNCHANGED <<lock, open, rooms, closed, pc, locals, seen>>
  BY DEF Auth, CanServe
<1>2. TypeOK /\ task[c] = "none"
  BY <1>1, TaskFacts DEF IInv, ControlInv
<1>3. InNoRoom(c)
  BY <1>1, <1>2, GhostFacts DEF InNoRoom
<1>4. \A d \in Conns : current'[d] = IF d = c THEN NoRoom ELSE current[d]
  BY <1>1, <1>2 DEF TypeOK
<1>5. TypeOK'
  BY <1>1, <1>2 DEF TypeOK, locals
<1>6. ControlInv' /\ LockInv'
  BY <1>1 DEF IInv, ControlInv, Control, LockInv, Holds, locals
<1>7. MembershipMatchesRecord'
  BY <1>1, <1>2, <1>3, <1>4 DEF IInv, MembershipMatchesRecord, InNoRoom, TypeOK
<1>8. LeavingInv'
  BY <1>1, <1>2, <1>4 DEF IInv, LeavingInv, Leaving, InNoRoom, TypeOK, locals
<1>9. GhostInv'
  BY <1>1 DEF IInv, GhostInv, Ghost, InNoRoom, locals
<1>10. NoKickInv'
  BY <1>1 DEF IInv, NoKickInv, Known, locals
<1>11. NoLeaveInv'
  <2> SUFFICES ASSUME "leave" \notin uses
               PROVE  /\ \A d \in Conns : Undisturbed(d)'
                      /\ \A e \in clients' : Recorded(e)'
    BY DEF NoLeaveInv
  <2>1. ASSUME NEW d \in Conns PROVE Undisturbed(d)'
    BY <1>1, <1>2, <2>1 DEF IInv, NoLeaveInv, Undisturbed, BcastRoom, locals
  <2>2. ASSUME NEW e \in clients' PROVE Recorded(e)'
    BY <1>1, <1>2, <1>4, <2>2 DEF IInv, NoLeaveInv, Recorded, TypeOK, locals
  <2> QED
    BY <2>1, <2>2
<1> QED
  BY <1>5, <1>6, <1>7, <1>8, <1>9, <1>10, <1>11 DEF IInv

-----------------------------------------------------------------------------
(* The theorems *)

\* Nobody is connected at the start.
LEMMA InitIInv == Init => IInv
<1> SUFFICES ASSUME Init PROVE IInv
  OBVIOUS
<1>1. TypeOK
  BY DEF Init, TypeOK, Labels
<1>2. ControlInv
  BY TaskTable DEF Init, ControlInv, Control
<1>3. LockInv
  BY RoomsAssumption DEF Init, LockInv, Holds, LeaveLabels
<1>4. MembershipMatchesRecord /\ LeavingInv /\ GhostInv /\ NoKickInv /\ NoLeaveInv
  BY DEF Init, MembershipMatchesRecord, LeavingInv, Leaving, GhostInv, Ghost, InNoRoom,
         NoKickInv, Known, NoLeaveInv, Undisturbed, Recorded
<1> QED
  BY <1>1, <1>2, <1>3, <1>4 DEF IInv

\* Every step of every handler preserves the invariant.
LEMMA NextIInv == IInv /\ [Next]_vars => IInv'
<1> SUFFICES ASSUME IInv, [Next]_vars PROVE IInv'
  OBVIOUS
<1>1. ASSUME NEW c \in Conns, HandlerStep(c) PROVE IInv'
  <2>1. Frame(c)
    BY <1>1, OneThread DEF IInv
  <2> QED
    BY <1>1, <2>1, LeaveCheckKeeps, LeaveDiscardKeeps, LeaveEmptyKeeps, LeaveDelKeeps,
       LeaveResetKeeps, JoinLockKeeps, JoinAddKeeps, AnswerKeeps, MembersKeeps,
       BcastStartKeeps, BcastEndKeeps, CleanLockKeeps, ForgetKeeps, KickCloseKeeps
       DEF HandlerStep, Handler
<1>2. ASSUME NEW c \in Conns, RequestStep(c) PROVE IInv'
  <2>1. Frame(c)
    BY <1>2, OneThread DEF IInv
  <2> QED
    BY <1>2, <2>1, RequestKeeps, AuthKeeps DEF RequestStep, Request
<1>3. CASE UNCHANGED vars
  <2> USE <1>3 DEF vars, registry, locals
  <2>1. TypeOK' /\ ControlInv' /\ LockInv' /\ MembershipMatchesRecord'
    BY DEF IInv, TypeOK, ControlInv, Control, LockInv, Holds, MembershipMatchesRecord
  <2>2. LeavingInv' /\ GhostInv' /\ NoKickInv'
    BY DEF IInv, LeavingInv, Leaving, GhostInv, Ghost, InNoRoom, NoKickInv, Known
  <2>3. NoLeaveInv'
    BY DEF IInv, NoLeaveInv, Undisturbed, Recorded, BcastRoom
  <2> QED
    BY <2>1, <2>2, <2>3 DEF IInv
<1> QED
  BY <1>1, <1>2, <1>3 DEF Next

\* The invariant holds in every reachable state.
THEOREM Invariance == Spec => []IInv
BY InitIInv, NextIInv, PTL DEF Spec

\* Whoever is in a room's set has that room in its client record, so nobody is
\* in two rooms, as long as no client authenticates again: also when LEAVE_ROOM,
\* kicks and switches of rooms are all in use.
THEOREM MembershipTheorem == Spec => []MembershipMatchesRecord
BY Invariance, PTL DEF IInv

\* Without LEAVE_ROOM, between two critical sections a client whose record names
\* a room is in its set: the thread that takes somebody out holds the lock.
THEOREM RecordedTheorem == Spec => []RecordedIsMember
<1>1. IInv => RecordedIsMember
  <2> SUFFICES ASSUME IInv, "leave" \notin uses, LockFree,
                      NEW c \in clients, current[c] # NoRoom
               PROVE  c \in rooms[current[c]]
    BY DEF RecordedIsMember
  <2>1. ASSUME NEW d \in Conns PROVE pc[d] \notin {"empty", "del", "reset"}
    <3>1. task[d] # "leave" /\ lock # d
      BY RoomsAssumption DEF IInv, ControlInv, Control, LockFree
    <3> QED
      BY <3>1 DEF IInv, LockInv, Holds, LeaveLabels
  <2> QED
    BY <2>1 DEF IInv, NoLeaveInv, Recorded
<1> QED
  BY <1>1, Invariance, PTL

\* As long as no client authenticates again, a member that is no client is one
\* that was kicked during its own JOIN_ROOM; a connection whose thread has ended
\* is forgotten as long as nobody leaves, and the variables have their types.
THEOREM MembersTheorem == Spec => []MembersAreClients
<1>1. IInv => MembersAreClients
  <2> SUFFICES ASSUME IInv PROVE MembersAreClients
    OBVIOUS
  <2>1. ASSUME "auth" \notin uses, NEW r \in Rooms, NEW c \in rooms[r] \ clients
        PROVE  KickedWhileJoining(c, r)
    <3>1. "kick" \in uses
      BY <2>1 DEF IInv, NoKickInv
    <3>2. c \in Conns /\ ~InNoRoom(c)
      BY <2>1 DEF IInv, TypeOK, InNoRoom
    <3> QED
      BY <2>1, <3>1, <3>2 DEF IInv, GhostInv, Ghost, KickedWhileJoining
  <2> QED
    BY <2>1 DEF IInv, MembersAreClients, NoLeaveInv, Undisturbed
<1> QED
  BY <1>1, Invariance, PTL

\* rooms_lock is a threading.Lock, which its own holder would wait for for ever.
\* Who holds it is inside a critical section: neither before one, where the lock
\* is asked for again, nor back in the loop or ended with the lock still taken.
HolderIsBusy ==
    \A c \in Conns :
        lock = c => pc[c] \notin {"join", "members", "bcast", "clean", "recv", "dead"}

\* Whatever raises, no handler takes the lock twice and none ends or goes on
\* with its next request while it has it, kicks, LEAVE_ROOM and second
\* authentications included: the
\* safety a handler's return (HandlerReturns) rests on.
THEOREM LockHolderTheorem == Spec => []HolderIsBusy
<1>1. IInv => HolderIsBusy
  <2> SUFFICES ASSUME IInv, NEW c \in Conns, lock = c
               PROVE  pc[c] \notin {"join", "members", "bcast", "clean", "recv", "dead"}
    BY DEF HolderIsBusy
  <2> QED
    BY DEF IInv, LockInv, Holds, LeaveLabels
<1> QED
  BY <1>1, Invariance, PTL

\* While nobody leaves, is kicked or authenticates again, no step of any handler raises but on a
\* connection that is being closed: the lookups find what they look for, and
\* the set a broadcast iterates over does not change under it.
THEOREM SurviveTheorem == Spec => HandlersSurvive
<1>1. ASSUME IInv, [Next]_vars, NEW c \in Conns, uses = {},
             task[c] \notin {"none", "final"}, task'[c] = "final"
      PROVE  c \in closed
  <2> USE <1>1
  <2>1. /\ TypeOK /\ Control(c) /\ Undisturbed(c) /\ Known(c)
        /\ \A r \in Rooms : rooms[r] \subseteq clients
    BY DEF IInv, ControlInv, NoLeaveInv, NoKickInv
  <2>2. task[c] \in {"join", "chat"} /\ who[c] = c /\ c \in clients
    BY <2>1 DEF Control, Known, TypeOK
  <2>3. PICK d \in Conns : HandlerStep(d) \/ RequestStep(d)
    BY DEF Next, vars, locals
  <2>4. d = c
    BY <2>1, <2>3, OneThread DEF Frame
  <2>5. CASE RequestStep(c)
    <3>1. pc[c] = "recv" \/ UNCHANGED task
      BY <2>5 DEF RequestStep, Request, Auth, Leave, Chat, Disconnect, Join, Kick, CanServe
    <3> QED
      BY <2>1, <3>1, TaskFacts
  <2>6. CASE Handler(c)
    <3>1. ASSUME NEW l, Goto(c, l) PROVE FALSE
      BY <3>1 DEF Goto, locals
    <3>2. ASSUME NEW l, Return(c, l) PROVE FALSE
      BY <2>1, <3>2 DEF Return, TypeOK
    <3>3. CASE LeaveCheck(c) \/ LeaveDiscard(c) \/ LeaveEmpty(c) \/ LeaveDel(c) \/ LeaveReset(c)
      BY <2>1, <2>2, <3>1, <3>3
         DEF LeaveCheck, LeaveDiscard, LeaveEmpty, LeaveDel, LeaveReset, Undisturbed
    <3>4. CASE JoinLock(c) \/ JoinAdd(c) \/ Reply(c) \/ LeaveOK(c)
      BY <3>1, <3>2, <3>4 DEF JoinLock, JoinAdd, Reply, LeaveOK
    <3>5. CASE Members(c)
      <4>1. rooms[BcastRoom(c)] \subseteq clients
        BY <2>1, <2>2, <3>5, TaskFacts DEF BcastRoom, Control, Members
      <4> QED
        BY <3>1, <3>5, <4>1 DEF Members
    <3>6. CASE BcastStart(c) \/ BcastEnd(c)
      <4>1. pc[c] = "sending" => rooms[BcastRoom(c)] = seen[c]
        BY <2>1 DEF Undisturbed
      <4>2. AfterBcast(c) => FALSE
        BY <3>1, <3>2 DEF AfterBcast
      <4> QED
        BY <3>1, <3>6, <4>1, <4>2 DEF BcastStart, BcastEnd
    <3>7. CASE KickNotice(c) \/ CleanLock(c) \/ Forget(c) \/ KickClose(c)
      BY <2>1, <2>2, <3>7, TaskFacts DEF KickNotice, CleanLock, Forget, KickClose
    <3> QED
      BY <2>6, <3>3, <3>4, <3>5, <3>6, <3>7 DEF Handler
  <2> QED
    BY <2>3, <2>4, <2>5, <2>6 DEF HandlerStep
<1>2. IInv /\ [Next]_vars =>
        [\A c \in Conns : (uses = {} /\ task[c] \notin {"none", "final"} /\ task'[c] = "final")
                              => c \in closed]_vars
  BY <1>1
<1> QED
  BY <1>2, Invariance, PTL DEF Spec, HandlersSurvive

-----------------------------------------------------------------------------
(* The implementation of AtomicRooms *)

\* What is so of a connection as long as its own thread is the only one that
\* takes it out of its room: no kick, and the lock is held whenever it does.
Solo(c) ==
    /\ who[c] = c /\ task[c] \in {"none", "join", "chat", "final"}
    /\ c \notin clients => current[c] = NoRoom
    /\ pc[c] # "sending" => seen[c] = {}
    /\ pc[c] \in {"recv", "join"} => old[c] = NoRoom
    /\ pc[c] = "check" => old[c] \in {NoRoom, current[c]}
    /\ pc[c] = "discard" => old[c] = current[c]
    /\ pc[c] = "forget" => current[c] = NoRoom
    /\ pc[c] = "members" /\ task[c] = "final" => old[c] # NoRoom
    /\ pc[c] \in LeaveLabels \cup {"join", "join_add", "forget"} => c \in clients
    /\ pc[c] \in {"members", "bcast", "sending"} /\ task[c] # "final" => current[c] = room[c]

SoloInv == uses = {} => \A c \in Conns : Solo(c)

\* Where a switch or a clean-up has the connection in its old room still.
Between == {"empty", "del", "reset", "join_add", "forget"}

\* What a thread can rely on at its places, while nobody leaves,
\* is kicked or authenticates again.
LEMMA SoloFacts ==
    ASSUME IInv, SoloInv, uses = {}, NEW c \in Conns
    PROVE  /\ TypeOK /\ Solo(c) /\ Undisturbed(c) /\ (Holds(c) <=> lock = c)
           /\ pc[c] \notin {"left", "notice", "close"}
           /\ pc[c] \in {"recv", "dead"} => task[c] = "none"
           /\ pc[c] \in {"join", "join_add", "reply"} => task[c] = "join"
           /\ pc[c] \in LeaveLabels \cup {"members"} => task[c] \in {"join", "final"}
           /\ pc[c] \in {"clean", "forget"} => task[c] = "final"
           /\ pc[c] \in {"bcast", "sending"} => task[c] \in {"join", "chat", "final"}
           /\ task[c] = "join" => room[c] \in Rooms
           /\ pc[c] \in {"discard", "empty", "del", "reset"} => old[c] \in Rooms
<1>1. /\ TypeOK /\ Control(c) /\ Solo(c) /\ Undisturbed(c) /\ (Holds(c) <=> lock = c)
  BY DEF IInv, ControlInv, LockInv, NoLeaveInv, SoloInv
<1>2. task[c] \in {"none", "join", "chat", "final"}
  BY <1>1 DEF Solo
<1> QED
  BY <1>1, <1>2, TaskFacts DEF Control

\* A client whose record names a room is in its set, and the set exists, unless
\* its own thread is taking it out.
LEMMA RecordedHere ==
    ASSUME IInv, SoloInv, uses = {}, NEW c \in clients, current[c] # NoRoom,
           pc[c] \notin {"empty", "del", "reset"}
    PROVE  current[c] \in open /\ c \in rooms[current[c]]
<1>1. TypeOK /\ c \in Conns /\ Recorded(c)
  BY DEF IInv, TypeOK, NoLeaveInv
<1>2. \A d \in Conns : who[d] = d
  BY DEF SoloInv, Solo
<1>3. c \in rooms[current[c]]
  BY <1>1, <1>2 DEF Recorded
<1> QED
  BY <1>1, <1>3 DEF TypeOK

\* Nothing is being sent while another thread has the lock, or nobody has.
LEMMA NothingSent ==
    ASSUME IInv, SoloInv, uses = {}, NEW c \in Conns, lock \in {NoThread, c}, pc[c] # "sending"
    PROVE  Atomic!Quiet
<1>1. ASSUME NEW d \in Conns PROVE seen[d] = {}
  BY RoomsAssumption, SoloFacts DEF Holds, Solo
<1> QED
  BY <1>1 DEF Atomic!Quiet

\* A step of a thread changes neither the record nor the place of any other
\* connection.
Elsewhere(c) ==
    \A d \in Conns \ {c} :
        /\ (d \in clients') <=> (d \in clients)
        /\ current'[d] = current[d]

\* Who is taken out of a room or of clients is the thread's own connection.
LEMMA OneConnection ==
    ASSUME IInv, SoloInv, uses = {}, NEW c \in Conns, HandlerStep(c) \/ RequestStep(c)
    PROVE  Elsewhere(c)
<1>1. TypeOK /\ who[c] = c
  BY SoloFacts DEF Solo
<1>2. CASE RequestStep(c)
  BY <1>1, <1>2 DEF RequestStep, Request, Auth, Leave, Chat, Disconnect, Join, Kick, Begin,
     registry, Elsewhere, TypeOK
<1>3. CASE LeaveReset(c) \/ JoinAdd(c) \/ Forget(c)
  BY <1>1, <1>3 DEF LeaveReset, JoinAdd, Forget, Elsewhere, TypeOK
<1>4. CASE UNCHANGED <<clients, current>>
  BY <1>4 DEF Elsewhere
<1>5. CASE HandlerStep(c)
  BY <1>3, <1>4, <1>5 DEF HandlerStep, Handler, LeaveCheck, LeaveDiscard, LeaveEmpty, LeaveDel,
     JoinLock, LeaveOK, Reply, Members, BcastStart, BcastEnd, KickNotice, CleanLock, KickClose,
     registry
<1> QED
  BY <1>2, <1>5

\* What is so of the other connections stays so.
LEMMA OthersSolo ==
    ASSUME SoloInv, uses = {}, NEW c \in Conns, Frame(c), Elsewhere(c)
    PROVE  \A d \in Conns \ {c} : Solo(d)' /\ RoomOf(d)' = RoomOf(d)
<1> SUFFICES ASSUME NEW d \in Conns \ {c} PROVE Solo(d)' /\ RoomOf(d)' = RoomOf(d)
  OBVIOUS
<1>1. Solo(d)
  BY DEF SoloInv
<1> QED
  BY <1>1 DEF Solo, RoomOf, Frame, Elsewhere, LeaveLabels

\* What a step of thread c amounts to for AtomicRooms, from what it does to c.
Amounts(c) ==
    /\ Solo(c)'
    /\ \/ RoomOf(c)' = RoomOf(c) /\ clients' = clients /\ seen' = seen
       \/ /\ c \notin clients /\ clients' = clients \cup {c}
          /\ RoomOf(c)' = RoomOf(c) /\ seen' = seen
       \/ /\ Atomic!Quiet /\ c \in clients /\ clients' = clients
          /\ RoomOf(c)' \in Rooms /\ seen' = seen
       \/ /\ Atomic!Quiet /\ c \in clients /\ clients' = clients \ {c}
          /\ RoomOf(c)' = NoRoom /\ seen' = seen
       \/ /\ Atomic!Quiet /\ clients' = clients /\ RoomOf(c)' = RoomOf(c)
          /\ \E r \in Rooms :
                /\ RoomOf(c) = r \/ c \notin clients
                /\ seen' = [seen EXCEPT ![c] = {d \in Conns : RoomOf(d) = r}]
       \/ /\ clients' = clients /\ RoomOf(c)' = RoomOf(c)
          /\ seen' = [seen EXCEPT ![c] = {}]

\* Together with what does not happen to the others this is a step of AtomicRooms.
LEMMA AmountsToStep ==
    ASSUME SoloInv, uses = {}, NEW c \in Conns, Frame(c), Elsewhere(c), Amounts(c)
    PROVE  SoloInv' /\ [Atomic!Next]_Atomic!vars
<1>1. \A d \in Conns \ {c} : Solo(d)' /\ RoomOf(d)' = RoomOf(d)
  BY OthersSolo
<1>2. SoloInv'
  BY <1>1 DEF SoloInv, Amounts
<1> SUFFICES [Atomic!Next]_Atomic!vars
  BY <1>2
<1> DEFINE at == [d \in Conns |-> RoomOf(d)]
<1>3. ASSUME RoomOf(c)' = RoomOf(c) PROVE at' = at
  BY <1>1, <1>3
<1>4. ASSUME NEW r, RoomOf(c)' = r PROVE at' = [at EXCEPT ![c] = r]
  BY <1>1, <1>4
<1>5. CASE RoomOf(c)' = RoomOf(c) /\ clients' = clients /\ seen' = seen
  BY <1>3, <1>5 DEF Atomic!vars
<1>6. CASE /\ c \notin clients /\ clients' = clients \cup {c}
           /\ RoomOf(c)' = RoomOf(c) /\ seen' = seen
  BY <1>3, <1>6 DEF Atomic!Next, Atomic!Connect
<1>7. CASE /\ Atomic!Quiet /\ c \in clients /\ clients' = clients
           /\ RoomOf(c)' \in Rooms /\ seen' = seen
  <2>1. PICK r \in Rooms : RoomOf(c)' = r
    BY <1>7
  <2>2. Atomic!Join(c, r)
    BY <1>4, <1>7, <2>1 DEF Atomic!Join
  <2> QED
    BY <2>2 DEF Atomic!Next
<1>8. CASE /\ Atomic!Quiet /\ c \in clients /\ clients' = clients \ {c}
           /\ RoomOf(c)' = NoRoom /\ seen' = seen
  <2>1. Atomic!Gone(c)
    BY <1>4, <1>8 DEF Atomic!Gone
  <2> QED
    BY <2>1 DEF Atomic!Next
<1>9. CASE /\ Atomic!Quiet /\ clients' = clients /\ RoomOf(c)' = RoomOf(c)
           /\ \E r \in Rooms :
                 /\ RoomOf(c) = r \/ c \notin clients
                 /\ seen' = [seen EXCEPT ![c] = {d \in Conns : RoomOf(d) = r}]
  <2>1. PICK r \in Rooms :
           /\ RoomOf(c) = r \/ c \notin clients
           /\ seen' = [seen EXCEPT ![c] = {d \in Conns : RoomOf(d) = r}]
    BY <1>9
  <2>2. Atomic!Members(r) = {d \in Conns : RoomOf(d) = r}
    BY DEF Atomic!Members
  <2>3. Atomic!Tell(c, r)
    BY <1>3, <1>9, <2>1, <2>2 DEF Atomic!Tell
  <2> QED
    BY <2>3 DEF Atomic!Next
<1>10. CASE /\ clients' = clients /\ RoomOf(c)' = RoomOf(c)
            /\ seen' = [seen EXCEPT ![c] = {}]
  <2>1. Atomic!Told(c)
    BY <1>3, <1>10 DEF Atomic!Told
  <2> QED
    BY <2>1 DEF Atomic!Next
<1> QED
  BY <1>2, <1>5, <1>6, <1>7, <1>8, <1>9, <1>10 DEF Amounts

\* A thread moves on, and its connection stays where it is.
LEMMA GotoAmounts ==
    ASSUME TypeOK, NEW c \in Conns, Solo(c),
           NEW l \in Labels \ {"recv", "join", "clean", "members", "sending"},
           Goto(c, l), UNCHANGED <<clients, current, seen>>, pc[c] # "sending",
           RoomOf(c) = IF l \in Between THEN old[c] ELSE current[c],
           l = "check" => old[c] \in {NoRoom, current[c]},
           l = "discard" => old[c] = current[c],
           l = "forget" => current[c] = NoRoom,
           l \in LeaveLabels \cup {"join_add", "forget"} => c \in clients,
           l = "bcast" /\ task[c] # "final" => current[c] = room[c]
    PROVE  Amounts(c)
<1>1. pc'[c] = l /\ UNCHANGED locals
  BY GotoFacts
<1>2. RoomOf(c)' = RoomOf(c)
  BY <1>1 DEF RoomOf, Between, locals
<1>3. Solo(c)'
  BY <1>1 DEF Solo, locals, LeaveLabels
<1> QED
  BY <1>2, <1>3 DEF Amounts

\* Requests leave the connection where it is; AUTH_BACKEND connects it.
LEMMA RequestAmounts ==
    ASSUME IInv, SoloInv, uses = {}, NEW c \in Conns, Request(c)
    PROVE  Amounts(c)
<1>1. /\ TypeOK /\ Solo(c) /\ old[c] = NoRoom /\ pc[c] = "recv"
  BY SoloFacts DEF Solo, Request, Auth, Leave, Chat, Disconnect, Join, Kick, CanServe
<1>2. RoomOf(c) = current[c]
  BY <1>1 DEF RoomOf
<1>3. CASE Auth(c)
  <2>1. /\ c \notin clients /\ clients' = clients \cup {c} /\ current'[c] = NoRoom
        /\ UNCHANGED <<pc, task, room, old, who, seen>>
    BY <1>1, <1>3 DEF Auth, locals, TypeOK
  <2>2. current[c] = NoRoom
    BY <1>1, <2>1 DEF Solo
  <2>3. RoomOf(c)' = RoomOf(c) /\ Solo(c)'
    BY <1>1, <1>2, <2>1, <2>2 DEF RoomOf, Solo
  <2> QED
    BY <2>1, <2>3 DEF Amounts
<1>4. CASE Disconnect(c)
  <2>1. /\ pc'[c] = "clean" /\ task'[c] = "final" /\ who'[c] = c
        /\ UNCHANGED <<clients, current, seen>>
    BY <1>1, <1>4 DEF Disconnect, ToFinally, registry, TypeOK
  <2>2. RoomOf(c)' = RoomOf(c) /\ Solo(c)'
    BY <1>1, <1>2, <2>1 DEF RoomOf, Solo, LeaveLabels
  <2> QED
    BY <2>1, <2>2 DEF Amounts
<1>5. CASE Chat(c) \/ \E r \in Rooms : Join(c, r)
  <2>1. /\ c \in clients /\ UNCHANGED <<clients, current, old, seen>> /\ who'[c] = c
        /\ \/ pc'[c] = "join" /\ task'[c] = "join"
           \/ pc'[c] = "bcast" /\ task'[c] = "chat" /\ room'[c] = current[c]
    BY <1>1, <1>5 DEF Chat, Join, Begin, registry, TypeOK
  <2>2. RoomOf(c)' = RoomOf(c) /\ Solo(c)'
    BY <1>1, <1>2, <2>1 DEF RoomOf, Solo, LeaveLabels
  <2> QED
    BY <2>1, <2>2 DEF Amounts
<1> QED
  BY <1>3, <1>4, <1>5 DEF Request, Leave, Kick

\* Until the connection is out of its old room it is in it, and after that too,
\* since the thread goes on with the lock in its hands.
LEMMA LeaveAmounts ==
    ASSUME IInv, SoloInv, uses = {}, NEW c \in Conns,
           \/ LeaveCheck(c) \/ LeaveDiscard(c) \/ LeaveEmpty(c) \/ LeaveDel(c) \/ LeaveReset(c)
    PROVE  Amounts(c)
<1>1. /\ TypeOK /\ Solo(c) /\ Undisturbed(c) /\ who[c] = c /\ c \in clients
      /\ task[c] \in {"join", "final"}
  BY SoloFacts DEF Solo, LeaveCheck, LeaveDiscard, LeaveEmpty, LeaveDel, LeaveReset, LeaveLabels
<1>2. CASE LeaveCheck(c)
  <2>1. /\ pc[c] = "check" /\ UNCHANGED <<clients, current, task, room, who, seen>>
        /\ old' = [old EXCEPT ![c] = IF current[c] = NoRoom THEN @ ELSE current[c]]
        /\ pc' = [pc EXCEPT ![c] = IF current[c] # NoRoom /\ current[c] \in open
                                   THEN "discard" ELSE AfterLeave(c)]
    BY <1>1, <1>2 DEF LeaveCheck, registry
  <2>2. old'[c] = current[c]
    BY <1>1, <2>1 DEF Solo, TypeOK
  <2>3. pc'[c] = IF current[c] # NoRoom THEN "discard" ELSE AfterLeave(c)
    BY <1>1, <2>1, RecordedHere DEF TypeOK
  <2>4. AfterLeave(c) = IF task[c] = "join" THEN "join_add" ELSE "forget"
    BY <1>1 DEF AfterLeave
  <2>5. RoomOf(c)' = RoomOf(c)
    BY <2>1, <2>2, <2>3, <2>4 DEF RoomOf
  <2>6. Solo(c)'
    BY <1>1, <2>1, <2>2, <2>3, <2>4 DEF Solo, LeaveLabels
  <2> QED
    BY <2>1, <2>5, <2>6 DEF Amounts
<1>3. CASE LeaveDiscard(c) \/ LeaveEmpty(c) \/ LeaveDel(c)
  <2>1. old[c] \in open
    BY <1>1, <1>3 DEF LeaveDiscard, LeaveEmpty, LeaveDel, Undisturbed
  <2>2. PICK l \in {"empty", "del", "reset"} : Goto(c, l)
    BY <1>3, <2>1 DEF LeaveDiscard, LeaveEmpty, LeaveDel
  <2>3. UNCHANGED <<clients, current, seen>> /\ pc[c] \in {"discard", "empty", "del"}
    BY <1>3, <2>1 DEF LeaveDiscard, LeaveEmpty, LeaveDel, registry
  <2>4. RoomOf(c) = old[c]
    BY <1>1, <2>3 DEF RoomOf, Solo
  <2> QED
    BY <1>1, <2>2, <2>3, <2>4, GotoAmounts DEF Between, Labels, LeaveLabels
<1>4. CASE LeaveReset(c)
  <2>1. /\ pc[c] = "reset" /\ UNCHANGED <<clients, seen, locals>> /\ current'[c] = NoRoom
        /\ pc'[c] = IF task[c] = "join" THEN "join_add" ELSE "forget"
    BY <1>1, <1>4 DEF LeaveReset, Goto, AfterLeave, TypeOK
  <2>2. RoomOf(c)' = RoomOf(c)
    BY <2>1 DEF RoomOf, locals
  <2>3. Solo(c)'
    BY <1>1, <2>1 DEF Solo, LeaveLabels, locals
  <2> QED
    BY <2>1, <2>2, <2>3 DEF Amounts
<1> QED
  BY <1>2, <1>3, <1>4

\* The switch to the new room takes place when the connection enters it.
LEMMA JoinAmounts ==
    ASSUME IInv, SoloInv, uses = {}, NEW c \in Conns, JoinLock(c) \/ JoinAdd(c) \/ Reply(c)
    PROVE  Amounts(c)
<1>1. /\ TypeOK /\ Solo(c) /\ (Holds(c) <=> lock = c) /\ task[c] = "join" /\ room[c] \in Rooms
  BY SoloFacts DEF JoinLock, JoinAdd, Reply
<1>2. CASE JoinLock(c)
  <2>1. PICK l \in {"check", "join_add"} : Goto(c, l) /\ (l = "join_add" => current[c] = NoRoom)
    BY <1>2 DEF JoinLock
  <2>2. /\ UNCHANGED <<clients, current, seen>> /\ pc[c] = "join" /\ c \in clients
        /\ old[c] = NoRoom /\ RoomOf(c) = current[c]
    BY <1>1, <1>2 DEF JoinLock, registry, Solo, RoomOf
  <2> QED
    BY <1>1, <2>1, <2>2, GotoAmounts DEF Between, Labels, LeaveLabels
<1>3. CASE JoinAdd(c)
  <2>1. /\ pc[c] = "join_add" /\ pc'[c] = "members" /\ UNCHANGED <<clients, seen, locals>>
        /\ current'[c] = room[c]
    BY <1>1, <1>3 DEF JoinAdd, Goto, TypeOK
  <2>2. Atomic!Quiet /\ c \in clients
    BY <1>1, <2>1, NothingSent DEF Holds, Solo
  <2>3. RoomOf(c)' = room[c]
    BY <2>1 DEF RoomOf
  <2>4. Solo(c)'
    BY <1>1, <2>1, <2>2 DEF Solo, LeaveLabels, locals
  <2> QED
    BY <1>1, <2>1, <2>2, <2>3, <2>4 DEF Amounts
<1>4. CASE Reply(c)
  <2>1. /\ UNCHANGED <<clients, current, seen>> /\ pc[c] = "reply" /\ RoomOf(c) = current[c]
    BY <1>4 DEF Reply, registry, RoomOf
  <2>2. /\ \/ pc'[c] = "clean" /\ task'[c] = "final"
           \/ pc'[c] = "recv" /\ task'[c] = "none"
        /\ who'[c] = c /\ old'[c] = NoRoom
    BY <1>1, <1>4, RaiseFacts DEF Reply, Return, TypeOK
  <2>3. RoomOf(c)' = RoomOf(c) /\ Solo(c)'
    BY <1>1, <2>1, <2>2 DEF RoomOf, Solo, LeaveLabels
  <2> QED
    BY <2>1, <2>3 DEF Amounts
<1> QED
  BY <1>2, <1>3, <1>4

\* With the lock free, the set of a room is who is in it.
LEMMA RoomIsMembers ==
    ASSUME IInv, SoloInv, uses = {}, lock = NoThread, NEW r \in Rooms
    PROVE  rooms[r] = {d \in Conns : RoomOf(d) = r}
<1>1. ASSUME NEW d \in Conns PROVE RoomOf(d) = current[d] /\ pc[d] \notin Between
  <2>1. pc[d] \notin Between
    BY RoomsAssumption, SoloFacts DEF Between, Holds, LeaveLabels
  <2> QED
    BY <2>1 DEF RoomOf, Between
<1>2. ASSUME NEW d \in rooms[r] PROVE d \in Conns /\ current[d] = r
  BY DEF IInv, TypeOK, MembershipMatchesRecord
<1>3. ASSUME NEW d \in Conns, current[d] = r PROVE d \in rooms[r]
  <2>1. d \in clients /\ current[d] # NoRoom
    BY <1>3, RoomsAssumption DEF SoloInv, Solo
  <2> QED
    BY <1>1, <1>3, <2>1, RecordedHere DEF Between
<1> QED
  BY <1>1, <1>2, <1>3

\* A broadcast is to the members of its room.
LEMMA BcastAmounts ==
    ASSUME IInv, SoloInv, uses = {}, NEW c \in Conns, Members(c) \/ BcastStart(c) \/ BcastEnd(c)
    PROVE  Amounts(c)
<1>1. /\ TypeOK /\ Solo(c) /\ Undisturbed(c) /\ task[c] \in {"join", "chat", "final"}
      /\ task[c] # "final" => current[c] = room[c]
      /\ UNCHANGED <<clients, current>>
  BY SoloFacts DEF Members, BcastStart, BcastEnd, Solo, registry
<1>2. RoomOf(c) = current[c]
  BY DEF Members, BcastStart, BcastEnd, RoomOf
<1>3. CASE Members(c)
  <2>1. /\ rooms[BcastRoom(c)] \subseteq clients
    <3>1. \A r \in Rooms : rooms[r] \subseteq clients
      BY DEF IInv, NoKickInv
    <3>2. BcastRoom(c) \in Rooms
      BY <1>1, <1>3, SoloFacts DEF BcastRoom, TypeOK, Solo, Members
    <3> QED
      BY <3>1, <3>2
  <2> QED
    BY <1>1, <1>2, <1>3, <2>1, GotoAmounts DEF Members, Between, Labels, LeaveLabels
<1>4. ASSUME AfterBcast(c)
      PROVE  /\ pc'[c] \in {"reply", "dead", "recv"} /\ who'[c] = c
             /\ task'[c] \in {"none", "join"} /\ (pc'[c] = "recv" => old'[c] = NoRoom)
  BY <1>1, <1>4 DEF AfterBcast, Goto, Return, locals, TypeOK, Solo
<1>5. CASE BcastStart(c)
  <2>1. CASE BcastRoom(c) \in open
    <3>1. /\ lock = NoThread /\ pc[c] = "bcast"
          /\ seen' = [seen EXCEPT ![c] = rooms[BcastRoom(c)]] /\ Goto(c, "sending")
      BY <1>5, <2>1 DEF BcastStart, LockFree
    <3>2. BcastRoom(c) \in Rooms
      BY <1>1, <2>1 DEF TypeOK
    <3>3. seen' = [seen EXCEPT ![c] = {d \in Conns : RoomOf(d) = BcastRoom(c)}]
      BY <3>1, <3>2, RoomIsMembers
    <3>4. RoomOf(c) = BcastRoom(c) \/ c \notin clients
      BY <1>1, <1>2, <3>1 DEF BcastRoom, Undisturbed
    <3>5. Atomic!Quiet
      BY <3>1, NothingSent
    <3>6. pc'[c] = "sending" /\ UNCHANGED locals
      BY <1>1, <3>1, GotoFacts DEF Labels
    <3>7. RoomOf(c)' = RoomOf(c) /\ Solo(c)'
      BY <1>1, <1>2, <3>6 DEF RoomOf, Solo, LeaveLabels, locals
    <3> QED
      BY <1>1, <3>2, <3>3, <3>4, <3>5, <3>7 DEF Amounts
  <2>2. CASE BcastRoom(c) \notin open
    <3>1. AfterBcast(c) /\ seen' = seen /\ pc[c] = "bcast"
      BY <1>5, <2>2 DEF BcastStart
    <3>2. RoomOf(c)' = RoomOf(c) /\ Solo(c)'
      BY <1>1, <1>2, <1>4, <3>1 DEF RoomOf, Solo, LeaveLabels
    <3> QED
      BY <1>1, <3>1, <3>2 DEF Amounts
  <2> QED
    BY <2>1, <2>2
<1>6. CASE BcastEnd(c)
  <2>1. rooms[BcastRoom(c)] = seen[c]
    BY <1>1, <1>6 DEF BcastEnd, Undisturbed
  <2>2. AfterBcast(c) /\ seen' = [seen EXCEPT ![c] = {}] /\ seen'[c] = {}
    BY <1>1, <1>6, <2>1 DEF BcastEnd, TypeOK
  <2>3. RoomOf(c)' = RoomOf(c) /\ Solo(c)'
    BY <1>1, <1>2, <1>4, <2>2 DEF RoomOf, Solo, LeaveLabels
  <2> QED
    BY <1>1, <2>2, <2>3 DEF Amounts
<1> QED
  BY <1>3, <1>5, <1>6

\* A connection is gone when it is forgotten: it was in its room up to then.
LEMMA CleanAmounts ==
    ASSUME IInv, SoloInv, uses = {}, NEW c \in Conns, CleanLock(c) \/ Forget(c)
    PROVE  Amounts(c)
<1>1. /\ TypeOK /\ Solo(c) /\ who[c] = c /\ task[c] = "final" /\ (Holds(c) <=> lock = c)
  BY SoloFacts DEF CleanLock, Forget, Solo
<1>2. ASSUME AfterCleanup(c) PROVE pc'[c] = "dead" /\ task'[c] = "none" /\ who'[c] = c
  BY <1>1, <1>2 DEF AfterCleanup, Return, TypeOK
<1>3. CASE CleanLock(c)
  <2>1. pc[c] = "clean" /\ UNCHANGED <<clients, current, seen>> /\ RoomOf(c) = current[c]
    BY <1>3 DEF CleanLock, registry, RoomOf
  <2>2. CASE c \in clients
    <3>1. /\ old'[c] = current[c] /\ UNCHANGED <<task, room, who>>
          /\ pc'[c] = IF current[c] # NoRoom THEN "check" ELSE "forget"
      BY <1>1, <1>3, <2>2 DEF CleanLock, TypeOK
    <3>2. RoomOf(c)' = RoomOf(c) /\ Solo(c)'
      BY <1>1, <2>1, <2>2, <3>1 DEF RoomOf, Solo, LeaveLabels
    <3> QED
      BY <2>1, <3>2 DEF Amounts
  <2>3. CASE c \notin clients
    <3>1. pc'[c] = "dead" /\ task'[c] = "none" /\ who'[c] = c
      BY <1>1, <1>2, <1>3, <2>3 DEF CleanLock
    <3>2. RoomOf(c)' = RoomOf(c) /\ Solo(c)'
      BY <1>1, <2>1, <3>1 DEF RoomOf, Solo, LeaveLabels
    <3> QED
      BY <2>1, <3>2 DEF Amounts
  <2> QED
    BY <2>2, <2>3
<1>4. CASE Forget(c)
  <2>1. /\ pc[c] = "forget" /\ clients' = clients \ {c} /\ UNCHANGED <<current, seen>>
        /\ \/ pc'[c] = "members" /\ task'[c] = "final" /\ who'[c] = c
           \/ pc'[c] = "dead" /\ task'[c] = "none" /\ who'[c] = c
        /\ pc'[c] = "members" => old'[c] # NoRoom
    BY <1>1, <1>2, <1>4 DEF Forget, Goto, locals, TypeOK
  <2>2. c \in clients /\ current[c] = NoRoom /\ Atomic!Quiet
    BY <1>1, <2>1, NothingSent DEF Solo, Holds
  <2>3. RoomOf(c)' = NoRoom /\ Solo(c)'
    BY <1>1, <2>1, <2>2 DEF RoomOf, Solo, LeaveLabels
  <2> QED
    BY <2>1, <2>2, <2>3 DEF Amounts
<1> QED
  BY <1>3, <1>4

\* Every step of a handler is a step of AtomicRooms, or none that shows there.
LEMMA StepImplements ==
    IInv /\ SoloInv /\ uses = {} /\ [Next]_vars => SoloInv' /\ [Atomic!Next]_Atomic!vars
<1> SUFFICES ASSUME IInv, SoloInv, uses = {}, [Next]_vars
             PROVE  SoloInv' /\ [Atomic!Next]_Atomic!vars
  OBVIOUS
<1>1. ASSUME NEW c \in Conns, HandlerStep(c) \/ RequestStep(c)
      PROVE  SoloInv' /\ [Atomic!Next]_Atomic!vars
  <2>1. Frame(c) /\ Elsewhere(c)
    BY <1>1, OneThread, OneConnection DEF IInv
  <2>2. ~LeaveOK(c) /\ ~KickNotice(c) /\ ~KickClose(c)
    BY SoloFacts DEF LeaveOK, KickNotice, KickClose
  <2>3. Amounts(c)
    BY <1>1, <2>2, RequestAmounts, LeaveAmounts, JoinAmounts, BcastAmounts, CleanAmounts
       DEF HandlerStep, RequestStep, Handler
  <2> QED
    BY <2>1, <2>3, AmountsToStep
<1>2. CASE UNCHANGED vars
  BY <1>2 DEF vars, registry, locals, SoloInv, Solo, Atomic!vars, RoomOf
<1> QED
  BY <1>1, <1>2 DEF Next

\* What holds of the threads is inductive: uses never changes.
LEMMA NextSoloInv == IInv /\ SoloInv /\ [Next]_vars => SoloInv'
<1>1. [Next]_vars => uses' = uses
  BY DEF Next, HandlerStep, RequestStep, vars
<1> QED
  BY <1>1, StepImplements DEF SoloInv

\* At the start everybody is in no room, there as here.
LEMMA InitSoloInv == Init => SoloInv /\ Atomic!Init
BY DEF Init, SoloInv, Solo, LeaveLabels, Atomic!Init, RoomOf

\* As long as nobody leaves, is kicked or authenticates again, the steps of the
\* handlers are steps of
\* AtomicRooms: rooms change in one step and a broadcast is to the members there
\* are.
THEOREM AtomicRoomsImplemented == Spec => ImplementsAtomicRooms
<1>1. Init => SoloInv /\ (uses = {} => Atomic!Init)
  BY InitSoloInv
<1>2. IInv /\ SoloInv /\ [Next]_vars => [uses = {} => [Atomic!Next]_Atomic!vars]_vars
  BY StepImplements
<1> QED
  BY <1>1, <1>2, NextSoloInv, Invariance, PTL DEF Spec, ImplementsAtomicRooms

\* So a behaviour in which nobody leaves, is kicked or authenticates again is a
\* behaviour of
\* AtomicRooms.
THEOREM AtomicRoomsRefined == Spec /\ uses = {} => Atomic!Spec
<1>1. uses = {} /\ [Next]_vars => (uses = {})'
  BY DEF Next, HandlerStep, RequestStep, vars
<1> QED
  BY <1>1, InitSoloInv, NextSoloInv, StepImplements, Invariance, PTL DEF Spec, Atomic!Spec
=============================================================================
