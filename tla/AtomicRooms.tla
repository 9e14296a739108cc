----------------------------- MODULE AtomicRooms -----------------------------
(***************************************************************************)
(* What a process server promises of its rooms as long as members only     *)
(* join, switch, speak and disconnect: every connection is in one room or  *)
(* none, it changes rooms in one step, ends together with its membership,  *)
(* and what is sent to a room goes to the members it has, who stay the     *)
(* members until everybody was sent it.  No lock, no record and no handler *)
(* is in sight: RoomMembership implements this when nobody sends           *)
(* LEAVE_ROOM, is kicked or authenticates a second time.                   *)
(***************************************************************************)
CONSTANTS Conns, Rooms, NoRoom

VARIABLES
    clients, \* the connections that are authenticated
    at,      \* the room every connection is in
    hearing  \* per sender, who is being sent what it sends to its room

vars == <<clients, at, hearing>>

Init ==
    /\ clients = {}
    /\ at = [c \in Conns |-> NoRoom]
    /\ hearing = [c \in Conns |-> {}]

Members(r) == {c \in Conns : at[c] = r}

\* Nothing is being sent to any room.
Quiet == \A c \in Conns : hearing[c] = {}

Connect(c) ==
    /\ c \notin clients
    /\ clients' = clients \cup {c}
    /\ UNCHANGED <<at, hearing>>

\* The room the connection was in is left by the same step.
Join(c, r) ==
    /\ Quiet /\ c \in clients
    /\ at' = [at EXCEPT ![c] = r]
    /\ UNCHANGED <<clients, hearing>>

Gone(c) ==
    /\ Quiet /\ c \in clients
    /\ clients' = clients \ {c}
    /\ at' = [at EXCEPT ![c] = NoRoom]
    /\ UNCHANGED hearing

\* A member, or one who is gone, tells the room.
Tell(c, r) ==
    /\ Quiet /\ (at[c] = r \/ c \notin clients)
    /\ hearing' = [hearing EXCEPT ![c] = Members(r)]
    /\ UNCHANGED <<clients, at>>

Told(c) ==
    /\ hearing' = [hearing EXCEPT ![c] = {}]
    /\ UNCHANGED <<clients, at>>

Next ==
    \E c \in Conns :
        \/ Connect(c) \/ Gone(c) \/ Told(c)
        \/ \E r \in Rooms : Join(c, r) \/ Tell(c, r)

Spec == Init /\ [][Next]_vars
=============================================================================
