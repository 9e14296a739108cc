--------------------------- MODULE AtomicDirectory ---------------------------
(***************************************************************************)
(* What the room directory of the Gateway promises: a name gets a home     *)
(* once, in one step and for good; whoever is told where the room is is    *)
(* told that home; and one user at most is told that the room is his       *)
(* creation.  No transaction, no lock, no thread and no restart is in      *)
(* sight: RoomDirectory implements this.                                   *)
(***************************************************************************)
CONSTANTS Users, Names, Servers, NoServer

VARIABLES
    home, \* the server of every room, or NoServer
    told  \* the answers that were given

vars == <<home, told>>

Init ==
    /\ home = [n \in Names |-> NoServer]
    /\ told = {}

\* A room that is not there yet is put on a server.
Place(n, s) ==
    /\ home[n] = NoServer
    /\ home' = [home EXCEPT ![n] = s]
    /\ UNCHANGED told

Say(u, n, type) ==
    /\ home[n] # NoServer
    /\ told' = told \cup {[user |-> u, type |-> type, name |-> n, server |-> home[n]]}
    /\ UNCHANGED home

\* Its creator is told, which nobody was before.
Assign(u, n) ==
    /\ \A t \in told : t.type = "ROOM_ASSIGNED" => t.name # n
    /\ Say(u, n, "ROOM_ASSIGNED")

\* Somebody who joins is told.
Locate(u, n) == Say(u, n, "ROOM_LOCATION")

Next ==
    \E n \in Names :
        \/ \E s \in Servers : Place(n, s)
        \/ \E u \in Users : Assign(u, n) \/ Locate(u, n)

Spec == Init /\ [][Next]_vars
=============================================================================
