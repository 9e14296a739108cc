--------------------------- MODULE SessionRegistry ---------------------------
(***************************************************************************)
(* What the Gateway's session registry promises to the rest of the system: *)
(* a set of sessions, at most one for a user name, and a presence row for  *)
(* every user.  A session begins and ends together with its presence row,  *)
(* in one step, and apart from the reports of process servers the row only *)
(* ever repeats what the user's session says.  No lock, no token, no index *)
(* and no thread is in sight: GatewaySessions implements this.             *)
(***************************************************************************)
CONSTANTS Users, Conns, Places, NoRow

VARIABLES
    sessions,   \* set of [user, conn, place]
    shown       \* the presence row of every user, or NoRow

vars == <<sessions, shown>>

Record == [user : Users, conn : Conns, place : Places]

Init ==
    /\ sessions = {}
    /\ shown = [u \in Users |-> NoRow]

HasSession(u) == \E s \in sessions : s.user = u

\* A user without a session gets one.
LogIn(u, c) ==
    /\ ~HasSession(u)
    /\ sessions' = sessions \cup {[user |-> u, conn |-> c, place |-> "online"]}
    /\ shown' = [shown EXCEPT ![u] = "online"]

\* Logout, expiry, pruning, the end of the connection, the next login.
End(s) ==
    /\ s \in sessions
    /\ sessions' = sessions \ {s}
    /\ shown' = [shown EXCEPT ![s.user] = "offline"]

\* The user sends a packet: the row is written again from the session.
Refresh(s) ==
    /\ s \in sessions
    /\ shown' = [shown EXCEPT ![s.user] = s.place]
    /\ UNCHANGED sessions

\* A process server reports where a user it knows is.  It never reports the
\* place a login gives.
Report(u, p) ==
    /\ shown[u] # NoRow
    /\ shown' = [shown EXCEPT ![u] = p]
    /\ UNCHANGED sessions

\* The report reaches the session, if the user has one by then.
Settle(s, p) ==
    /\ s \in sessions
    /\ sessions' = (sessions \ {s}) \cup {[s EXCEPT !.place = p]}
    /\ UNCHANGED shown

Next ==
    \/ \E u \in Users, c \in Conns : LogIn(u, c)
    \/ \E s \in sessions : End(s) \/ Refresh(s)
    \/ \E u \in Users, p \in Places \ {"online"} : Report(u, p)
    \/ \E s \in sessions, p \in Places \ {"online"} : Settle(s, p)

Spec == Init /\ [][Next]_vars
=============================================================================
