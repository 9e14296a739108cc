--------------------------- MODULE MCRoomMembership ---------------------------
(* Small instances of RoomMembership for TLC: every connection belongs to a  *)
(* user of its own, and the user of c1 owns the rooms.                       *)
EXTENDS RoomMembership, TLC

CONSTANT c1

MCUserOf  == [c \in Conns |-> c]
MCOwnerOf == [r \in Rooms |-> c1]

\* c1 is the only connection that is named, and no room is.
Symmetry == Permutations(Conns \ {c1}) \cup Permutations(Rooms)
=============================================================================
