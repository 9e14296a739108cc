-------------------------- MODULE MCRoomDirectory --------------------------
(* Instances of RoomDirectory: one handler, two servers and two loads, which
   differ in two fields; one handler and three servers; two handlers and two
   servers; three handlers and one server. *)
EXTENDS RoomDirectory, FiniteSetsExt, TLC

Busy == [active_rooms |-> 1, active_clients |-> 5, active_transfers |-> 0]

MCLoads == {Zero, Busy}

\* k of the handlers, and servers 1..n.
Instance(k, n, loads) ==
    [handlers : kSubset(k, Handlers), servers : {1..n}, loads : {loads}]

MCBounds ==
    Instance(1, 2, {Zero, Busy}) \cup Instance(1, 3, {Zero}) \cup
    Instance(2, 2, {Zero}) \cup Instance(3, 1, {Zero})

Symmetry == Permutations(Handlers)
=============================================================================
