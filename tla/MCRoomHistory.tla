---------------------------- MODULE MCRoomHistory ----------------------------
(* Instances of RoomHistory: the id of the second card begins with the id of *)
(* the first.                                                                *)
EXTENDS RoomHistory

CONSTANTS o, c, x, k1, k12

MCAlike == [k \in {k1, k12} |-> IF k = k1 THEN {k1, k12} ELSE {k12}]

MCTime == [m \in {x, k1, k12} |-> IF m = k12 THEN 1 ELSE 0]

MCBounds == {[messages |-> {k1, k12}, pages |-> {c}, requests |-> 1, changes |-> 2],
             [messages |-> {x, k1}, pages |-> {c}, requests |-> 2, changes |-> 1],
             [messages |-> {k1}, pages |-> {c}, requests |-> 3, changes |-> 1],
             [messages |-> {k1}, pages |-> {o, c}, requests |-> 1, changes |-> 1],
             [messages |-> {x}, pages |-> {o, c}, requests |-> 1, changes |-> 2]}
=============================================================================
