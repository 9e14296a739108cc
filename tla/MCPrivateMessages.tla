-------------------------- MODULE MCPrivateMessages --------------------------
(* Instances of PrivateMessages for TLC: the client on c1 sends messages, the *)
(* others come and go.                                                        *)
EXTENDS PrivateMessages, TLC

CONSTANT c1

MCTypes == [c \in Conns |-> IF c = c1 THEN {"LOGIN", "PM"} ELSE {"LOGIN", "LOGOUT"}]
=============================================================================
