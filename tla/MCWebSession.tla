---------------------------- MODULE MCWebSession ----------------------------
(* Instances of WebSession: two connections that do not break, one that shares
   its room with another user, and one with two loads of the page. *)
EXTENDS WebSession, TLC

CONSTANTS c1, c2, o, p1, p2

Instance(c, d, p, b, n) == [conns |-> c, others |-> d, pollers |-> p, breaks |-> b, talk |-> n]

MCBounds ==
    {Instance({c1, c2}, {}, {p1}, {}, 0), Instance({c1}, {o}, {p1}, {c1, o}, 0),
     Instance({c1}, {}, {p1, p2}, {c1}, 1)}
=============================================================================
