-------------------------- MODULE MCGatewaySessions --------------------------
(* Small instances of GatewaySessions for TLC. *)
EXTENDS GatewaySessions, TLC

Symmetry == Permutations(Users) \cup Permutations(Conns) \cup Permutations(Tokens)
=============================================================================
