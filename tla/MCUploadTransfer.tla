--------------------------- MODULE MCUploadTransfer ---------------------------
(* TLC instances of UploadTransfer.                                          *)
EXTENDS UploadTransfer, TLC

Symmetry == Permutations(Runs) \cup Permutations(Handlers)
=============================================================================
