-------------------------- MODULE MCBackendRegistry --------------------------
(* Small instances of BackendRegistry for TLC. *)
EXTENDS BackendRegistry
=============================================================================
