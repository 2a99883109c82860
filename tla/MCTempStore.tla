----------------------------- MODULE MCTempStore -----------------------------
(* Small instances of TempStore for TLC. *)
EXTENDS TempStore
=============================================================================
