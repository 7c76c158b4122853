--------------------------- MODULE MCStateManager ---------------------------
(* The state manager and its lock manager with a few callers of one intent. *)
EXTENDS StateManager
=============================================================================
