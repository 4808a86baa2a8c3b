--------------------------- MODULE MCContextGuard ---------------------------
(* Instances of ContextGuard for TLC. *)
EXTENDS ContextGuard
=============================================================================
