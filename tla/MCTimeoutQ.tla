----------------------------- MODULE MCTimeoutQ -----------------------------
(* Instances of TimeoutQ for TLC. *)
EXTENDS TimeoutQ

CONSTANTS x, y, z, w
=============================================================================
