-------------------------- MODULE MCMessageQueue --------------------------
(* MessageQueue on a small instance for TLC. *)
EXTENDS MessageQueue

CONSTANT c1
=============================================================================
