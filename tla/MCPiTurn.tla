------------------------------- MODULE MCPiTurn -------------------------------
(* PiTurn on small instances for TLC. *)
EXTENDS PiTurn
=============================================================================
