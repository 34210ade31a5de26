-------------------------- MODULE MCSessionManager --------------------------
(* SessionManager on small instances for TLC. *)
EXTENDS SessionManager, TLC

Symmetric == Permutations(Chats) \cup Permutations(Calls)
=============================================================================
