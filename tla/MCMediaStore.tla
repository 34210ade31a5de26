---------------------------- MODULE MCMediaStore ----------------------------
(* MediaStore on small instances for TLC. *)
EXTENDS MediaStore, TLC

Symmetric == Permutations(Chats) \cup Permutations(Turns)
=============================================================================
