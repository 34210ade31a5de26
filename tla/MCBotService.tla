--------------------------- MODULE MCBotService ---------------------------
(* Three processes, two attempts to poll and a threshold of two intervals. *)
EXTENDS BotService
=============================================================================
