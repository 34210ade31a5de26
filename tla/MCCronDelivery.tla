-------------------------- MODULE MCCronDelivery --------------------------
(* One run of a task, with an output of three messages, and a bot that may *)
(* crash twice.                                                            *)
EXTENDS CronDelivery
=============================================================================
