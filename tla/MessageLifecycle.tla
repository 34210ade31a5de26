-------------------------- MODULE MessageLifecycle --------------------------
(***************************************************************************)
(* What message-queue.ts promises about one message, whatever the          *)
(* buffers, timers and turns that carry it: it waits, it is handed to the  *)
(* agent at most once, and it ends in exactly one of two ways.  Either the *)
(* agent took ownership of it (its media outlive the turn) or its media    *)
(* are reclaimed by the drop cleanup.  MessageQueue implements this        *)
(* specification: see MessageQueue!Lifecycle.                              *)
(***************************************************************************)
EXTENDS Naturals

CONSTANT Messages      \* the messages that can ever arrive

VARIABLE status        \* status[m]: how far message m has come

Stages == {"new", "waiting", "handed", "owned", "kept", "reclaimed"}

LifeTypeOK == status \in [Messages -> Stages]

LifeInit == status = [m \in Messages |-> "new"]

\* The messages of S, all of them at one of the stages "from", move to "to".
Move(S, from, to) ==
    /\ \A m \in S : status[m] \in from
    /\ status' = [m \in Messages |-> IF m \in S THEN to ELSE status[m]]

\* enqueue accepts a message, or drops it because the buffer is full.
Arrive(m) == Move({m}, {"new"}, "waiting") \/ Move({m}, {"new"}, "reclaimed")

\* flush and drainCollectBuffer hand a whole batch to the agent.
Hand(S) == Move(S, {"waiting"}, "handed")

\* The agent accepts the batch.
Own(S) == Move(S, {"handed"}, "owned")

\* clear and clearAll reclaim what still waits.
Reclaim(S) == Move(S, {"waiting"}, "reclaimed")

\* A turn ends: an owned batch stays with the session, any other is reclaimed;
\* the messages collected meanwhile (T) are handed over in the same step.
Settle(S, T) ==
    \E from \in {"handed", "owned"} :
        LET to == IF from = "owned" THEN "kept" ELSE "reclaimed" IN
        /\ \A m \in S : status[m] = from
        /\ \A m \in T : status[m] = "waiting"
        /\ status' = [m \in Messages |-> IF m \in S THEN to
                                         ELSE IF m \in T THEN "handed"
                                         ELSE status[m]]

LifeNext ==
    \/ \E m \in Messages : Arrive(m)
    \/ \E S \in SUBSET Messages : Hand(S) \/ Own(S) \/ Reclaim(S)
    \/ \E S, T \in SUBSET Messages : Settle(S, T)

LifeSpec == LifeInit /\ [][LifeNext]_status
=============================================================================
