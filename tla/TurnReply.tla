------------------------------ MODULE TurnReply ------------------------------
(***************************************************************************)
(* What a turn promises the chat, whatever carries the answer to it (the   *)
(* subprocess, its stdout, the chunks, the lines, the sends): the answer   *)
(* is shown as Pi says it, delta by delta and nothing but its own, it is   *)
(* taken for complete once Pi has ended the run and all of it has come,    *)
(* and a turn that gets no such end fails.  No draft follows either.       *)
(* PiTurn implements this specification: see PiTurn!Reply.                 *)
(***************************************************************************)
EXTENDS Naturals, Sequences

CONSTANT Turns      \* the turns of a chat

VARIABLES
    stage,      \* stage[t]: how far the reply to turn t has come
    said,       \* said[t]: how many deltas Pi has said of it
    ended,      \* ended[t]: Pi has ended the run, or rejected the prompt
    shown,      \* shown[t]: the deltas that the relay has, as pairs <<turn, n>>
    draft       \* draft[t]: a draft of them is still to be sent

replyVars == <<stage, said, ended, shown, draft>>

Stages == {"none", "open", "whole", "delivered", "failed"}

ReplyTypeOK ==
    /\ stage \in [Turns -> Stages] /\ said \in [Turns -> Nat]
    /\ ended \in [Turns -> BOOLEAN] /\ draft \in [Turns -> BOOLEAN]
    /\ shown \in [Turns -> Seq(Turns \X Nat)]

ReplyInit ==
    /\ stage = [t \in Turns |-> "none"]
    /\ said = [t \in Turns |-> 0]
    /\ ended = [t \in Turns |-> FALSE]
    /\ shown = [t \in Turns |-> <<>>]
    /\ draft = [t \in Turns |-> FALSE]

\* All that Pi has said of a turn.
Answer(t) == [i \in 1 .. said[t] |-> <<t, i>>]

Goes(t, from, to) == stage[t] = from /\ stage' = [stage EXCEPT ![t] = to]

\* A turn begins, or fails to.
Begin(t) ==
    /\ Goes(t, "none", "open") \/ Goes(t, "none", "failed")
    /\ UNCHANGED <<said, ended, shown, draft>>

Say(t) ==
    /\ stage[t] = "open" /\ ~ended[t]
    /\ said' = [said EXCEPT ![t] = @ + 1]
    /\ UNCHANGED <<stage, ended, shown, draft>>

EndRun(t) ==
    /\ stage[t] = "open" /\ ~ended[t]
    /\ ended' = [ended EXCEPT ![t] = TRUE]
    /\ UNCHANGED <<stage, said, shown, draft>>

\* The next delta is shown, and a draft of it may be put off.
Show(t) ==
    /\ stage[t] = "open" /\ Len(shown[t]) < said[t]
    /\ shown' = [shown EXCEPT ![t] = Append(@, <<t, Len(@) + 1>>)]
    /\ \E later \in BOOLEAN :
        /\ draft[t] => later
        /\ draft' = [draft EXCEPT ![t] = later]
    /\ UNCHANGED <<stage, said, ended>>

SendDraft(t) ==
    /\ stage[t] = "open" /\ draft[t]
    /\ draft' = [draft EXCEPT ![t] = FALSE]
    /\ UNCHANGED <<stage, said, ended, shown>>

\* The answer is complete.
Complete(t) ==
    /\ ended[t] /\ shown[t] = Answer(t)
    /\ Goes(t, "open", "whole")
    /\ draft' = [draft EXCEPT ![t] = FALSE]
    /\ UNCHANGED <<said, ended, shown>>

\* A turn fails when its run never ended, or the chat took none of the answer.
Fail(t) ==
    /\ (Goes(t, "open", "failed") /\ ~ended[t]) \/ Goes(t, "whole", "failed")
    /\ shown' = [shown EXCEPT ![t] = <<>>]
    /\ draft' = [draft EXCEPT ![t] = FALSE]
    /\ UNCHANGED <<said, ended>>

Deliver(t) ==
    /\ Goes(t, "whole", "delivered")
    /\ UNCHANGED <<said, ended, shown, draft>>

ReplyNext ==
    \E t \in Turns :
        \/ Begin(t) \/ Say(t) \/ EndRun(t) \/ Show(t) \/ SendDraft(t)
        \/ Complete(t) \/ Fail(t) \/ Deliver(t)

ReplySpec == ReplyInit /\ [][ReplyNext]_replyVars
=============================================================================
