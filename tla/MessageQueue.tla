---------------------------- MODULE MessageQueue ----------------------------
(***************************************************************************)
(* The per-chat message queue of bot/src/message-queue.ts: pre-send        *)
(* debounce, mid-turn collect, and the two kinds of cleanup callback every *)
(* message brings with it.                                                 *)
(*                                                                         *)
(* A message is its arrival number.  The three parallel arrays of a buffer *)
(* (texts, cleanups, drop cleanups) are pushed and spliced together, so a  *)
(* buffer is the set of its messages; arrival numbers give their order.    *)
(*                                                                         *)
(* The program is one JavaScript event loop: a step runs from one await to *)
(* the next.  A turn is one iteration of "splice the buffer, await         *)
(* processFn, await replyError if it threw, clean up" in flush or in       *)
(* drainCollectBuffer.  clear() deletes the chat's entry while its turn is *)
(* suspended: the turn lives on, detached from the map, and a new entry    *)
(* (and a second turn) may appear next to it.                              *)
(***************************************************************************)
EXTENDS Naturals, FiniteSets

CONSTANTS
    Chats,         \* chat ids, the keys of the queues Map
    QueueCap,      \* options.queueCap
    MaxMessages    \* bound: messages that ever arrive

ASSUME QueueCapAssumption == QueueCap \in Nat \ {0}
ASSUME MaxMessagesAssumption == MaxMessages \in Nat

Messages == 1 .. MaxMessages

VARIABLES
    count,      \* messages that have arrived so far
    queues,     \* the Map: the ChatQueueState of each chat, or NoState
    turn,       \* the turn of the entry that is in the map, or NoTurn(c)
    stale,      \* turns whose entry clear() has removed from the map
    evicting,   \* per chat: flushes suspended just before their evictIfIdle
    phase,      \* how far main.ts has come in its shutdown sequence
    cleaned,    \* history: runs of each message's cleanup callback
    dropped,    \* history: runs of each message's dropCleanup callback
    agentOwns,  \* history: messages whose ownership was transferred
    handed      \* history: messages passed to processFn, per chat

vars == <<count, queues, turn, stale, evicting, phase,
          cleaned, dropped, agentOwns, handed>>

NoState == [pending |-> {}, collect |-> {}, timer |-> FALSE,
            busy |-> FALSE, inMap |-> FALSE]

\* getState: a chat without an entry gets a fresh one.
GetState(c) == [queues[c] EXCEPT !.inMap = TRUE]

States == [pending : SUBSET Messages, collect : SUBSET Messages,
           timer : BOOLEAN, busy : BOOLEAN, inMap : BOOLEAN]

\* msgs: the batch; drain: it is an iteration of drainCollectBuffer;
\* owned: liveDropCleanups is null; step: what is awaited.
Turns == [chat : Chats, msgs : SUBSET Messages, drain : BOOLEAN,
          owned : BOOLEAN, step : {"process", "reply"}]

NewTurn(c, S, d) == [chat |-> c, msgs |-> S, drain |-> d,
                     owned |-> FALSE, step |-> "process"]

NoTurn(c) == NewTurn(c, {}, FALSE)

Phases == {"running", "stopping", "cleared", "exited"}

Init ==
    /\ count = 0
    /\ queues = [c \in Chats |-> NoState]
    /\ turn = [c \in Chats |-> NoTurn(c)]
    /\ stale = {}
    /\ evicting = [c \in Chats |-> 0]
    /\ phase = "running"
    /\ cleaned = [m \in Messages |-> 0]
    /\ dropped = [m \in Messages |-> 0]
    /\ agentOwns = {}
    /\ handed = [c \in Chats |-> {}]

\* Call the callback of every message of S once.
Run(f, S) == [m \in Messages |-> IF m \in S THEN f[m] + 1 ELSE f[m]]

----------------------------------------------------------------------------
(* Enqueue: four ways through one call, each taking the next arrival.      *)

Arrives ==
    /\ phase # "exited"
    /\ count < MaxMessages
    /\ count' = count + 1

Arrival == count + 1     \* the message the call brings

\* Mutant of Full: off by one.
FullOneLate(buffer) == Cardinality(buffer) > QueueCap

Full(buffer) == Cardinality(buffer) >= QueueCap

\* Mid-turn: the message waits for the turn that is running to end.
EnqueueCollect(c) ==
    /\ Arrives
    /\ queues[c].busy
    /\ ~Full(queues[c].collect)
    /\ queues' = [queues EXCEPT ![c].collect = @ \cup {Arrival}]
    /\ UNCHANGED <<turn, stale, evicting, phase, cleaned, dropped, agentOwns, handed>>

\* Idle: the message joins the debounce buffer and the timer starts over.
EnqueuePending(c) ==
    /\ Arrives
    /\ ~queues[c].busy
    /\ ~Full(queues[c].pending)
    /\ queues' = [queues EXCEPT ![c] = [GetState(c) EXCEPT !.pending = @ \cup {Arrival},
                                                           !.timer = TRUE]]
    /\ UNCHANGED <<turn, stale, evicting, phase, cleaned, dropped, agentOwns, handed>>

\* The buffer is at its cap: the message is dropped and both callbacks run.
EnqueueDrop(c) ==
    /\ Arrives
    /\ Full(IF queues[c].busy THEN queues[c].collect ELSE queues[c].pending)
    /\ queues' = [queues EXCEPT ![c] = GetState(c)]
    /\ cleaned' = Run(cleaned, {Arrival})
    /\ dropped' = Run(dropped, {Arrival})
    /\ UNCHANGED <<turn, stale, evicting, phase, agentOwns, handed>>

Enqueue(c) == EnqueueCollect(c) \/ EnqueuePending(c) \/ EnqueueDrop(c)

----------------------------------------------------------------------------
(* Turns.                                                                  *)

\* The debounce timer fires.  Timers are macrotasks: none fires while the
\* continuation of an await that is already settled is queued (evicting).
Flush(c) ==
    /\ phase # "exited"
    /\ \A d \in Chats : evicting[d] = 0
    /\ queues[c].timer
    /\ queues[c].pending # {}
    /\ queues' = [queues EXCEPT ![c].pending = {}, ![c].timer = FALSE, ![c].busy = TRUE]
    /\ turn' = [turn EXCEPT ![c] = NewTurn(c, queues[c].pending, FALSE)]
    /\ handed' = [handed EXCEPT ![c] = @ \cup queues[c].pending]
    /\ UNCHANGED <<count, stale, evicting, phase, cleaned, dropped, agentOwns>>

\* relayStream saw the first event of the agent and calls onAgentOwnership
\* while the chat's entry is still the one the turn started from.
TransferOwnership(c) ==
    /\ phase # "exited"
    /\ queues[c].busy
    /\ turn[c].step = "process"
    /\ ~turn[c].owned
    /\ turn' = [turn EXCEPT ![c].owned = TRUE]
    /\ agentOwns' = agentOwns \cup turn[c].msgs
    /\ UNCHANGED <<count, queues, stale, evicting, phase, cleaned, dropped, handed>>

\* processFn throws: the turn awaits replyError, the chat stays busy.
ProcessFails(c) ==
    /\ phase # "exited"
    /\ queues[c].busy
    /\ turn[c].step = "process"
    /\ turn' = [turn EXCEPT ![c].step = "reply"]
    /\ UNCHANGED <<count, queues, stale, evicting, phase, cleaned, dropped, agentOwns, handed>>

\* The drop cleanups a turn still has to run when it ends.
LiveDrops(t) == IF t.owned THEN {} ELSE t.msgs

\* Mutant of FinishTurn: the chat is idle before its collect buffer is drained.
FinishTurnWithoutDrain(c) ==
    /\ phase # "exited"
    /\ queues[c].busy
    /\ cleaned' = Run(cleaned, turn[c].msgs)
    /\ dropped' = Run(dropped, LiveDrops(turn[c]))
    /\ queues' = [queues EXCEPT ![c].busy = FALSE]
    /\ turn' = [turn EXCEPT ![c] = NoTurn(c)]
    /\ evicting' = [evicting EXCEPT ![c] = @ + 1]
    /\ UNCHANGED <<count, stale, phase, agentOwns, handed>>

\* Mutant of FinishTurn: a turn that drained nothing forgets to look for eviction.
FinishTurnWithoutEvict(c) ==
    LET batch == queues[c].collect IN
    /\ phase # "exited"
    /\ queues[c].busy
    /\ cleaned' = Run(cleaned, turn[c].msgs)
    /\ dropped' = Run(dropped, LiveDrops(turn[c]))
    /\ queues' = [queues EXCEPT ![c].collect = {}, ![c].busy = batch # {}]
    /\ turn' = [turn EXCEPT ![c] = IF batch = {} THEN NoTurn(c) ELSE NewTurn(c, batch, TRUE)]
    /\ handed' = [handed EXCEPT ![c] = @ \cup batch]
    /\ UNCHANGED <<count, stale, evicting, phase, agentOwns>>

\* Mutant of FinishTurn: the drain is an if, not a loop.
FinishTurnDrainsOnce(c) ==
    LET batch == IF turn[c].drain THEN {} ELSE queues[c].collect IN
    /\ phase # "exited"
    /\ queues[c].busy
    /\ cleaned' = Run(cleaned, turn[c].msgs)
    /\ dropped' = Run(dropped, LiveDrops(turn[c]))
    /\ queues' = [queues EXCEPT ![c].collect = @ \ batch, ![c].busy = batch # {}]
    /\ turn' = [turn EXCEPT ![c] = IF batch = {} THEN NoTurn(c) ELSE NewTurn(c, batch, TRUE)]
    /\ handed' = [handed EXCEPT ![c] = @ \cup batch]
    /\ evicting' = [evicting EXCEPT ![c] = IF batch = {} THEN @ + 1 ELSE @]
    /\ UNCHANGED <<count, stale, phase, agentOwns>>

\* processFn (or replyError after it) settles: clean up, then either drain
\* what was collected meanwhile in a new turn or go and look for eviction.
FinishTurn(c) ==
    LET batch == queues[c].collect IN
    /\ phase # "exited"
    /\ queues[c].busy
    /\ cleaned' = Run(cleaned, turn[c].msgs)
    /\ dropped' = Run(dropped, LiveDrops(turn[c]))
    /\ queues' = [queues EXCEPT ![c].collect = {}, ![c].busy = batch # {}]
    /\ turn' = [turn EXCEPT ![c] = IF batch = {} THEN NoTurn(c) ELSE NewTurn(c, batch, TRUE)]
    /\ handed' = [handed EXCEPT ![c] = @ \cup batch]
    /\ evicting' = [evicting EXCEPT ![c] = IF batch = {} THEN @ + 1 ELSE @]
    /\ UNCHANGED <<count, stale, phase, agentOwns>>

\* The same failure in a turn whose entry was cleared.
StaleFails(t) ==
    /\ phase # "exited"
    /\ t.step = "process"
    /\ stale' = (stale \ {t}) \cup {[t EXCEPT !.step = "reply"]}
    /\ UNCHANGED <<count, queues, turn, evicting, phase, cleaned, dropped, agentOwns, handed>>

\* Mutant of FinishStale: it returns on queueCleared before the live drop cleanups.
FinishStaleWithoutDrops(t) ==
    /\ phase # "exited"
    /\ cleaned' = Run(cleaned, t.msgs)
    /\ stale' = stale \ {t}
    /\ evicting' = [evicting EXCEPT ![t.chat] = IF t.drain THEN @ + 1 ELSE @]
    /\ UNCHANGED <<count, queues, turn, phase, dropped, agentOwns, handed>>

\* A cleared turn ends: its own callbacks run, and it returns before it
\* touches the chat's entry (queueCleared).  From drainCollectBuffer it returns
\* into flush, which still calls evictIfIdle.  A late onAgentOwnership call in
\* it was ignored, so TransferOwnership has no counterpart here.
FinishStale(t) ==
    /\ phase # "exited"
    /\ cleaned' = Run(cleaned, t.msgs)
    /\ dropped' = Run(dropped, LiveDrops(t))
    /\ stale' = stale \ {t}
    /\ evicting' = [evicting EXCEPT ![t.chat] = IF t.drain THEN @ + 1 ELSE @]
    /\ UNCHANGED <<count, queues, turn, phase, agentOwns, handed>>

Idle(s) == ~s.busy /\ s.pending = {} /\ s.collect = {} /\ ~s.timer

\* evictIfIdle looks the chat up again: the entry may have changed since.
EvictIfIdle(c) ==
    /\ phase # "exited"
    /\ evicting[c] > 0
    /\ evicting' = [evicting EXCEPT ![c] = @ - 1]
    /\ queues' = IF Idle(queues[c]) THEN [queues EXCEPT ![c] = NoState] ELSE queues
    /\ UNCHANGED <<count, turn, stale, phase, cleaned, dropped, agentOwns, handed>>

----------------------------------------------------------------------------
(* Clearing and shutdown.                                                  *)

Buffered(c) == queues[c].pending \cup queues[c].collect

\* The turns that lose their entry when the chats of C are cleared.
Detached(C) == {turn[c] : c \in {d \in C : queues[d].busy}}

\* Mutant of ClearChats: the callbacks of the collect buffer are forgotten.
ClearChatsPendingOnly(C) ==
    LET gone == {m \in Messages : \E c \in C : m \in queues[c].pending} IN
    /\ cleaned' = Run(cleaned, gone)
    /\ dropped' = Run(dropped, gone)
    /\ stale' = stale \cup Detached(C)
    /\ queues' = [c \in Chats |-> IF c \in C THEN NoState ELSE queues[c]]
    /\ turn' = [c \in Chats |-> IF c \in C THEN NoTurn(c) ELSE turn[c]]

ClearChats(C) ==
    LET gone == {m \in Messages : \E c \in C : m \in Buffered(c)} IN
    /\ cleaned' = Run(cleaned, gone)
    /\ dropped' = Run(dropped, gone)
    /\ stale' = stale \cup Detached(C)
    /\ queues' = [c \in Chats |-> IF c \in C THEN NoState ELSE queues[c]]
    /\ turn' = [c \in Chats |-> IF c \in C THEN NoTurn(c) ELSE turn[c]]

\* /reconnect or /clean.
Clear(c) ==
    /\ phase # "exited"
    /\ queues[c].inMap
    /\ ClearChats({c})
    /\ UNCHANGED <<count, evicting, phase, agentOwns, handed>>

\* shutdown(): the timers are cancelled before the wait for busy sessions.
CancelAllDebounceTimers ==
    /\ phase = "running"
    /\ phase' = "stopping"
    /\ queues' = [c \in Chats |-> [queues[c] EXCEPT !.timer = FALSE]]
    /\ UNCHANGED <<count, turn, stale, evicting, cleaned, dropped, agentOwns, handed>>

\* The wait is over, finished or timed out, and every queue is cleared.
ClearAll ==
    /\ phase = "stopping"
    /\ phase' = "cleared"
    /\ ClearChats(Chats)
    /\ UNCHANGED <<count, evicting, agentOwns, handed>>

\* process.exit(0), with whatever is still in memory.
Exit ==
    /\ phase = "cleared"
    /\ phase' = "exited"
    /\ UNCHANGED <<count, queues, turn, stale, evicting, cleaned, dropped, agentOwns, handed>>

----------------------------------------------------------------------------

Next ==
    \/ \E c \in Chats : \/ Enqueue(c) \/ Flush(c) \/ TransferOwnership(c)
                         \/ ProcessFails(c) \/ FinishTurn(c) \/ EvictIfIdle(c)
                         \/ Clear(c)
    \/ \E t \in stale : StaleFails(t) \/ FinishStale(t)
    \/ CancelAllDebounceTimers \/ ClearAll \/ Exit

Spec == Init /\ [][Next]_vars

\* Timers fire, queued continuations run, and every processFn and replyError
\* settles (the session manager kills an agent that stays silent).  Nobody is
\* obliged to send a message, to clear a chat or to stop the bot.
Fairness ==
    /\ \A c \in Chats : /\ WF_vars(Flush(c))
                        /\ WF_vars(FinishTurn(c))
                        /\ WF_vars(EvictIfIdle(c))
    /\ WF_vars(\E t \in stale : FinishStale(t))

FairSpec == Spec /\ Fairness

----------------------------------------------------------------------------
(* Properties.                                                             *)

TypeOK ==
    /\ count \in 0 .. MaxMessages
    /\ queues \in [Chats -> States]
    /\ turn \in [Chats -> Turns]
    /\ stale \subseteq Turns
    /\ evicting \in [Chats -> Nat]
    /\ phase \in Phases
    /\ cleaned \in [Messages -> Nat]
    /\ dropped \in [Messages -> Nat]
    /\ agentOwns \subseteq Messages
    /\ handed \in [Chats -> SUBSET Messages]

InTurn(m) == (\E t \in stale : m \in t.msgs) \/ (\E c \in Chats : m \in turn[c].msgs)

InBuffer(m) == \E c \in Chats : m \in Buffered(c)

\* Arrived, and neither buffered nor in a turn any more.
Gone(m) == m <= count /\ ~InTurn(m) /\ ~InBuffer(m)

\* The cleanup callback of a message (release of a temp or in-flight file)
\* runs exactly once: never while the message is still buffered or in a turn,
\* and at the very step that lets go of it, whichever of flush, drain, drop,
\* clear, clearAll and a cleared turn that is.
CleanedOnce ==
    \A m \in Messages : cleaned[m] = IF Gone(m) THEN 1 ELSE 0

\* The dropCleanup callback (delete the media from disk) runs exactly once for a
\* message that is gone and that the agent never owned, and never for one that
\* it owns: not when the relay fails afterwards (issue #99), not on /reconnect.
DroppedUnlessOwned ==
    \A m \in Messages :
        dropped[m] = IF Gone(m) /\ m \notin agentOwns THEN 1 ELSE 0

\* busy is the truth about the entry's turn, also while cleared turns of the same
\* chat end around it: at most one turn works for an entry, and it has a batch.
BusyIsTheTurn ==
    \A c \in Chats : IF queues[c].busy THEN turn[c].msgs # {} /\ queues[c].inMap
                                        ELSE turn[c] = NoTurn(c)

\* Until the bot stops, every buffered message has something that will take it
\* out: a timer for the debounce buffer, a running turn for the collect buffer.
\* A chat never has both, so no timer can start a second turn of one entry.
HasAWaker ==
    \A c \in Chats :
        /\ queues[c].collect # {} => queues[c].busy
        /\ queues[c].busy => queues[c].pending = {} /\ ~queues[c].timer
        /\ queues[c].timer => queues[c].pending # {}
        /\ phase = "running" /\ queues[c].pending # {} => queues[c].timer

\* A message is in one place only.  handed[c] is every batch of chat c so far, so
\* a buffered message of any chat was never handed to any agent, and the turns
\* that exist at one time, cleared ones included, carry disjoint batches.
OneHome ==
    /\ \A c \in Chats : handed[c] \cup Buffered(c) \subseteq 1 .. count
    /\ \A c \in Chats : turn[c].chat = c /\ turn[c].msgs \subseteq handed[c]
    /\ \A t \in stale : t.msgs # {} /\ t.msgs \subseteq handed[t.chat]
    /\ \A c \in Chats : \A m \in Buffered(c), k \in handed[c] : k < m
    /\ \A c, d \in Chats : c # d =>
          /\ handed[c] \cap handed[d] = {}
          /\ (handed[c] \cup Buffered(c)) \cap Buffered(d) = {}
    /\ \A c \in Chats, t \in stale : turn[c].msgs \cap t.msgs = {}
    /\ \A t, u \in stale : t # u => t.msgs \cap u.msgs = {}

\* liveDropCleanups of every turn, cleared or not, says whether the agent owns
\* its batch: all of it or none of it.
TurnKnowsOwner ==
    /\ \A t \in stale \cup {turn[c] : c \in Chats} :
          IF t.owned THEN t.msgs \subseteq agentOwns ELSE t.msgs \cap agentOwns = {}
    /\ \A m \in agentOwns : \E c \in Chats : m \in handed[c]

\* What one chat holds for its entry stays below two buffers: a batch in
\* progress and a full collect buffer, whatever the order of bursts and turns.
EntryIsBounded ==
    \A c \in Chats : Cardinality(Buffered(c) \cup turn[c].msgs) <= 2 * QueueCap

NewlyHanded(c) == handed'[c] \ handed[c]

\* The agent of a chat sees the messages in the order they arrived, across
\* debounce and collect batches and across clears.
HandedInOrder ==
    [][\A c \in Chats : \A m \in NewlyHanded(c), k \in handed[c] : k < m]_vars

\* A message whose callbacks have run is never handed over: its files are gone.
HandedIntact ==
    [][\A c \in Chats : \A m \in NewlyHanded(c) : cleaned[m] = 0 /\ dropped[m] = 0]_vars

\* Every message is let go of in the end, unless the bot is stopped.
EventuallyReleased ==
    \A m \in Messages : (m <= count) ~> (cleaned[m] = 1 \/ phase # "running")

\* "Evict idle state to prevent unbounded memory growth" (message-queue.ts:259):
\* an entry never stays in the map for ever.
EntriesAreEvicted ==
    \A c \in Chats : queues[c].inMap ~> (~queues[c].inMap \/ phase # "running")

----------------------------------------------------------------------------
(* MessageQueue implements MessageLifecycle.                               *)

StatusOf(m) ==
    IF m > count THEN "new"
    ELSE IF dropped[m] > 0 THEN "reclaimed"
    ELSE IF cleaned[m] > 0 THEN "kept"
    ELSE IF ~InTurn(m) THEN "waiting"
    ELSE IF m \in agentOwns THEN "owned" ELSE "handed"

Lifecycle == INSTANCE MessageLifecycle WITH status <- [m \in Messages |-> StatusOf(m)]

\* Whatever the buffers, timers and clears do, each message only ever moves
\* forward: waiting, handed at most once, then kept or reclaimed.
ImplementsLifecycle == Lifecycle!LifeSpec
=============================================================================
