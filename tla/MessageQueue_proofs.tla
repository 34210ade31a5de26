------------------------ MODULE MessageQueue_proofs ------------------------
(***************************************************************************)
(* Proofs about MessageQueue, for any set of chats, any cap and any number *)
(* of messages.                                                            *)
(***************************************************************************)
EXTENDS MessageQueue, FiniteSetTheorems, TLAPS

\* Running callbacks keeps a counter function a counter function.
LEMMA RunType ==
    ASSUME NEW f \in [Messages -> Nat], NEW S
    PROVE  Run(f, S) \in [Messages -> Nat]
BY DEF Run

\* Every update an action makes to an entry of the map leaves a ChatQueueState.
LEMMA StateUpdates ==
    ASSUME NEW q \in States
    PROVE  /\ \A m \in Messages : [q EXCEPT !.collect = @ \cup {m}] \in States
           /\ \A m \in Messages :
                [[q EXCEPT !.inMap = TRUE] EXCEPT !.pending = @ \cup {m}, !.timer = TRUE] \in States
           /\ [q EXCEPT !.inMap = TRUE] \in States
           /\ [q EXCEPT !.pending = {}, !.timer = FALSE, !.busy = TRUE] \in States
           /\ \A b \in BOOLEAN : [q EXCEPT !.collect = {}, !.busy = b] \in States
           /\ [q EXCEPT !.timer = FALSE] \in States
           /\ NoState \in States
BY DEF States, NoState

\* The same for turns.
LEMMA TurnUpdates ==
    /\ \A t \in Turns : /\ [t EXCEPT !.step = "reply"] \in Turns
                        /\ [t EXCEPT !.owned = TRUE] \in Turns
    /\ \A c \in Chats, S \in SUBSET Messages, d \in BOOLEAN : NewTurn(c, S, d) \in Turns
    /\ \A c \in Chats : NoTurn(c) \in Turns
BY DEF Turns, NewTurn, NoTurn

\* The fields of a well-typed entry.
LEMMA StateFields ==
    ASSUME TypeOK, NEW c \in Chats
    PROVE  /\ queues[c] \in States
           /\ queues[c].pending \in SUBSET Messages
           /\ queues[c].collect \in SUBSET Messages
           /\ queues[c].busy \in BOOLEAN
           /\ queues[c].timer \in BOOLEAN
           /\ turn[c] \in Turns
           /\ turn[c].msgs \in SUBSET Messages
BY DEF TypeOK, States, Turns

\* Every step keeps the variables well typed.
LEMMA TypeStep == TypeOK /\ [Next]_vars => TypeOK'
<1> SUFFICES ASSUME TypeOK, [Next]_vars
             PROVE  TypeOK'
  OBVIOUS
<1>1. ASSUME NEW c \in Chats, Enqueue(c)
      PROVE  TypeOK'
  <2>1. /\ count' \in 0 .. MaxMessages
        /\ Arrival \in Messages
    <3>1. count < MaxMessages /\ count' = count + 1
      BY <1>1 DEF Enqueue, EnqueueCollect, EnqueuePending, EnqueueDrop, Arrives
    <3> QED
      BY <3>1, MaxMessagesAssumption DEF Arrival, Messages, TypeOK
  <2>2. queues' \in [Chats -> States]
    <3>1. CASE EnqueueCollect(c)
      BY <3>1, <2>1, StateFields, StateUpdates DEF EnqueueCollect, TypeOK
    <3>2. CASE EnqueuePending(c)
      BY <3>2, <2>1, StateFields, StateUpdates DEF EnqueuePending, GetState, TypeOK
    <3>3. CASE EnqueueDrop(c)
      BY <3>3, StateFields, StateUpdates DEF EnqueueDrop, GetState, TypeOK
    <3> QED
      BY <1>1, <3>1, <3>2, <3>3 DEF Enqueue
  <2>3. cleaned' \in [Messages -> Nat] /\ dropped' \in [Messages -> Nat]
    <3>1. cleaned' \in {cleaned, Run(cleaned, {Arrival})}
      BY <1>1 DEF Enqueue, EnqueueCollect, EnqueuePending, EnqueueDrop
    <3>2. dropped' \in {dropped, Run(dropped, {Arrival})}
      BY <1>1 DEF Enqueue, EnqueueCollect, EnqueuePending, EnqueueDrop
    <3> QED
      BY <3>1, <3>2, RunType DEF TypeOK
  <2> QED
    BY <1>1, <2>1, <2>2, <2>3
    DEF Enqueue, EnqueueCollect, EnqueuePending, EnqueueDrop, TypeOK
<1>2. ASSUME NEW c \in Chats, Flush(c)
      PROVE  TypeOK'
  <2>1. queues' \in [Chats -> States]
    BY <1>2, StateFields, StateUpdates DEF Flush, TypeOK
  <2>2. turn' \in [Chats -> Turns]
    BY <1>2, StateFields, TurnUpdates DEF Flush, TypeOK
  <2> QED
    BY <1>2, <2>1, <2>2, StateFields DEF Flush, TypeOK
<1>3. ASSUME NEW c \in Chats, TransferOwnership(c)
      PROVE  TypeOK'
  <2>1. turn' \in [Chats -> Turns]
    BY <1>3, StateFields, TurnUpdates DEF TransferOwnership, TypeOK
  <2> QED
    BY <1>3, <2>1, StateFields DEF TransferOwnership, TypeOK
<1>4. ASSUME NEW c \in Chats, ProcessFails(c)
      PROVE  TypeOK'
  <2>1. turn' \in [Chats -> Turns]
    BY <1>4, StateFields, TurnUpdates DEF ProcessFails, TypeOK
  <2> QED
    BY <1>4, <2>1 DEF ProcessFails, TypeOK
<1>5. ASSUME NEW c \in Chats, FinishTurn(c)
      PROVE  TypeOK'
  <2>1. queues' \in [Chats -> States]
    BY <1>5, StateFields, StateUpdates DEF FinishTurn, TypeOK
  <2>2. turn' \in [Chats -> Turns]
    BY <1>5, StateFields, TurnUpdates DEF FinishTurn, TypeOK
  <2>3. evicting' \in [Chats -> Nat]
    BY <1>5 DEF FinishTurn, TypeOK
  <2> QED
    BY <1>5, <2>1, <2>2, <2>3, RunType, StateFields DEF FinishTurn, TypeOK
<1>6. ASSUME NEW c \in Chats, EvictIfIdle(c)
      PROVE  TypeOK'
  <2>1. queues' \in [Chats -> States]
    BY <1>6, StateFields, StateUpdates DEF EvictIfIdle, TypeOK
  <2>2. evicting' \in [Chats -> Nat]
    BY <1>6 DEF EvictIfIdle, TypeOK
  <2> QED
    BY <1>6, <2>1, <2>2 DEF EvictIfIdle, TypeOK
<1>7. ASSUME NEW C \in SUBSET Chats, ClearChats(C)
      PROVE  /\ queues' \in [Chats -> States]
             /\ turn' \in [Chats -> Turns]
             /\ stale' \subseteq Turns
             /\ cleaned' \in [Messages -> Nat]
             /\ dropped' \in [Messages -> Nat]
  BY <1>7, RunType, StateUpdates, TurnUpdates DEF ClearChats, Detached, TypeOK
<1>8. ASSUME NEW c \in Chats, Clear(c)
      PROVE  TypeOK'
  BY <1>8, <1>7 DEF Clear, TypeOK
<1>9. ASSUME NEW t \in stale, StaleFails(t)
      PROVE  TypeOK'
  BY <1>9, TurnUpdates DEF StaleFails, TypeOK
<1>10. ASSUME NEW t \in stale, FinishStale(t)
       PROVE  TypeOK'
  <2>1. t.chat \in Chats
    BY DEF TypeOK, Turns
  <2>2. evicting' \in [Chats -> Nat]
    BY <1>10, <2>1 DEF FinishStale, TypeOK
  <2> QED
    BY <1>10, <2>2, RunType DEF FinishStale, TypeOK
<1>11. CASE CancelAllDebounceTimers
  BY <1>11, StateFields, StateUpdates DEF CancelAllDebounceTimers, TypeOK, Phases
<1>12. CASE ClearAll
  BY <1>12, <1>7 DEF ClearAll, TypeOK, Phases
<1>13. CASE Exit
  BY <1>13 DEF Exit, TypeOK, Phases
<1>14. CASE UNCHANGED vars
  BY <1>14 DEF vars, TypeOK
<1> QED
  BY <1>1, <1>2, <1>3, <1>4, <1>5, <1>6, <1>8, <1>9, <1>10, <1>11, <1>12, <1>13, <1>14 DEF Next

\* Every variable keeps its type: an entry of the map always has all the fields of
\* a ChatQueueState and a suspended turn always is what flush or drain made it.
THEOREM TypeCorrect == Spec => []TypeOK
<1>1. Init => TypeOK
  BY MaxMessagesAssumption DEF Init, TypeOK, NoState, NoTurn, NewTurn, States, Turns, Phases
<1> QED
  BY <1>1, TypeStep, PTL DEF Spec

----------------------------------------------------------------------------
(* The safety invariants.  Inv is inductive; CleanedOnce and               *)
(* DroppedUnlessOwned are not by themselves: that a turn may run its       *)
(* callbacks needs its messages to be nowhere else (OneHome), which in     *)
(* turn needs busy to be the truth about the turn, and so on.              *)

Local == BusyIsTheTurn /\ HasAWaker

Counts == CleanedOnce /\ DroppedUnlessOwned

Inv == TypeOK /\ Local /\ OneHome /\ TurnKnowsOwner /\ Counts

\* A chat that is not busy has no batch in progress.
LEMMA IdleHasNoBatch ==
    ASSUME Local, NEW c \in Chats, ~queues[c].busy
    PROVE  turn[c].msgs = {}
<1>1. NoTurn(c).msgs = {}
  BY DEF NoTurn, NewTurn
<1> QED
  BY <1>1 DEF Local, BusyIsTheTurn

\* Every step keeps what relates a chat's entry to its own turn (Local): no timer and
\* no debounce buffer next to a running turn, no collect buffer without one.
LEMMA LocalStep == TypeOK /\ Local /\ [Next]_vars => Local'
<1> SUFFICES ASSUME TypeOK, Local, [Next]_vars
             PROVE  Local'
  OBVIOUS
<1> USE DEF Local, BusyIsTheTurn, HasAWaker
<1>1. ASSUME NEW c \in Chats, Enqueue(c)
      PROVE  Local'
  <2>1. UNCHANGED turn /\ UNCHANGED phase
    BY <1>1 DEF Enqueue, EnqueueCollect, EnqueuePending, EnqueueDrop
  <2>2. \A d \in Chats : d # c => queues'[d] = queues[d]
    BY <1>1 DEF Enqueue, EnqueueCollect, EnqueuePending, EnqueueDrop, TypeOK
  <2>3. /\ queues'[c].busy = queues[c].busy
        /\ queues'[c].inMap \/ (queues[c].busy /\ queues'[c].inMap = queues[c].inMap)
        /\ queues'[c].busy => queues'[c].pending = queues[c].pending
                              /\ queues'[c].timer = queues[c].timer
        /\ ~queues'[c].busy => /\ queues'[c].collect = queues[c].collect
                              /\ \/ queues'[c].pending # {} /\ queues'[c].timer
                                 \/ queues'[c].pending = queues[c].pending
                                    /\ queues'[c].timer = queues[c].timer
    <3>1. CASE EnqueueCollect(c)
      BY <3>1, StateFields DEF EnqueueCollect, TypeOK, States
    <3>2. CASE EnqueuePending(c)
      BY <3>2, StateFields DEF EnqueuePending, GetState, TypeOK, States
    <3>3. CASE EnqueueDrop(c)
      BY <3>3, StateFields DEF EnqueueDrop, GetState, TypeOK, States
    <3> QED
      BY <1>1, <3>1, <3>2, <3>3 DEF Enqueue
  <2> QED
    BY <2>1, <2>2, <2>3 DEF NoTurn
<1>2. ASSUME NEW c \in Chats, Flush(c)
      PROVE  Local'
  BY <1>2, StateFields DEF Flush, NewTurn, TypeOK, States, Turns
<1>3. ASSUME NEW c \in Chats, TransferOwnership(c)
      PROVE  Local'
  BY <1>3, StateFields DEF TransferOwnership, TypeOK, States, Turns
<1>4. ASSUME NEW c \in Chats, ProcessFails(c)
      PROVE  Local'
  BY <1>4, StateFields DEF ProcessFails, TypeOK, States, Turns
<1>5. ASSUME NEW c \in Chats, FinishTurn(c)
      PROVE  Local'
  <2>1. \A d \in Chats : d # c => queues'[d] = queues[d] /\ turn'[d] = turn[d]
    BY <1>5 DEF FinishTurn, TypeOK
  <2>2. /\ queues'[c].busy = (queues[c].collect # {})
        /\ queues'[c].collect = {}
        /\ queues'[c].pending = queues[c].pending
        /\ queues'[c].timer = queues[c].timer
        /\ queues'[c].inMap = queues[c].inMap
    BY <1>5, StateFields DEF FinishTurn, TypeOK, States
  <2>3. turn'[c] = IF queues[c].collect = {} THEN NoTurn(c) ELSE NewTurn(c, queues[c].collect, TRUE)
    BY <1>5, StateFields DEF FinishTurn, TypeOK
  <2>4. queues[c].busy /\ UNCHANGED phase
    BY <1>5 DEF FinishTurn
  <2>5. HasAWaker'
    BY <2>1, <2>2, <2>4
  <2>6. queues[c].collect # {} => turn'[c].msgs # {}
    BY <2>3 DEF NewTurn
  <2>7. BusyIsTheTurn'
    BY <2>1, <2>2, <2>3, <2>4, <2>6
  <2> QED
    BY <2>5, <2>7
<1>6. ASSUME NEW c \in Chats, EvictIfIdle(c)
      PROVE  Local'
  BY <1>6, StateFields DEF EvictIfIdle, NoState, Idle, NoTurn, TypeOK, States, Turns
<1>7. ASSUME NEW c \in Chats, Clear(c)
      PROVE  Local'
  BY <1>7, StateFields DEF Clear, ClearChats, NoState, TypeOK, States, Turns
<1>8. ASSUME NEW t \in stale, StaleFails(t)
      PROVE  Local'
  BY <1>8, StateFields DEF StaleFails, TypeOK, States, Turns
<1>9. ASSUME NEW t \in stale, FinishStale(t)
      PROVE  Local'
  BY <1>9, StateFields DEF FinishStale, TypeOK, States, Turns
<1>10. CASE CancelAllDebounceTimers
  BY <1>10, StateFields DEF CancelAllDebounceTimers, TypeOK, States, Turns
<1>11. CASE ClearAll
  BY <1>11, StateFields DEF ClearAll, ClearChats, NoState, TypeOK, States, Turns
<1>12. CASE Exit
  BY <1>12, StateFields DEF Exit, TypeOK, States, Turns
<1>13. CASE UNCHANGED vars
  BY <1>13 DEF vars
<1> QED
  BY <1>1, <1>2, <1>3, <1>4, <1>5, <1>6, <1>7, <1>8, <1>9, <1>10, <1>11, <1>12, <1>13 DEF Next

----------------------------------------------------------------------------
(* What the actions do to the places a message can be in.                  *)

\* A message joins the buffer of c, or (S = {}) the entry changes otherwise.
Joins(c, S) ==
    /\ UNCHANGED <<turn, stale, agentOwns, handed>>
    /\ Buffered(c)' = Buffered(c) \cup S
    /\ \A d \in Chats : d # c => Buffered(d)' = Buffered(d)

\* The whole buffer of c becomes its turn.
HandsOver(c) ==
    /\ UNCHANGED <<count, stale, agentOwns>>
    /\ Buffered(c)' = {}
    /\ turn'[c].chat = c /\ turn'[c].msgs = Buffered(c) /\ ~turn'[c].owned
    /\ handed'[c] = handed[c] \cup Buffered(c)
    /\ \A d \in Chats : d # c => /\ Buffered(d)' = Buffered(d)
                                /\ turn'[d] = turn[d]
                                /\ handed'[d] = handed[d]

\* The entries of C go away, their turns are detached.
Detaches(C) ==
    /\ UNCHANGED <<count, agentOwns, handed>>
    /\ stale' = stale \cup Detached(C)
    /\ \A d \in C : /\ Buffered(d)' = {}
                   /\ turn'[d].chat = d /\ turn'[d].msgs = {} /\ ~turn'[d].owned
    /\ \A d \in Chats \ C : Buffered(d)' = Buffered(d) /\ turn'[d] = turn[d]

\* An enqueued message joins one buffer of its own chat, or none.
LEMMA EnqueueJoins ==
    ASSUME TypeOK, NEW c \in Chats, Enqueue(c)
    PROVE  /\ count' = count + 1
           /\ \/ /\ EnqueueCollect(c) \/ EnqueuePending(c)
                 /\ Joins(c, {Arrival})
                 /\ UNCHANGED <<cleaned, dropped>>
              \/ /\ EnqueueDrop(c)
                 /\ Joins(c, {})
                 /\ cleaned' = Run(cleaned, {Arrival}) /\ dropped' = Run(dropped, {Arrival})
<1>1. CASE EnqueueCollect(c)
  <2>1. queues'[c].pending = queues[c].pending /\ queues'[c].collect = queues[c].collect \cup {Arrival}
    BY <1>1, StateFields DEF EnqueueCollect, TypeOK, States
  <2>2. \A d \in Chats : d # c => queues'[d] = queues[d]
    BY <1>1 DEF EnqueueCollect, TypeOK
  <2> QED
    BY <1>1, <2>1, <2>2 DEF EnqueueCollect, Arrives, Joins, Buffered
<1>2. CASE EnqueuePending(c)
  <2>1. queues'[c].pending = queues[c].pending \cup {Arrival} /\ queues'[c].collect = queues[c].collect
    BY <1>2, StateFields DEF EnqueuePending, GetState, TypeOK, States
  <2>2. \A d \in Chats : d # c => queues'[d] = queues[d]
    BY <1>2 DEF EnqueuePending, TypeOK
  <2> QED
    BY <1>2, <2>1, <2>2 DEF EnqueuePending, Arrives, Joins, Buffered
<1>3. CASE EnqueueDrop(c)
  <2>1. queues'[c].pending = queues[c].pending /\ queues'[c].collect = queues[c].collect
    BY <1>3, StateFields DEF EnqueueDrop, GetState, TypeOK, States
  <2>2. \A d \in Chats : d # c => queues'[d] = queues[d]
    BY <1>3 DEF EnqueueDrop, TypeOK
  <2> QED
    BY <1>3, <2>1, <2>2 DEF EnqueueDrop, Arrives, Joins, Buffered
<1> QED
  BY <1>1, <1>2, <1>3 DEF Enqueue

\* Flush and FinishTurn move a whole buffer of one chat into its turn.
LEMMA TurnsHandOver ==
    ASSUME TypeOK, Local, NEW c \in Chats, Flush(c) \/ FinishTurn(c)
    PROVE  HandsOver(c)
<1>1. CASE Flush(c)
  <2>1. queues'[c].pending = {} /\ queues'[c].collect = queues[c].collect
    BY <1>1, StateFields DEF Flush, TypeOK, States
  <2>2. \A d \in Chats : d # c => queues'[d] = queues[d] /\ turn'[d] = turn[d] /\ handed'[d] = handed[d]
    BY <1>1 DEF Flush, TypeOK
  <2>3. queues[c].collect = {}
    BY <1>1 DEF Flush, Local, HasAWaker
  <2>4. turn'[c] = NewTurn(c, queues[c].pending, FALSE) /\ handed'[c] = handed[c] \cup queues[c].pending
    BY <1>1 DEF Flush, TypeOK
  <2>5. turn'[c].chat = c /\ turn'[c].msgs = queues[c].pending /\ ~turn'[c].owned
    BY <2>4 DEF NewTurn
  <2> QED
    BY <1>1, <2>1, <2>2, <2>3, <2>4, <2>5 DEF Flush, HandsOver, Buffered
<1>2. CASE FinishTurn(c)
  <2>1. queues'[c].pending = queues[c].pending /\ queues'[c].collect = {}
    BY <1>2, StateFields DEF FinishTurn, TypeOK, States
  <2>2. \A d \in Chats : d # c => queues'[d] = queues[d] /\ turn'[d] = turn[d] /\ handed'[d] = handed[d]
    BY <1>2 DEF FinishTurn, TypeOK
  <2>3. queues[c].pending = {}
    BY <1>2 DEF FinishTurn, Local, HasAWaker
  <2>4. /\ turn'[c] = IF queues[c].collect = {} THEN NoTurn(c) ELSE NewTurn(c, queues[c].collect, TRUE)
        /\ handed'[c] = handed[c] \cup queues[c].collect
    BY <1>2 DEF FinishTurn, TypeOK
  <2>5. turn'[c].chat = c /\ turn'[c].msgs = queues[c].collect /\ ~turn'[c].owned
    BY <2>4 DEF NoTurn, NewTurn
  <2> QED
    BY <1>2, <2>1, <2>2, <2>3, <2>4, <2>5 DEF FinishTurn, HandsOver, Buffered
<1> QED
  BY <1>1, <1>2

\* clear and clearAll empty the entries of the chats and detach their turns.
LEMMA ClearDetaches ==
    ASSUME TypeOK, NEW C \in SUBSET Chats, ClearChats(C), UNCHANGED <<count, agentOwns, handed>>
    PROVE  Detaches(C)
BY DEF ClearChats, Detaches, Buffered, NoState, NoTurn, NewTurn

----------------------------------------------------------------------------

\* No step puts a message in a second place.
LEMMA HomeStep == TypeOK /\ Local /\ OneHome /\ [Next]_vars => OneHome'
<1> SUFFICES ASSUME TypeOK, Local, OneHome, [Next]_vars
             PROVE  OneHome'
  OBVIOUS
<1>1. ASSUME NEW c \in Chats, Enqueue(c)
      PROVE  OneHome'
  <2>1. count \in Nat /\ count' = count + 1
    BY <1>1, EnqueueJoins, MaxMessagesAssumption DEF TypeOK
  <2>2. CASE Joins(c, {Arrival})
    BY <2>1, <2>2 DEF Joins, OneHome, Arrival
  <2>3. CASE Joins(c, {})
    BY <2>1, <2>3 DEF Joins, OneHome
  <2> QED
    BY <1>1, <2>2, <2>3, EnqueueJoins
<1>2. ASSUME NEW c \in Chats, Flush(c) \/ FinishTurn(c)
      PROVE  OneHome'
  <2>1. HandsOver(c)
    BY <1>2, TurnsHandOver
  <2>2. count \in Nat /\ \A t \in stale : t.chat \in Chats
    BY MaxMessagesAssumption DEF TypeOK, Turns
  <2>3. \A d \in Chats : Buffered(c) \cap handed[d] = {}
    BY <2>2 DEF OneHome
  <2>4. /\ \A d \in Chats : (handed[d] \cup Buffered(d))' \subseteq 1 .. count'
        /\ \A d \in Chats : turn'[d].chat = d /\ turn'[d].msgs \subseteq handed'[d]
        /\ \A t \in stale' : t.msgs # {} /\ t.msgs \subseteq handed'[t.chat]
    BY <2>1, <2>2 DEF HandsOver, OneHome
  <2>5. \A d \in Chats : \A m \in Buffered(d)', k \in handed'[d] : k < m
    BY <2>1 DEF HandsOver, OneHome
  <2>6. \A d, e \in Chats : d # e =>
          /\ handed'[d] \cap handed'[e] = {}
          /\ (handed[d] \cup Buffered(d))' \cap Buffered(e)' = {}
    BY <2>1 DEF HandsOver, OneHome
  <2>7. \A d \in Chats, t \in stale' : turn'[d].msgs \cap t.msgs = {}
    BY <2>1, <2>2, <2>3 DEF HandsOver, OneHome
  <2>8. \A t, u \in stale' : t # u => t.msgs \cap u.msgs = {}
    BY <2>1 DEF HandsOver, OneHome
  <2> QED
    BY <2>4, <2>5, <2>6, <2>7, <2>8 DEF OneHome
<1>3. ASSUME NEW c \in Chats, TransferOwnership(c) \/ ProcessFails(c)
      PROVE  OneHome'
  <2>1. /\ UNCHANGED <<count, queues, stale, handed>>
        /\ \A d \in Chats : turn'[d].chat = turn[d].chat /\ turn'[d].msgs = turn[d].msgs
    <3>1. CASE TransferOwnership(c)
      BY <3>1, StateFields DEF TransferOwnership, TypeOK, Turns
    <3>2. CASE ProcessFails(c)
      BY <3>2, StateFields DEF ProcessFails, TypeOK, Turns
    <3> QED
      BY <1>3, <3>1, <3>2
  <2> QED
    BY <2>1 DEF OneHome, Buffered
<1>4. ASSUME NEW c \in Chats, EvictIfIdle(c)
      PROVE  OneHome'
  <2>1. UNCHANGED <<count, turn, stale, handed>>
    BY <1>4 DEF EvictIfIdle
  <2>2. \A d \in Chats : Buffered(d)' = Buffered(d)
    BY <1>4 DEF EvictIfIdle, Buffered, Idle, NoState, TypeOK
  <2> QED
    BY <2>1, <2>2 DEF OneHome
<1>5. ASSUME NEW C \in SUBSET Chats, Detaches(C)
      PROVE  OneHome'
  <2>1. \A t \in Detached(C) : \E d \in C : t = turn[d] /\ t.msgs # {}
    BY DEF Detached, Local, BusyIsTheTurn
  <2> QED
    BY <1>5, <2>1 DEF Detaches, OneHome
<1>6. ASSUME NEW c \in Chats, Clear(c)
      PROVE  OneHome'
  BY <1>6, <1>5, ClearDetaches DEF Clear
<1>7. ASSUME NEW t \in stale, StaleFails(t)
      PROVE  OneHome'
  <2>1. UNCHANGED <<count, queues, turn, handed>>
    BY <1>7 DEF StaleFails
  <2>2. PICK r : stale' = (stale \ {t}) \cup {r} /\ r.msgs = t.msgs /\ r.chat = t.chat
    <3>1. t \in Turns /\ stale' = (stale \ {t}) \cup {[t EXCEPT !.step = "reply"]}
      BY <1>7 DEF StaleFails, TypeOK
    <3>2. /\ [t EXCEPT !.step = "reply"].msgs = t.msgs
          /\ [t EXCEPT !.step = "reply"].chat = t.chat
      BY <3>1 DEF Turns
    <3> QED
      BY <3>1, <3>2
  <2>3. \A u \in stale' : /\ u.msgs # {} /\ u.msgs \subseteq handed[u.chat]
                          /\ \A d \in Chats : turn[d].msgs \cap u.msgs = {}
    BY <2>2 DEF OneHome
  <2>4. \A u, w \in stale' : u # w => u.msgs \cap w.msgs = {}
    <3>1. \A v, x \in stale : v # x => v.msgs \cap x.msgs = {}
      BY DEF OneHome
    <3> QED
      BY <2>2, <3>1
  <2>5. \A d \in Chats : Buffered(d)' = Buffered(d)
    BY <2>1 DEF Buffered
  <2> QED
    BY <2>1, <2>3, <2>4, <2>5 DEF OneHome
<1>8. ASSUME NEW t \in stale, FinishStale(t)
      PROVE  OneHome'
  BY <1>8 DEF FinishStale, OneHome, Buffered
<1>9. CASE CancelAllDebounceTimers
  <2>1. UNCHANGED <<count, turn, stale, handed>>
    BY <1>9 DEF CancelAllDebounceTimers
  <2>2. \A d \in Chats : Buffered(d)' = Buffered(d)
    BY <1>9, StateFields DEF CancelAllDebounceTimers, Buffered, States, TypeOK
  <2> QED
    BY <2>1, <2>2 DEF OneHome
<1>10. CASE ClearAll
  BY <1>10, <1>5, ClearDetaches DEF ClearAll
<1>11. CASE Exit \/ UNCHANGED vars
  BY <1>11 DEF Exit, vars, OneHome, Buffered
<1> QED
  BY <1>1, <1>2, <1>3, <1>4, <1>6, <1>7, <1>8, <1>9, <1>10, <1>11 DEF Next
----------------------------------------------------------------------------

\* Every step keeps each turn right about whether the agent owns its batch.
LEMMA OwnerStep ==
    TypeOK /\ Local /\ OneHome /\ TurnKnowsOwner /\ [Next]_vars => TurnKnowsOwner'
<1> SUFFICES ASSUME TypeOK, Local, OneHome, TurnKnowsOwner, [Next]_vars
             PROVE  TurnKnowsOwner'
  OBVIOUS
<1>1. ASSUME NEW c \in Chats, Enqueue(c)
      PROVE  TurnKnowsOwner'
  BY <1>1, EnqueueJoins DEF Joins, TurnKnowsOwner
<1>2. ASSUME NEW c \in Chats, Flush(c) \/ FinishTurn(c)
      PROVE  TurnKnowsOwner'
  <2>1. HandsOver(c)
    BY <1>2, TurnsHandOver
  <2>2. \A m \in agentOwns : m \notin Buffered(c)
    <3>1. \A d \in Chats : \A m \in handed[d] : m \in Nat
      BY MaxMessagesAssumption DEF OneHome, TypeOK
    <3> QED
      BY <3>1 DEF TurnKnowsOwner, OneHome
  <2> QED
    BY <2>1, <2>2 DEF HandsOver, TurnKnowsOwner
<1>3. ASSUME NEW c \in Chats, TransferOwnership(c)
      PROVE  TurnKnowsOwner'
  <2>1. /\ turn'[c].owned /\ turn'[c].msgs = turn[c].msgs
        /\ \A d \in Chats : d # c => turn'[d] = turn[d]
        /\ agentOwns' = agentOwns \cup turn[c].msgs
        /\ UNCHANGED <<stale, handed>>
    BY <1>3, StateFields DEF TransferOwnership, TypeOK, Turns
  <2>2. /\ turn[c].msgs \subseteq handed[c]
        /\ \A d \in Chats : d # c => turn[d].msgs \cap turn[c].msgs = {}
        /\ \A t \in stale : t.msgs \cap turn[c].msgs = {}
    BY DEF OneHome
  <2>3. \A m \in agentOwns' : \E d \in Chats : m \in handed'[d]
    BY <2>1, <2>2 DEF TurnKnowsOwner
  <2>4. \A d \in Chats : IF turn'[d].owned THEN turn'[d].msgs \subseteq agentOwns'
                                           ELSE turn'[d].msgs \cap agentOwns' = {}
    BY <2>1, <2>2 DEF TurnKnowsOwner
  <2>5. \A t \in stale' : IF t.owned THEN t.msgs \subseteq agentOwns'
                                     ELSE t.msgs \cap agentOwns' = {}
    BY <2>1, <2>2 DEF TurnKnowsOwner
  <2> QED
    BY <2>3, <2>4, <2>5 DEF TurnKnowsOwner
<1>4. ASSUME NEW c \in Chats, ProcessFails(c)
      PROVE  TurnKnowsOwner'
  <2>1. /\ UNCHANGED <<stale, handed, agentOwns>>
        /\ \A d \in Chats : turn'[d].owned = turn[d].owned /\ turn'[d].msgs = turn[d].msgs
    BY <1>4, StateFields DEF ProcessFails, TypeOK, Turns
  <2> QED
    BY <2>1 DEF TurnKnowsOwner
<1>5. ASSUME NEW c \in Chats, EvictIfIdle(c)
      PROVE  TurnKnowsOwner'
  BY <1>5 DEF EvictIfIdle, TurnKnowsOwner
<1>6. ASSUME NEW C \in SUBSET Chats, Detaches(C)
      PROVE  TurnKnowsOwner'
  <2>1. \A t \in Detached(C) : \E d \in Chats : t = turn[d]
    BY DEF Detached
  <2> QED
    BY <1>6, <2>1 DEF Detaches, TurnKnowsOwner
<1>7. ASSUME NEW c \in Chats, Clear(c)
      PROVE  TurnKnowsOwner'
  BY <1>7, <1>6, ClearDetaches DEF Clear
<1>8. ASSUME NEW t \in stale, StaleFails(t)
      PROVE  TurnKnowsOwner'
  <2>1. PICK r : stale' = (stale \ {t}) \cup {r} /\ r.msgs = t.msgs /\ r.owned = t.owned
    <3>1. t \in Turns /\ stale' = (stale \ {t}) \cup {[t EXCEPT !.step = "reply"]}
      BY <1>8 DEF StaleFails, TypeOK
    <3>2. /\ [t EXCEPT !.step = "reply"].msgs = t.msgs
          /\ [t EXCEPT !.step = "reply"].owned = t.owned
      BY <3>1 DEF Turns
    <3> QED
      BY <3>1, <3>2
  <2>2. UNCHANGED <<turn, handed, agentOwns>>
    BY <1>8 DEF StaleFails
  <2> QED
    BY <2>1, <2>2 DEF TurnKnowsOwner
<1>9. ASSUME NEW t \in stale, FinishStale(t)
      PROVE  TurnKnowsOwner'
  BY <1>9 DEF FinishStale, TurnKnowsOwner
<1>10. CASE ClearAll
  BY <1>10, <1>6, ClearDetaches DEF ClearAll
<1>11. CASE CancelAllDebounceTimers \/ Exit \/ UNCHANGED vars
  BY <1>11 DEF CancelAllDebounceTimers, Exit, vars, TurnKnowsOwner
<1> QED
  BY <1>1, <1>2, <1>3, <1>4, <1>5, <1>7, <1>8, <1>9, <1>10, <1>11 DEF Next

----------------------------------------------------------------------------

\* The messages of S were held, are let go of in this step, and nothing else is.
LetsGoOf(S) ==
    /\ \A m \in Messages : Gone(m)' <=> Gone(m) \/ m \in S
    /\ \A m \in S : ~Gone(m)

\* Nothing is let go of, and no turn gains or loses a message.
NothingMoves ==
    \A m \in Messages : (Gone(m)' <=> Gone(m)) /\ (InTurn(m)' <=> InTurn(m))

\* A message is gone, in a turn or in a buffer, and never two of these.
LEMMA PlaceFacts ==
    ASSUME Inv
    PROVE  /\ TypeOK /\ Local /\ OneHome /\ TurnKnowsOwner /\ Counts
           /\ \A d \in Chats : handed[d] \cup Buffered(d) \subseteq 1 .. count
           /\ \A d \in Chats : turn[d].msgs \subseteq handed[d]
           /\ \A t \in stale : t.chat \in Chats /\ t.msgs \subseteq handed[t.chat]
           /\ count \in Nat
           /\ \A d \in Chats : \A m \in Buffered(d) : ~InTurn(m) /\ m \notin agentOwns
<1>1. /\ TypeOK /\ Local /\ OneHome /\ TurnKnowsOwner /\ Counts
      /\ \A d \in Chats : handed[d] \cup Buffered(d) \subseteq 1 .. count
      /\ \A d \in Chats : turn[d].msgs \subseteq handed[d]
      /\ \A t \in stale : t.chat \in Chats /\ t.msgs \subseteq handed[t.chat]
      /\ count \in Nat
  BY MaxMessagesAssumption DEF Inv, OneHome, TypeOK, Turns
<1>2. \A d, e \in Chats : Buffered(d) \cap handed[e] = {}
  BY <1>1 DEF OneHome
<1> QED
  BY <1>1, <1>2 DEF InTurn, TurnKnowsOwner

\* enqueue lets go of the message it drops and of nothing else.
LEMMA EnqueuePlaces ==
    ASSUME Inv, NEW c \in Chats, Enqueue(c)
    PROVE  /\ Arrival \in Messages /\ count' = count + 1 /\ Arrival \notin agentOwns
           /\ UNCHANGED agentOwns
           /\ \A m \in Messages : InTurn(m)' <=> InTurn(m)
           /\ ~InTurn(Arrival)
           /\ \/ /\ \A m \in Messages : Gone(m)' <=> Gone(m)
                 /\ UNCHANGED <<cleaned, dropped>>
              \/ /\ LetsGoOf({Arrival})
                 /\ cleaned' = Run(cleaned, {Arrival}) /\ dropped' = Run(dropped, {Arrival})
<1>0. TypeOK
  BY PlaceFacts
<1>1. count < MaxMessages
  BY DEF Enqueue, EnqueueCollect, EnqueuePending, EnqueueDrop, Arrives
<1>2. /\ Arrival \in Messages /\ count' = count + 1
      /\ Arrival \notin agentOwns
      /\ ~InTurn(Arrival) /\ ~InBuffer(Arrival)
  BY <1>1, PlaceFacts, EnqueueJoins, MaxMessagesAssumption
  DEF Arrival, Messages, TurnKnowsOwner, InTurn, InBuffer
<1>3. CASE Joins(c, {Arrival}) /\ UNCHANGED <<cleaned, dropped>>
  <2>1. \A m \in Messages : InTurn(m)' <=> InTurn(m)
    BY <1>3 DEF Joins, InTurn
  <2>2. \A m \in Messages : InBuffer(m)' <=> InBuffer(m) \/ m = Arrival
    BY <1>3 DEF Joins, InBuffer
  <2>3. \A m \in Messages : Gone(m)' <=> Gone(m)
    BY <1>2, <2>1, <2>2, PlaceFacts DEF Gone, Arrival, Messages
  <2> QED
    BY <1>2, <1>3, <2>1, <2>3 DEF Joins
<1>4. CASE Joins(c, {}) /\ cleaned' = Run(cleaned, {Arrival}) /\ dropped' = Run(dropped, {Arrival})
  <2>1. \A m \in Messages : (InTurn(m)' <=> InTurn(m)) /\ (InBuffer(m)' <=> InBuffer(m))
    BY <1>4 DEF Joins, InTurn, InBuffer
  <2>2. LetsGoOf({Arrival})
    BY <1>2, <2>1, PlaceFacts DEF LetsGoOf, Gone, Arrival, Messages
  <2> QED
    BY <1>2, <1>4, <2>1, <2>2 DEF Joins
<1> QED
  BY <1>0, <1>3, <1>4, EnqueueJoins

\* A turn that ends or starts: its old batch is gone, the buffer is the new one.
LEMMA HandOverPlaces ==
    ASSUME Inv, NEW c \in Chats, Flush(c) \/ FinishTurn(c)
    PROVE  /\ HandsOver(c)
           /\ LetsGoOf(turn[c].msgs)
           /\ \A m \in Messages :
                InTurn(m)' <=> (InTurn(m) /\ m \notin turn[c].msgs) \/ m \in Buffered(c)
<1>1. HandsOver(c)
  BY PlaceFacts, TurnsHandOver
<1>2. \A m \in turn[c].msgs : /\ \A d \in Chats : d # c => m \notin turn[d].msgs
                              /\ \A t \in stale : m \notin t.msgs
                              /\ ~InBuffer(m)
  <2>1. \A d \in Chats : d # c => turn[d].msgs \cap turn[c].msgs = {}
    BY PlaceFacts DEF OneHome
  <2>2. \A t \in stale : t.msgs \cap turn[c].msgs = {}
    BY PlaceFacts DEF OneHome
  <2>3. \A m \in turn[c].msgs : ~InBuffer(m)
    BY PlaceFacts DEF InBuffer, InTurn
  <2> QED
    BY <2>1, <2>2, <2>3
<1>3. \A m \in Messages : InBuffer(m)' <=> \E d \in Chats : d # c /\ m \in Buffered(d)
  BY <1>1 DEF HandsOver, InBuffer
<1>4. \A m \in Messages : InTurn(m)' <=> \/ \E t \in stale : m \in t.msgs
                                         \/ \E d \in Chats : d # c /\ m \in turn[d].msgs
                                         \/ m \in Buffered(c)
  BY <1>1 DEF HandsOver, InTurn
<1>5. \A m \in Messages :
        (InTurn(m) \/ InBuffer(m))' <=> (InTurn(m) \/ InBuffer(m)) /\ m \notin turn[c].msgs
  BY <1>2, <1>3, <1>4 DEF InTurn, InBuffer
<1>6. count' = count /\ \A m \in turn[c].msgs : InTurn(m) /\ m <= count
  BY <1>1, PlaceFacts DEF HandsOver, InTurn
<1>7. LetsGoOf(turn[c].msgs)
  BY <1>5, <1>6, PlaceFacts DEF LetsGoOf, Gone
<1>8. \A m \in Messages :
        InTurn(m)' <=> (InTurn(m) /\ m \notin turn[c].msgs) \/ m \in Buffered(c)
  BY <1>2, <1>4 DEF InTurn
<1> QED
  BY <1>1, <1>7, <1>8

\* clear and clearAll let go of what is buffered; turns keep their batches.
LEMMA ClearPlaces ==
    ASSUME Inv, NEW C \in SUBSET Chats, ClearChats(C), UNCHANGED <<count, agentOwns, handed>>,
           NEW S, S = {m \in Messages : \E c \in C : m \in Buffered(c)}
    PROVE  /\ LetsGoOf(S)
           /\ \A m \in Messages : InTurn(m)' <=> InTurn(m)
           /\ \A m \in S : m <= count /\ ~InTurn(m) /\ m \notin agentOwns
<1>1. Detaches(C)
  BY PlaceFacts, ClearDetaches
<1>2. \A m \in Messages : InTurn(m)' <=> InTurn(m)
  <2>1. \A d \in C : turn[d].msgs = {} \/ turn[d] \in Detached(C)
    BY PlaceFacts, IdleHasNoBatch DEF Detached
  <2>2. \A t \in Detached(C) : \E d \in C : t = turn[d]
    BY DEF Detached
  <2> QED
    BY <1>1, <2>1, <2>2 DEF Detaches, InTurn
<1>3. \A m \in Messages : InBuffer(m)' <=> InBuffer(m) /\ m \notin S
  <2>1. \A c, d \in Chats : c # d => Buffered(c) \cap Buffered(d) = {}
    BY PlaceFacts DEF OneHome
  <2> QED
    BY <1>1, <2>1 DEF Detaches, InBuffer
<1>4. \A m \in S : m <= count /\ ~InTurn(m) /\ InBuffer(m) /\ m \notin agentOwns
  <2>1. \A m \in S : \E c \in Chats : m \in Buffered(c)
    OBVIOUS
  <2> QED
    BY <2>1, PlaceFacts DEF InBuffer
<1>5. LetsGoOf(S)
  BY <1>1, <1>2, <1>3, <1>4 DEF LetsGoOf, Gone, Detaches
<1> QED
  BY <1>2, <1>4, <1>5

\* A cleared turn that ends lets go of its own batch only.
LEMMA StalePlaces ==
    ASSUME Inv, NEW t \in stale, FinishStale(t)
    PROVE  /\ LetsGoOf(t.msgs)
           /\ \A m \in Messages : InTurn(m)' <=> InTurn(m) /\ m \notin t.msgs
<1>1. UNCHANGED <<count, queues, turn, agentOwns>> /\ stale' = stale \ {t}
  BY DEF FinishStale
<1>2. \A m \in t.msgs : /\ \A d \in Chats : m \notin turn[d].msgs
                        /\ \A u \in stale : u # t => m \notin u.msgs
                        /\ ~InBuffer(m) /\ m <= count
  <2>1. \A d \in Chats : turn[d].msgs \cap t.msgs = {}
    BY PlaceFacts DEF OneHome
  <2>2. \A u \in stale : u # t => u.msgs \cap t.msgs = {}
    BY PlaceFacts DEF OneHome
  <2>3. \A m \in t.msgs : ~InBuffer(m)
    BY PlaceFacts DEF InBuffer, InTurn
  <2> QED
    BY <2>1, <2>2, <2>3, PlaceFacts
<1>3. \A m \in Messages : InTurn(m)' <=> InTurn(m) /\ m \notin t.msgs
  BY <1>1, <1>2 DEF InTurn
<1>4. \A m \in Messages : InBuffer(m)' <=> InBuffer(m)
  BY <1>1 DEF InBuffer, Buffered
<1>5. \A m \in t.msgs : InTurn(m) /\ ~InBuffer(m) /\ m <= count
  BY <1>2 DEF InTurn
<1> QED
  BY <1>1, <1>3, <1>4, <1>5 DEF LetsGoOf, Gone

\* The other steps move nothing.
LEMMA QuietPlaces ==
    ASSUME Inv,
           \/ \E c \in Chats : TransferOwnership(c) \/ ProcessFails(c) \/ EvictIfIdle(c)
           \/ \E t \in stale : StaleFails(t)
           \/ CancelAllDebounceTimers \/ Exit \/ UNCHANGED vars
    PROVE  NothingMoves /\ UNCHANGED <<count, cleaned, dropped>>
<1>0. TypeOK
  BY PlaceFacts
<1>1. ASSUME UNCHANGED <<count, cleaned, dropped>>,
             \A d \in Chats : Buffered(d)' = Buffered(d),
             \A m : InTurn(m)' <=> InTurn(m)
      PROVE  NothingMoves /\ UNCHANGED <<count, cleaned, dropped>>
  BY <1>1 DEF NothingMoves, Gone, InBuffer
<1>2. ASSUME NEW c \in Chats, TransferOwnership(c) \/ ProcessFails(c)
      PROVE  NothingMoves /\ UNCHANGED <<count, cleaned, dropped>>
  <2>1. UNCHANGED <<count, queues, stale, cleaned, dropped>>
    BY <1>2 DEF TransferOwnership, ProcessFails
  <2>2. \A d \in Chats : turn'[d].msgs = turn[d].msgs
    <3>1. CASE TransferOwnership(c)
      BY <3>1, <1>0, StateFields DEF TransferOwnership, TypeOK, Turns
    <3>2. CASE ProcessFails(c)
      BY <3>2, <1>0, StateFields DEF ProcessFails, TypeOK, Turns
    <3> QED
      BY <1>2, <3>1, <3>2
  <2> QED
    BY <2>1, <2>2, <1>1 DEF InTurn, Buffered
<1>3. ASSUME NEW c \in Chats, EvictIfIdle(c)
      PROVE  NothingMoves /\ UNCHANGED <<count, cleaned, dropped>>
  <2>1. \A d \in Chats : Buffered(d)' = Buffered(d)
    BY <1>3, <1>0 DEF EvictIfIdle, Buffered, Idle, NoState, TypeOK
  <2> QED
    BY <1>3, <2>1, <1>1 DEF EvictIfIdle, InTurn
<1>4. ASSUME NEW t \in stale, StaleFails(t)
      PROVE  NothingMoves /\ UNCHANGED <<count, cleaned, dropped>>
  <2>1. PICK r : stale' = (stale \ {t}) \cup {r} /\ r.msgs = t.msgs
    <3>1. t \in Turns /\ stale' = (stale \ {t}) \cup {[t EXCEPT !.step = "reply"]}
      BY <1>4, <1>0 DEF StaleFails, TypeOK
    <3>2. [t EXCEPT !.step = "reply"].msgs = t.msgs
      BY <3>1 DEF Turns
    <3> QED
      BY <3>1, <3>2
  <2>2. \A m : (\E u \in stale' : m \in u.msgs) <=> (\E u \in stale : m \in u.msgs)
    BY <2>1
  <2>3. UNCHANGED <<count, queues, turn, cleaned, dropped>>
    BY <1>4 DEF StaleFails
  <2> QED
    BY <2>2, <2>3, <1>1 DEF InTurn, Buffered
<1>5. CASE CancelAllDebounceTimers
  <2>1. \A d \in Chats : Buffered(d)' = Buffered(d)
    BY <1>5, <1>0, StateFields DEF CancelAllDebounceTimers, Buffered, States, TypeOK
  <2> QED
    BY <1>5, <2>1, <1>1 DEF CancelAllDebounceTimers, InTurn
<1>6. CASE Exit \/ UNCHANGED vars
  BY <1>6, <1>1 DEF Exit, vars, InTurn, Buffered
<1> QED
  BY <1>2, <1>3, <1>4, <1>5, <1>6

----------------------------------------------------------------------------

\* Letting go of S while running the callbacks of S keeps the counts right.
LEMMA CountsKept ==
    ASSUME TypeOK, Counts, NEW S \in SUBSET Messages, LetsGoOf(S), UNCHANGED agentOwns,
           cleaned' = Run(cleaned, S), dropped' = Run(dropped, S \ agentOwns)
    PROVE  Counts'
BY DEF LetsGoOf, Counts, CleanedOnce, DroppedUnlessOwned, Run, TypeOK

\* Every step runs exactly the callbacks of the messages it lets go of.
LEMMA CountsStep == Inv /\ [Next]_vars => Counts'
<1> SUFFICES ASSUME Inv, [Next]_vars
             PROVE  Counts'
  OBVIOUS
<1>1. ASSUME UNCHANGED <<cleaned, dropped, agentOwns>>,
             \A m \in Messages : Gone(m)' <=> Gone(m)
      PROVE  Counts'
  BY <1>1, PlaceFacts DEF Counts, CleanedOnce, DroppedUnlessOwned
<1>2. ASSUME NEW c \in Chats, Enqueue(c)
      PROVE  Counts'
  <2>1. {Arrival} \ agentOwns = {Arrival}
    BY <1>2, EnqueuePlaces
  <2> QED
    BY <1>1, <1>2, <2>1, EnqueuePlaces, PlaceFacts, CountsKept
<1>3. ASSUME NEW c \in Chats, Flush(c)
      PROVE  Counts'
  <2>1. turn[c].msgs = {}
    <3>1. ~queues[c].busy
      BY <1>3, PlaceFacts DEF Flush, Local, HasAWaker
    <3> QED
      BY <3>1, PlaceFacts, IdleHasNoBatch
  <2> QED
    BY <1>1, <1>3, <2>1, HandOverPlaces DEF LetsGoOf, Flush
<1>4. ASSUME NEW c \in Chats, FinishTurn(c)
      PROVE  Counts'
  <2>1. LiveDrops(turn[c]) = turn[c].msgs \ agentOwns
    BY PlaceFacts DEF LiveDrops, TurnKnowsOwner
  <2>2. LetsGoOf(turn[c].msgs)
    BY <1>4, HandOverPlaces
  <2> QED
    BY <1>4, <2>1, <2>2, PlaceFacts, StateFields, CountsKept DEF FinishTurn
<1>5. ASSUME NEW c \in Chats, TransferOwnership(c)
      PROVE  Counts'
  <2>1. NothingMoves /\ UNCHANGED <<cleaned, dropped>>
    BY <1>5, QuietPlaces
  <2>2. agentOwns' = agentOwns \cup turn[c].msgs /\ \A m \in turn[c].msgs : ~Gone(m)
    BY <1>5 DEF TransferOwnership, Gone, InTurn
  <2> QED
    BY <2>1, <2>2, PlaceFacts DEF NothingMoves, Counts, CleanedOnce, DroppedUnlessOwned
<1>6. ASSUME \/ \E c \in Chats : ProcessFails(c) \/ EvictIfIdle(c)
             \/ \E t \in stale : StaleFails(t)
             \/ CancelAllDebounceTimers \/ Exit \/ UNCHANGED vars
      PROVE  Counts'
  <2>1. UNCHANGED agentOwns
    BY <1>6 DEF ProcessFails, EvictIfIdle, StaleFails, CancelAllDebounceTimers, Exit, vars
  <2>2. NothingMoves /\ UNCHANGED <<cleaned, dropped>>
    BY <1>6, QuietPlaces
  <2> QED
    BY <1>1, <2>1, <2>2 DEF NothingMoves
<1>7. ASSUME NEW C \in SUBSET Chats, ClearChats(C), UNCHANGED <<count, agentOwns, handed>>
      PROVE  Counts'
  <2>1. PICK S : S = {m \in Messages : \E c \in C : m \in Buffered(c)}
    OBVIOUS
  <2>2. LetsGoOf(S) /\ S \ agentOwns = S
    BY <1>7, <2>1, ClearPlaces
  <2>3. cleaned' = Run(cleaned, S) /\ dropped' = Run(dropped, S)
    BY <1>7, <2>1 DEF ClearChats
  <2>4. S \in SUBSET Messages
    BY <2>1
  <2> QED
    BY <1>7, <2>2, <2>3, <2>4, PlaceFacts, CountsKept
<1>8. ASSUME NEW c \in Chats, Clear(c)
      PROVE  Counts'
  BY <1>7, <1>8 DEF Clear
<1>9. CASE ClearAll
  BY <1>7, <1>9 DEF ClearAll
<1>10. ASSUME NEW t \in stale, FinishStale(t)
       PROVE  Counts'
  <2>1. LiveDrops(t) = t.msgs \ agentOwns
    BY PlaceFacts DEF LiveDrops, TurnKnowsOwner
  <2>2. LetsGoOf(t.msgs) /\ t.msgs \in SUBSET Messages
    BY <1>10, PlaceFacts, StalePlaces DEF TypeOK, Turns
  <2> QED
    BY <1>10, <2>1, <2>2, PlaceFacts, CountsKept DEF FinishStale
<1> QED
  BY <1>2, <1>3, <1>4, <1>5, <1>6, <1>8, <1>9, <1>10 DEF Next

\* The inductive invariant is kept by every step.
LEMMA InvStep == Inv /\ [Next]_vars => Inv'
BY TypeStep, LocalStep, HomeStep, OwnerStep, CountsStep DEF Inv

\* The inductive invariant holds when the bot starts.
LEMMA InvInit == Init => Inv
<1> SUFFICES ASSUME Init
             PROVE  Inv
  OBVIOUS
<1>1. TypeOK
  BY MaxMessagesAssumption DEF Init, TypeOK, NoState, NoTurn, NewTurn, States, Turns, Phases
<1>2. \A c \in Chats : /\ Buffered(c) = {} /\ turn[c].msgs = {} /\ ~turn[c].owned
                       /\ turn[c].chat = c /\ handed[c] = {}
  BY DEF Init, Buffered, NoState, NoTurn, NewTurn
<1>3. Local
  BY DEF Init, Local, BusyIsTheTurn, HasAWaker, NoState
<1>4. OneHome /\ TurnKnowsOwner
  BY <1>2 DEF Init, OneHome, TurnKnowsOwner
<1>5. Counts
  BY MaxMessagesAssumption DEF Init, Counts, CleanedOnce, DroppedUnlessOwned, Gone, Messages
<1> QED
  BY <1>1, <1>3, <1>4, <1>5 DEF Inv

\* The inductive invariant holds in every reachable state.
LEMMA Invariance == Spec => []Inv
BY InvInit, InvStep, PTL DEF Spec

\* The cleanup callback of every message runs exactly once, at the step that lets
\* go of it: no temp file leaks and none is released under a waiting message.
THEOREM CleanupRunsOnce == Spec => []CleanedOnce
BY Invariance, PTL DEF Inv, Counts

\* Media are deleted exactly once when no agent owns them, and never when one does.
THEOREM DropSparesOwned == Spec => []DroppedUnlessOwned
BY Invariance, PTL DEF Inv, Counts

\* busy tells the truth about the one turn an entry may have, while any number of
\* cleared turns of the same chat end around it.
THEOREM OneTurnPerEntry == Spec => []BusyIsTheTurn
BY Invariance, PTL DEF Inv, Local

\* Nothing waits in a buffer without a timer or a turn that will take it out.
THEOREM NothingIsStranded == Spec => []HasAWaker
BY Invariance, PTL DEF Inv, Local

\* No message is in two places, and none is handed to an agent twice.
THEOREM OnePlacePerMessage == Spec => []OneHome
BY Invariance, PTL DEF Inv
----------------------------------------------------------------------------
(* What a step hands to an agent.                                          *)

\* What a turn remembers about ownership is what the agent was told, for each batch
\* of a drain loop anew, and also in turns whose chat was cleared.
THEOREM OwnershipIsPerBatch == Spec => []TurnKnowsOwner
BY Invariance, PTL DEF Inv

\* Only Flush and FinishTurn hand messages over, and they hand over the buffer.
LEMMA OnlyBuffersAreHanded ==
    ASSUME Inv, [Next]_vars, NEW c \in Chats, NEW m \in NewlyHanded(c)
    PROVE  m \in Buffered(c)
<1>0. TypeOK /\ Local
  BY DEF Inv
<1>1. CASE UNCHANGED handed
  BY <1>1 DEF NewlyHanded
<1>2. ASSUME NEW d \in Chats, Flush(d) \/ FinishTurn(d)
      PROVE  m \in Buffered(c)
  <2>1. HandsOver(d)
    BY <1>0, <1>2, TurnsHandOver
  <2> QED
    BY <2>1 DEF HandsOver, NewlyHanded
<1>3. \/ UNCHANGED handed
      \/ \E d \in Chats : Flush(d) \/ FinishTurn(d)
  BY DEF Next, Enqueue, EnqueueCollect, EnqueuePending, EnqueueDrop, TransferOwnership,
         ProcessFails, EvictIfIdle, Clear, StaleFails, FinishStale,
         CancelAllDebounceTimers, ClearAll, Exit, vars
<1> QED
  BY <1>1, <1>2, <1>3

\* The agent of a chat sees its messages in arrival order, whatever batches,
\* clears and failures come in between.
THEOREM ArrivalOrder == Spec => HandedInOrder
<1>1. Inv /\ [Next]_vars =>
        [\A c \in Chats : \A m \in NewlyHanded(c), k \in handed[c] : k < m]_vars
  BY OnlyBuffersAreHanded DEF Inv, OneHome
<1> QED
  BY <1>1, Invariance, PTL DEF Spec, HandedInOrder

\* A message is handed over before any of its callbacks has run: the files its
\* text names still exist.
THEOREM IntactWhenHanded == Spec => HandedIntact
<1>1. ASSUME Inv, [Next]_vars
      PROVE  \A c \in Chats : \A m \in NewlyHanded(c) : cleaned[m] = 0 /\ dropped[m] = 0
  <2> SUFFICES ASSUME NEW c \in Chats, NEW m \in NewlyHanded(c)
               PROVE  cleaned[m] = 0 /\ dropped[m] = 0
    OBVIOUS
  <2>1. m \in Buffered(c)
    BY <1>1, OnlyBuffersAreHanded
  <2>2. m \in Messages /\ ~Gone(m)
    BY <1>1, <2>1, StateFields DEF Gone, InBuffer, Inv, Buffered
  <2> QED
    BY <1>1, <2>2 DEF Inv, Counts, CleanedOnce, DroppedUnlessOwned
<1>2. Inv /\ [Next]_vars =>
        [\A c \in Chats : \A m \in NewlyHanded(c) : cleaned[m] = 0 /\ dropped[m] = 0]_vars
  BY <1>1
<1> QED
  BY <1>2, Invariance, PTL DEF Spec, HandedIntact
----------------------------------------------------------------------------
(* MessageQueue implements MessageLifecycle.                               *)

\* Under Inv the counters of a message say where it is.
StatusByPlace ==
    \A m \in Messages :
        StatusOf(m) = IF m > count THEN "new"
                      ELSE IF Gone(m) THEN (IF m \in agentOwns THEN "kept" ELSE "reclaimed")
                      ELSE IF ~InTurn(m) THEN "waiting"
                      ELSE IF m \in agentOwns THEN "owned" ELSE "handed"

\* Under the invariant, the status of a message follows from the place it is in.
LEMMA StatusNow == Inv => StatusByPlace
<1> SUFFICES ASSUME Inv, NEW m \in Messages
             PROVE  StatusOf(m) = IF m > count THEN "new"
                         ELSE IF Gone(m) THEN (IF m \in agentOwns THEN "kept" ELSE "reclaimed")
                         ELSE IF ~InTurn(m) THEN "waiting"
                         ELSE IF m \in agentOwns THEN "owned" ELSE "handed"
  BY DEF StatusByPlace
<1>1. count \in Nat /\ m \in Nat
  BY PlaceFacts, MaxMessagesAssumption DEF Messages
<1>2. CASE m > count
  BY <1>2 DEF StatusOf
<1>3. CASE m <= count /\ Gone(m)
  BY <1>1, <1>3, PlaceFacts DEF StatusOf, Counts, CleanedOnce, DroppedUnlessOwned
<1>4. CASE m <= count /\ ~Gone(m)
  BY <1>1, <1>4, PlaceFacts DEF StatusOf, Counts, CleanedOnce, DroppedUnlessOwned
<1> QED
  BY <1>1, <1>2, <1>3, <1>4

\* The same for the state after a step.
LEMMA StatusNext == Inv' => StatusByPlace'
BY StatusNow, PTL

StatusMap == [m \in Messages |-> StatusOf(m)]

\* A step that changes the status of the messages of S only is a lifecycle move.
LEMMA MoveStep ==
    ASSUME NEW S \in SUBSET Messages, NEW from, NEW to,
           \A m \in S : StatusOf(m) \in from /\ StatusOf(m)' = to,
           \A m \in Messages \ S : StatusOf(m)' = StatusOf(m)
    PROVE  Lifecycle!Move(S, from, to)
BY DEF Lifecycle!Move

\* Every step of the queue is a step of the lifecycle, or leaves every status alone.
LEMMA LifeStep ==
    ASSUME Inv, Inv', [Next]_vars
    PROVE  [Lifecycle!LifeNext]_StatusMap
<1> USE DEF StatusMap
<1>0. TypeOK /\ count \in Nat
  BY PlaceFacts
<1>00. StatusByPlace /\ StatusByPlace'
  BY StatusNow, StatusNext
<1>1. ASSUME \A m \in Messages : StatusOf(m)' = StatusOf(m)
      PROVE  [Lifecycle!LifeNext]_StatusMap
  BY <1>1
<1>2. ASSUME NEW S \in SUBSET Messages, NEW C \in SUBSET Chats,
             ClearChats(C), UNCHANGED <<count, agentOwns, handed>>
      PROVE  [Lifecycle!LifeNext]_StatusMap
  <2>1. PICK T : T = {m \in Messages : \E c \in C : m \in Buffered(c)}
    OBVIOUS
  <2>2. /\ LetsGoOf(T)
        /\ \A m \in Messages : InTurn(m)' <=> InTurn(m)
        /\ \A m \in T : m <= count /\ ~InTurn(m) /\ m \notin agentOwns
    BY <1>2, <2>1, ClearPlaces
  <2>3. \A m \in T : StatusOf(m) \in {"waiting"} /\ StatusOf(m)' = "reclaimed"
    BY <1>0, <1>2, <2>1, <2>2, <1>00 DEF StatusByPlace, LetsGoOf, Messages
  <2>4. \A m \in Messages \ T : StatusOf(m)' = StatusOf(m)
    BY <1>2, <2>2, <1>00 DEF StatusByPlace, LetsGoOf
  <2>5. T \in SUBSET Messages
    BY <2>1
  <2> QED
    BY <2>3, <2>4, <2>5, MoveStep DEF Lifecycle!LifeNext, Lifecycle!Reclaim
<1>3. ASSUME NEW c \in Chats, Enqueue(c)
      PROVE  [Lifecycle!LifeNext]_StatusMap
  <2>0. PICK a \in Messages : a = Arrival
    BY <1>3, EnqueuePlaces
  <2>1. /\ count' = count + 1 /\ a \notin agentOwns
        /\ UNCHANGED agentOwns
        /\ \A m \in Messages : InTurn(m)' <=> InTurn(m)
        /\ ~InTurn(a)
        /\ (\A m \in Messages : Gone(m)' <=> Gone(m)) \/ LetsGoOf({a})
    BY <1>3, <2>0, EnqueuePlaces
  <2>2. a = count + 1 /\ a > count /\ a \in Nat /\ Messages \subseteq Nat
    BY <1>0, <2>0 DEF Arrival, Messages
  <2>3. StatusOf(a) = "new" /\ ~Gone(a)
    BY <2>2, <1>0 DEF StatusOf, Gone
  <2>4. StatusOf(a)' \in {"waiting", "reclaimed"}
    <3>1. ~(a > count') /\ a \notin agentOwns' /\ ~InTurn(a)'
      BY <2>0, <2>1, <2>2, <1>0
    <3> QED
      BY <2>0, <3>1, <1>00 DEF StatusByPlace
  <2>5. \A m \in Messages : m # a => ((m > count') <=> m > count)
    BY <2>1, <2>2, <1>0
  <2>6. \A m \in Messages : m # a => (Gone(m)' <=> Gone(m))
    BY <2>1 DEF LetsGoOf
  <2>7. \A m \in Messages \ {a} : StatusOf(m)' = StatusOf(m)
    BY <2>1, <2>5, <2>6, <1>00 DEF StatusByPlace
  <2>8. \/ Lifecycle!Move({a}, {"new"}, "waiting")
        \/ Lifecycle!Move({a}, {"new"}, "reclaimed")
    <3>1. {a} \in SUBSET Messages
      BY <2>0
    <3>2. CASE StatusOf(a)' = "waiting"
      BY <3>1, <3>2, <2>3, <2>7, MoveStep
    <3>3. CASE StatusOf(a)' = "reclaimed"
      BY <3>1, <3>3, <2>3, <2>7, MoveStep
    <3> QED
      BY <2>4, <3>2, <3>3
  <2> QED
    BY <2>0, <2>8 DEF Lifecycle!LifeNext, Lifecycle!Arrive
<1>4. ASSUME NEW c \in Chats, Flush(c) \/ FinishTurn(c)
      PROVE  [Lifecycle!LifeNext]_StatusMap
  <2> DEFINE S == turn[c].msgs
             T == Buffered(c)
             from == IF turn[c].owned THEN "owned" ELSE "handed"
  <2>1. /\ HandsOver(c) /\ LetsGoOf(S)
        /\ \A m \in Messages : InTurn(m)' <=> (InTurn(m) /\ m \notin S) \/ m \in T
        /\ S \in SUBSET Messages /\ T \in SUBSET Messages
    BY <1>0, <1>4, HandOverPlaces, StateFields DEF Buffered
  <2>2. \A m \in S : StatusOf(m) = from
    <3>1. \A m \in S : InTurn(m) /\ m <= count /\ ~Gone(m)
      BY <1>0, <2>1, PlaceFacts DEF InTurn, LetsGoOf
    <3>2. \A m \in S : m \in agentOwns <=> turn[c].owned
      BY PlaceFacts DEF TurnKnowsOwner
    <3> QED
      BY <1>0, <2>1, <3>1, <3>2, <1>00 DEF StatusByPlace, Messages
  <2>3. \A m \in T : StatusOf(m) = "waiting" /\ m \notin S /\ m \notin agentOwns /\ m <= count
                     /\ ~Gone(m)
    <3>1. \A m \in T : ~InTurn(m) /\ m <= count /\ ~Gone(m) /\ m \notin agentOwns
      BY <1>0, PlaceFacts DEF Gone, InBuffer
    <3>2. \A m \in T : m \notin S
      BY <3>1 DEF InTurn
    <3> QED
      BY <1>0, <2>1, <3>1, <3>2, <1>00 DEF StatusByPlace, Messages
  <2>4. count' = count /\ agentOwns' = agentOwns
    BY <2>1 DEF HandsOver
  <2>5. \A m \in S : StatusOf(m)' = IF from = "owned" THEN "kept" ELSE "reclaimed"
    <3>1. \A m \in S : m <= count' /\ Gone(m)'
      BY <1>0, <2>1, <2>4, PlaceFacts DEF LetsGoOf
    <3>2. \A m \in S : m \in agentOwns <=> turn[c].owned
      BY PlaceFacts DEF TurnKnowsOwner
    <3> QED
      BY <1>0, <2>1, <2>4, <3>1, <3>2, <1>00 DEF StatusByPlace, Messages
  <2>6. \A m \in T : StatusOf(m)' = "handed"
    <3>1. \A m \in T : m <= count' /\ ~Gone(m)' /\ InTurn(m)'
      BY <2>1, <2>3, <2>4 DEF LetsGoOf
    <3> QED
      BY <1>0, <2>1, <2>3, <2>4, <3>1, <1>00 DEF StatusByPlace, Messages
  <2>7. \A m \in Messages : m \notin S /\ m \notin T => StatusOf(m)' = StatusOf(m)
    BY <2>1, <2>4, <1>00 DEF StatusByPlace, LetsGoOf
  <2> HIDE DEF S, T
  <2>8. Lifecycle!Settle(S, T)
    <3>1. from \in {"handed", "owned"}
      OBVIOUS
    <3> HIDE DEF from
    <3> QED
      BY <2>1, <2>2, <2>3, <2>5, <2>6, <2>7, <3>1 DEF Lifecycle!Settle
  <2> QED
    BY <2>1, <2>8 DEF Lifecycle!LifeNext
<1>5. ASSUME NEW c \in Chats, TransferOwnership(c)
      PROVE  [Lifecycle!LifeNext]_StatusMap
  <2> DEFINE S == turn[c].msgs
  <2>1. NothingMoves /\ UNCHANGED count
    BY <1>5, QuietPlaces
  <2>2. agentOwns' = agentOwns \cup S /\ S \in SUBSET Messages
    BY <1>5, <1>0, StateFields DEF TransferOwnership
  <2>3. \A m \in S : InTurn(m) /\ ~Gone(m) /\ m <= count /\ m \notin agentOwns
    BY <1>0, <1>5, PlaceFacts DEF InTurn, Gone, TransferOwnership, TurnKnowsOwner
  <2>4. \A m \in S : StatusOf(m) \in {"handed"} /\ StatusOf(m)' = "owned"
    BY <1>0, <2>1, <2>2, <2>3, <1>00 DEF StatusByPlace, NothingMoves, Messages
  <2>5. \A m \in Messages \ S : StatusOf(m)' = StatusOf(m)
    BY <2>1, <2>2, <1>00 DEF StatusByPlace, NothingMoves
  <2> HIDE DEF S
  <2> QED
    BY <2>2, <2>4, <2>5, MoveStep DEF Lifecycle!LifeNext, Lifecycle!Own
<1>6. ASSUME \/ \E c \in Chats : ProcessFails(c) \/ EvictIfIdle(c)
             \/ \E t \in stale : StaleFails(t)
             \/ CancelAllDebounceTimers \/ Exit \/ UNCHANGED vars
      PROVE  [Lifecycle!LifeNext]_StatusMap
  <2>1. UNCHANGED agentOwns
    BY <1>6 DEF ProcessFails, EvictIfIdle, StaleFails, CancelAllDebounceTimers, Exit, vars
  <2>2. NothingMoves /\ UNCHANGED count
    BY <1>6, QuietPlaces
  <2> QED
    BY <1>1, <2>1, <2>2, <1>00 DEF StatusByPlace, NothingMoves
<1>7. ASSUME NEW t \in stale, FinishStale(t)
      PROVE  [Lifecycle!LifeNext]_StatusMap
  <2> DEFINE S == t.msgs
             from == IF t.owned THEN "owned" ELSE "handed"
  <2>1. /\ LetsGoOf(S)
        /\ \A m \in Messages : InTurn(m)' <=> InTurn(m) /\ m \notin S
        /\ S \in SUBSET Messages
        /\ count' = count /\ agentOwns' = agentOwns
    BY <1>0, <1>7, StalePlaces DEF TypeOK, Turns, FinishStale
  <2>2. \A m \in S : /\ InTurn(m) /\ m <= count /\ ~Gone(m)
                     /\ m \in agentOwns <=> t.owned
    BY <1>0, <2>1, PlaceFacts DEF InTurn, LetsGoOf, TurnKnowsOwner
  <2>3. \A m \in S : StatusOf(m) = from
    BY <1>0, <2>1, <2>2, <1>00 DEF StatusByPlace, Messages
  <2>4. \A m \in S : StatusOf(m)' = IF from = "owned" THEN "kept" ELSE "reclaimed"
    BY <1>0, <2>1, <2>2, <1>00 DEF StatusByPlace, LetsGoOf, Messages
  <2>5. \A m \in Messages : m \notin S => StatusOf(m)' = StatusOf(m)
    BY <2>1, <1>00 DEF StatusByPlace, LetsGoOf
  <2> HIDE DEF S
  <2>6. Lifecycle!Settle(S, {})
    <3>1. from \in {"handed", "owned"}
      OBVIOUS
    <3> HIDE DEF from
    <3> QED
      BY <2>1, <2>3, <2>4, <2>5, <3>1 DEF Lifecycle!Settle
  <2> QED
    BY <2>1, <2>6 DEF Lifecycle!LifeNext
<1>8. ASSUME NEW c \in Chats, Clear(c)
      PROVE  [Lifecycle!LifeNext]_StatusMap
  BY <1>2, <1>8 DEF Clear
<1>9. CASE ClearAll
  BY <1>2, <1>9 DEF ClearAll
<1> QED
  BY <1>3, <1>4, <1>5, <1>6, <1>7, <1>8, <1>9 DEF Next

\* Every behaviour of the queue is, message by message, a behaviour of the
\* lifecycle: waiting, handed at most once, then kept by the agent or reclaimed.
THEOREM QueueImplementsLifecycle == Spec => ImplementsLifecycle
<1>1. Init => Lifecycle!LifeInit
  BY MaxMessagesAssumption DEF Init, Lifecycle!LifeInit, StatusOf, Messages
<1>2. Inv /\ Inv' /\ [Next]_vars => [Lifecycle!LifeNext]_StatusMap
  BY LifeStep
<1> QED
  BY <1>1, <1>2, Invariance, PTL DEF Spec, ImplementsLifecycle, Lifecycle!LifeSpec, StatusMap
----------------------------------------------------------------------------
(* The size of an entry.                                                   *)

Fits(S) == Cardinality(S) <= QueueCap

\* Each buffer, and the batch taken from one, is within the cap.
Capped == \A c \in Chats : /\ Fits(queues[c].pending)
                           /\ Fits(queues[c].collect)
                           /\ Fits(turn[c].msgs)

\* Sets of messages are finite.
LEMMA MessagesAreFinite ==
    ASSUME NEW S \in SUBSET Messages
    PROVE  IsFiniteSet(S) /\ Cardinality(S) \in Nat
<1>1. IsFiniteSet(Messages)
  BY MaxMessagesAssumption, FS_Interval DEF Messages
<1>2. IsFiniteSet(S)
  BY <1>1, FS_Subset
<1> QED
  BY <1>2, FS_CardinalityType

\* The empty set fits, and a buffer that is not full has room for one more.
LEMMA RoomForOne ==
    /\ Fits({})
    /\ \A S \in SUBSET Messages : \A m : ~Full(S) => Fits(S \cup {m})
<1>1. Fits({})
  BY FS_EmptySet, QueueCapAssumption DEF Fits
<1>2. ASSUME NEW S \in SUBSET Messages, NEW m, ~Full(S)
      PROVE  Fits(S \cup {m})
  <2>1. IsFiniteSet(S) /\ Cardinality(S) \in Nat
    BY MessagesAreFinite
  <2>2. Cardinality(S \cup {m}) \in {Cardinality(S), Cardinality(S) + 1}
    BY <2>1, FS_AddElement
  <2> QED
    BY <1>2, <2>1, <2>2, QueueCapAssumption DEF Fits, Full
<1> QED
  BY <1>1, <1>2

\* Enqueue looks at the cap, and a batch is a buffer as it was.
LEMMA CappedStep == TypeOK /\ Local /\ Capped /\ [Next]_vars => Capped'
<1> SUFFICES ASSUME TypeOK, Local, Capped, [Next]_vars, NEW d \in Chats
             PROVE  /\ Fits(queues'[d].pending)
                    /\ Fits(queues'[d].collect)
                    /\ Fits(turn'[d].msgs)
  BY DEF Capped, Fits
<1> USE RoomForOne
<1>0. /\ Fits(queues[d].pending) /\ Fits(queues[d].collect) /\ Fits(turn[d].msgs)
      /\ queues \in [Chats -> States] /\ turn \in [Chats -> Turns]
      /\ \A c \in Chats : /\ queues[c] \in States
                          /\ queues[c].pending \in SUBSET Messages
                          /\ queues[c].collect \in SUBSET Messages
  BY StateFields DEF Capped, TypeOK
<1>1. ASSUME NEW c \in Chats, Enqueue(c)
      PROVE  /\ Fits(queues'[d].pending) /\ Fits(queues'[d].collect) /\ Fits(turn'[d].msgs)
  <2>1. CASE EnqueueCollect(c)
    BY <2>1, <1>0 DEF EnqueueCollect, States
  <2>2. CASE EnqueuePending(c)
    BY <2>2, <1>0 DEF EnqueuePending, GetState, States
  <2>3. CASE EnqueueDrop(c)
    BY <2>3, <1>0 DEF EnqueueDrop, GetState, States
  <2> QED
    BY <1>1, <2>1, <2>2, <2>3 DEF Enqueue
<1>2. ASSUME NEW c \in Chats, Flush(c)
      PROVE  /\ Fits(queues'[d].pending) /\ Fits(queues'[d].collect) /\ Fits(turn'[d].msgs)
  BY <1>2, <1>0 DEF Flush, NewTurn, States, Turns
<1>3. ASSUME NEW c \in Chats, FinishTurn(c)
      PROVE  /\ Fits(queues'[d].pending) /\ Fits(queues'[d].collect) /\ Fits(turn'[d].msgs)
  BY <1>3, <1>0 DEF FinishTurn, NewTurn, NoTurn, States, Turns
<1>4. ASSUME NEW c \in Chats, TransferOwnership(c) \/ ProcessFails(c) \/ EvictIfIdle(c)
      PROVE  /\ Fits(queues'[d].pending) /\ Fits(queues'[d].collect) /\ Fits(turn'[d].msgs)
  <2>1. CASE TransferOwnership(c) \/ ProcessFails(c)
    BY <2>1, <1>0 DEF TransferOwnership, ProcessFails, Turns
  <2>2. CASE EvictIfIdle(c)
    BY <2>2, <1>0 DEF EvictIfIdle, NoState, States
  <2> QED
    BY <1>4, <2>1, <2>2
<1>5. ASSUME NEW C \in SUBSET Chats, ClearChats(C)
      PROVE  /\ Fits(queues'[d].pending) /\ Fits(queues'[d].collect) /\ Fits(turn'[d].msgs)
  BY <1>5, <1>0 DEF ClearChats, NoState, NoTurn, NewTurn
<1>6. CASE CancelAllDebounceTimers
  BY <1>6, <1>0 DEF CancelAllDebounceTimers, States
<1>7. CASE (\E t \in stale : StaleFails(t) \/ FinishStale(t)) \/ Exit \/ UNCHANGED vars
  BY <1>7, <1>0 DEF StaleFails, FinishStale, Exit, vars
<1> QED
  BY <1>1, <1>2, <1>3, <1>4, <1>5, <1>6, <1>7 DEF Next, Clear, ClearAll

\* While a turn runs nothing waits in the debounce buffer, and while none runs
\* nothing else does.
LEMMA CappedIsBounded == TypeOK /\ Local /\ Capped => EntryIsBounded
<1> SUFFICES ASSUME TypeOK, Local, Capped, NEW c \in Chats
             PROVE  Cardinality(Buffered(c) \cup turn[c].msgs) <= 2 * QueueCap
  BY DEF EntryIsBounded
<1> DEFINE P == queues[c].pending
           Q == queues[c].collect
           T == turn[c].msgs
<1>1. P \in SUBSET Messages /\ Q \in SUBSET Messages /\ T \in SUBSET Messages
  BY StateFields
<1>2. Fits(P) /\ Fits(Q) /\ Fits(T)
  BY DEF Capped
<1>3. /\ queues[c].busy => P = {}
      /\ ~queues[c].busy => Q = {} /\ T = {}
  BY IdleHasNoBatch DEF Local, HasAWaker
<1>4. Buffered(c) \cup turn[c].msgs = P \cup Q \cup T
  BY DEF Buffered
<1> HIDE DEF P, Q, T
<1>5. CASE queues[c].busy
  <2>1. Cardinality(Q \cup T) <= Cardinality(Q) + Cardinality(T)
    <3>1. /\ IsFiniteSet(Q) /\ Cardinality(Q) \in Nat /\ IsFiniteSet(T) /\ Cardinality(T) \in Nat
          /\ Cardinality(Q \cap T) \in Nat
      BY <1>1, MessagesAreFinite
    <3>2. Cardinality(Q \cup T) = Cardinality(Q) + Cardinality(T) - Cardinality(Q \cap T)
      BY <3>1, FS_Union, Zenon
    <3> QED
      BY <3>1, <3>2
  <2>2. Cardinality(Q) \in Nat /\ Cardinality(T) \in Nat /\ Cardinality(Q \cup T) \in Nat
    BY <1>1, MessagesAreFinite
  <2>3. P \cup Q \cup T = Q \cup T
    BY <1>3, <1>5
  <2>4. Cardinality(Q \cup T) <= 2 * QueueCap
    <3>1. Cardinality(Q) <= QueueCap /\ Cardinality(T) <= QueueCap
      BY <1>2 DEF Fits
    <3> QED
      BY <3>1, <2>1, <2>2, QueueCapAssumption
  <2> QED
    BY <1>4, <2>3, <2>4
<1>6. CASE ~queues[c].busy
  <2>1. P \cup Q \cup T = P
    BY <1>3, <1>6
  <2>2. Cardinality(P) \in Nat
    BY <1>1, MessagesAreFinite
  <2>3. Cardinality(P) <= 2 * QueueCap
    <3>1. Cardinality(P) <= QueueCap
      BY <1>2 DEF Fits
    <3> QED
      BY <3>1, <2>2, QueueCapAssumption
  <2> QED
    BY <1>4, <2>1, <2>3
<1> QED
  BY <1>5, <1>6

\* What an entry holds, buffered or under way, never exceeds two buffers, for
\* any cap, however bursts, turns and clears follow one another.
THEOREM EntriesAreBounded == Spec => []EntryIsBounded
<1>1. Init => Capped
  <2>1. Init => \A c \in Chats : queues[c].pending = {} /\ queues[c].collect = {} /\ turn[c].msgs = {}
    BY DEF Init, NoState, NoTurn, NewTurn
  <2> QED
    BY <2>1, RoomForOne DEF Capped
<1>2. Inv /\ Capped /\ [Next]_vars => Capped'
  BY CappedStep DEF Inv
<1>3. Inv /\ Capped => EntryIsBounded
  BY CappedIsBounded DEF Inv
<1> QED
  BY <1>1, <1>2, <1>3, Invariance, PTL DEF Spec
============================================================================
