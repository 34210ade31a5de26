---------------------------- MODULE SessionManager ----------------------------
(***************************************************************************)
(* bot/src/session-manager.ts: one Pi subprocess per chat, kept in the map *)
(* `active`, started on demand and resumed from the session store.         *)
(*                                                                         *)
(* A step runs from one await to the next.  A call of sendSessionMessage   *)
(* is suspended while it closes an evicted session, during the crash       *)
(* backoff, while its subprocess starts, in the session's PQueue and while *)
(* the turn runs; everything else may happen in between.                   *)
(*                                                                         *)
(* The message queue runs one turn per chat, and calls again while a call  *)
(* is suspended only if /reconnect or /clean has cleared the chat's queue  *)
(* in between (MessageQueue!BusyIsTheTurn): `cleared` says so of a call.   *)
(***************************************************************************)
EXTENDS Integers, FiniteSets

CONSTANTS
    Chats,         \* chat ids
    Calls,         \* bound: calls of sendSessionMessage suspended at one time
    MaxChildren,   \* bound: subprocesses that are ever started
    MaxSessions,   \* sessionDefaults.maxConcurrentSessions
    MaxRestarts    \* MAX_CRASH_RESTARTS

ASSUME BoundsAssumption ==
    /\ IsFiniteSet(Chats)
    /\ IsFiniteSet(Calls)
    /\ MaxChildren \in Nat \ {0}
    /\ MaxSessions \in Nat \ {0}
    /\ MaxRestarts \in Nat \ {0}

Children == 1 .. MaxChildren

None == 0

\* Session ids: the one Pi mints is the number of the child that began the
\* conversation; a local randomUUID, unknown to Pi, is a larger number.
Ids == 1 .. 2 * MaxChildren
LocalId(p) == MaxChildren + p
KnownToPi(id) == id \in Children
FirstChild(id) == IF KnownToPi(id) THEN id ELSE id - MaxChildren

VARIABLES
    active,       \* the map: chat -> child of its session, or None
    children,     \* every subprocess, with the fields of its session
    born,         \* subprocesses started so far
    call,         \* the suspended calls of sendSessionMessage
    ahead,        \* the calls before each call in the PQueue of its session
    store,        \* session store: chat -> session id, or None
    restarts,     \* restartCounts, 0 for a missing entry
    gauge,        \* the bot_sessions_active metric
    closing,      \* closeAll has run; the process is about to exit
    overwritten,  \* history: sessions replaced in the map by active.set
    disturbed,    \* history: chats cleared while a spawn of theirs was suspended
    forgotten     \* history: number of the last child when the chat was cleaned

vars == <<active, children, born, call, ahead, store, restarts, gauge, closing,
          overwritten, disturbed, forgotten>>

history == <<overwritten, disturbed, forgotten>>

\* killed: child.killed; timer: session.idleTimer is armed; conv: the
\* conversation Pi works on; id: session.sessionId.  Of a process that has
\* exited only its chat and a forgotten idle timer still matter.
LiveChildren == [state : {"live"}, chat : Chats, killed : BOOLEAN,
                 timer : BOOLEAN, conv : Ids, id : Ids \cup {None}]

DeadChildren == [state : {"dead"}, chat : Chats, timer : BOOLEAN]

Dead(c, armed) == [state |-> "dead", chat |-> c, timer |-> armed]

Unborn == [state |-> "unborn"]

NewChild(c, conv) == [state |-> "live", chat |-> c, killed |-> FALSE,
                      timer |-> FALSE, conv |-> conv, id |-> None]

\* existed, resume, id, retried (alreadyRetried): locals of getOrCreateSession, of
\* no use once it has returned a session.
CallRecords == [pc : {"evicting", "backoff", "starting", "queued", "running"},
                chat : Chats, cleared : BOOLEAN, existed : BOOLEAN,
                resume : BOOLEAN, retried : BOOLEAN, id : Ids \cup {None},
                child : Children \cup {None}]

NoCall == [pc |-> "idle"]

NewCall(c, pc, existed, p) ==
    [pc |-> pc, chat |-> c, cleared |-> FALSE, existed |-> existed, resume |-> FALSE,
     retried |-> FALSE, id |-> None, child |-> p]

Init ==
    /\ active = [c \in Chats |-> None]
    /\ children = [p \in Children |-> Unborn]
    /\ born = 0
    /\ call = [k \in Calls |-> NoCall]
    /\ ahead = [k \in Calls |-> {}]
    /\ store = [c \in Chats |-> None]
    /\ restarts = [c \in Chats |-> 0]
    /\ gauge = 0
    /\ closing = FALSE
    /\ overwritten = {}
    /\ disturbed = {}
    /\ forgotten = [c \in Chats |-> 0]

----------------------------------------------------------------------------

Sessions == {c \in Chats : active[c] # None}

CallsOf(c) == {k \in Calls : call[k] # NoCall /\ call[k].chat = c}

Spawning(k) == call[k].pc \in {"evicting", "backoff", "starting"}

\* hasExited(child)
Exited(p) == children[p].state = "dead"

Usable(p) == ~Exited(p) /\ ~children[p].killed

InQueue(p) == {k \in Calls : call[k].pc \in {"queued", "running"} /\ call[k].child = p}

\* session.queue.add, after getOrCreateSession has returned the session of child p.
JoinQueue(k, c, p, cleared) ==
    /\ call' = [call EXCEPT ![k] = [NewCall(c, "queued", FALSE, p) EXCEPT !.cleared = cleared]]
    /\ ahead' = [ahead EXCEPT ![k] = InQueue(p)]

\* Call k returns or throws; its task, if any, leaves the queue.
Return(k) ==
    /\ call' = [call EXCEPT ![k] = NoCall]
    /\ ahead' = [j \in Calls |-> ahead[j] \ {k}]

\* The sessions of the children of P get a signal and lose their idle timer.
Terminated(P) ==
    [p \in Children |-> IF p \in P THEN [children[p] EXCEPT !.killed = TRUE, !.timer = FALSE]
                                   ELSE children[p]]

Without(C) == [c \in Chats |-> IF c \in C THEN None ELSE active[c]]

Persisted(C) ==
    [c \in Chats |-> IF c \in C \cap Sessions THEN children[active[c]].id ELSE store[c]]

NoRestarts(C) == [c \in Chats |-> IF c \in C THEN 0 ELSE restarts[c]]

----------------------------------------------------------------------------
(* closeSession and those who call it.                                     *)

\* Mutant of CloseSessions: the child is not signalled.
CloseSessionsWithoutSignal(C, kept) ==
    /\ restarts' = NoRestarts(C)
    /\ store' = kept
    /\ children' = [p \in Children |-> IF \E c \in C : active[c] = p
                                       THEN [children[p] EXCEPT !.timer = FALSE] ELSE children[p]]
    /\ active' = Without(C)
    /\ gauge' = gauge - Cardinality(C \cap Sessions)

\* closeSession for every chat of C, up to its wait for the exit; `kept` is
\* the store it leaves.  The wait ends with the exit or after five seconds,
\* so it holds up nobody for ever and changes nothing.
CloseSessions(C, kept) ==
    /\ restarts' = NoRestarts(C)
    /\ store' = kept
    /\ children' = Terminated({active[c] : c \in C \cap Sessions})
    /\ active' = Without(C)
    /\ gauge' = gauge - Cardinality(C \cap Sessions)

\* messageQueue.clear(c), which detaches the turns of the chat.
ClearQueue(c) ==
    /\ call' = [k \in Calls |-> IF k \in CallsOf(c) THEN [call[k] EXCEPT !.cleared = TRUE]
                                                    ELSE call[k]]
    /\ disturbed' = IF \E k \in CallsOf(c) : Spawning(k) THEN disturbed \cup {c} ELSE disturbed

\* /reconnect
Reconnect(c) ==
    /\ ClearQueue(c)
    /\ CloseSessions({c}, Persisted({c}))
    /\ UNCHANGED <<ahead, born, closing, overwritten, forgotten>>

\* Mutant of Clean: closeSession persists the session it closes.
CleanPersists(c) ==
    /\ ClearQueue(c)
    /\ CloseSessions({c}, Persisted({c}))
    /\ forgotten' = [forgotten EXCEPT ![c] = born]
    /\ UNCHANGED <<ahead, born, closing, overwritten>>

\* /clean: destroySession deletes the stored session and closes without persisting.
Clean(c) ==
    /\ ClearQueue(c)
    /\ CloseSessions({c}, [store EXCEPT ![c] = None])
    /\ forgotten' = [forgotten EXCEPT ![c] = born]
    /\ UNCHANGED <<ahead, born, closing, overwritten>>

\* The idle timer of a session fires: it closes whatever session its chat has.
IdleTimerFires(p) ==
    LET C == {children[p].chat} IN
    /\ children[p] # Unborn
    /\ children[p].timer
    /\ restarts' = NoRestarts(C)
    /\ store' = Persisted(C)
    /\ children' = [Terminated({active[c] : c \in C \cap Sessions}) EXCEPT ![p].timer = FALSE]
    /\ active' = Without(C)
    /\ gauge' = gauge - Cardinality(C \cap Sessions)
    /\ UNCHANGED <<ahead, born, call, closing, history>>

\* The end of shutdown(): closeAll.  What is still under way goes on until all
\* exits are awaited and process.exit ends the behaviour.
CloseAll ==
    /\ ~closing
    /\ closing' = TRUE
    /\ CloseSessions(Chats, Persisted(Chats))
    /\ UNCHANGED <<ahead, born, call, history>>

----------------------------------------------------------------------------
(* getOrCreateSession.                                                     *)

\* A turn of chat c begins.
Begins(k, c) ==
    /\ call[k] = NoCall
    /\ \A j \in CallsOf(c) : call[j].cleared

\* The session in memory is reused (and its idle timer armed anew).
Reuse(k, c) ==
    /\ Begins(k, c)
    /\ active[c] # None
    /\ Usable(active[c])
    /\ JoinQueue(k, c, active[c], FALSE)
    /\ UNCHANGED <<active, children, born, store, restarts, gauge, closing, history>>

\* No session, or a dying one whose entry is dropped.
NeedsSpawn(k, c) ==
    /\ Begins(k, c)
    /\ active[c] # None => ~Usable(active[c])

\* Mutant of Victims: off by one.
VictimsOneLate(c) ==
    LET others == Sessions \ {c} IN
    IF Cardinality(others) <= MaxSessions THEN {{}} ELSE {{v} : v \in others}

\* evictIfNeeded, after the dying entry of c is gone: any session may be the one
\* with the oldest lastActivity.
Victims(c) ==
    LET others == Sessions \ {c} IN
    IF Cardinality(others) < MaxSessions THEN {{}} ELSE {{v} : v \in others}

\* Mutant of Create: sessionsActive.dec() is forgotten for a dying entry.
CreateKeepsGauge(k, c) ==
    /\ NeedsSpawn(k, c)
    /\ \E V \in Victims(c) :
        LET gone == (V \cup {c}) \cap Sessions IN
        /\ active' = Without(gone)
        /\ children' = Terminated({active[d] : d \in gone})
        /\ gauge' = gauge - Cardinality(V)
        /\ store' = Persisted(V)
        /\ restarts' = NoRestarts(V)
    /\ call' = [call EXCEPT ![k] = NewCall(c, "evicting", active[c] # None, None)]
    /\ UNCHANGED <<ahead, born, closing, history>>

Create(k, c) ==
    /\ NeedsSpawn(k, c)
    /\ \E V \in Victims(c) :
        LET gone == (V \cup {c}) \cap Sessions IN
        /\ active' = Without(gone)
        /\ children' = Terminated({active[d] : d \in gone})
        /\ gauge' = gauge - Cardinality(gone)
        /\ store' = Persisted(V)
        /\ restarts' = NoRestarts(V)
    /\ call' = [call EXCEPT ![k] = NewCall(c, "evicting", active[c] # None, None)]
    /\ UNCHANGED <<ahead, born, closing, history>>

\* The configuration does not load, or has lost the agent: the call throws after
\* it has dropped the dying entry.
ConfigFails(k, c) ==
    /\ NeedsSpawn(k, c)
    /\ active' = Without({c})
    /\ children' = Terminated({active[d] : d \in {c} \cap Sessions})
    /\ gauge' = gauge - Cardinality({c} \cap Sessions)
    /\ UNCHANGED <<ahead, born, call, store, restarts, closing, history>>

\* spawnPiRpcSession: call k, with its locals as in r, starts child born + 1 and
\* waits for it.  A child without --session begins a conversation of its own.
Spawn(k, r) ==
    /\ born < MaxChildren
    /\ born' = born + 1
    /\ call' = [call EXCEPT ![k] = [r EXCEPT !.pc = "starting", !.child = born + 1]]
    /\ children' = [children EXCEPT ![born + 1] =
          NewChild(r.chat, IF r.resume THEN r.id ELSE born + 1)]
    /\ UNCHANGED ahead

\* The call throws before a child is started: the chat is blocked, or
\* spawnPiRpcSession finds the workspace of the agent invalid.
Throws(k) ==
    /\ Return(k)
    /\ UNCHANGED <<children, born>>

Blocked(c) == restarts[c] >= MaxRestarts

\* The eviction is over: resolveStoredSession (which discards a session of another
\* or a deleted agent), then the circuit breaker and the crash backoff.
Resolve(k) ==
    LET c == call[k].chat IN
    /\ call[k].pc = "evicting"
    /\ \E sameAgent \in BOOLEAN :
        LET resume == store[c] # None /\ sameAgent
            r == [call[k] EXCEPT !.resume = resume, !.id = IF resume THEN store[c] ELSE None]
        IN
        /\ store' = [store EXCEPT ![c] = r.id]
        /\ \/ Blocked(c) /\ Throws(k)
           \/ /\ ~Blocked(c) /\ restarts[c] > 0
              /\ call' = [call EXCEPT ![k] = [r EXCEPT !.pc = "backoff"]]
              /\ UNCHANGED <<children, born, ahead>>
           \/ restarts[c] = 0 /\ (Spawn(k, r) \/ Throws(k))
    /\ UNCHANGED <<active, restarts, gauge, closing, history>>

BackoffEnds(k) ==
    /\ call[k].pc = "backoff"
    /\ Spawn(k, call[k]) \/ Throws(k)
    /\ UNCHANGED <<active, store, restarts, gauge, closing, history>>

\* Mutant of Install: the new session is not persisted until its first prompt.
InstallWithoutPersist(k) ==
    LET r == call[k]
        c == r.chat
        p == r.child
    IN
    /\ r.pc = "starting"
    /\ KnownToPi(children[p].conv)
    /\ children' = [children EXCEPT ![p].id = children[p].conv, ![p].timer = TRUE]
    /\ active' = [active EXCEPT ![c] = p]
    /\ gauge' = gauge + 1
    /\ overwritten' = IF active[c] # None THEN overwritten \cup {active[c]} ELSE overwritten
    /\ restarts' = IF r.existed \/ r.resume THEN restarts ELSE [restarts EXCEPT ![c] = 0]
    /\ JoinQueue(k, c, p, r.cleared)
    /\ UNCHANGED <<born, store, closing, disturbed, forgotten>>

\* The child has started; get_state has told its id, or it stays on the id it has.
Install(k) ==
    LET r == call[k]
        c == r.chat
        p == r.child
        ownId == IF r.resume /\ ~r.retried THEN r.id ELSE LocalId(p)
    IN
    /\ r.pc = "starting"
    /\ KnownToPi(children[p].conv)
    /\ \E id \in {children[p].conv, ownId} :
        /\ children' = [children EXCEPT ![p].id = id, ![p].timer = TRUE]
        /\ store' = [store EXCEPT ![c] = id]
    /\ active' = [active EXCEPT ![c] = p]
    /\ gauge' = gauge + 1
    /\ overwritten' = IF active[c] # None THEN overwritten \cup {active[c]} ELSE overwritten
    /\ restarts' = IF r.existed \/ r.resume THEN restarts ELSE [restarts EXCEPT ![c] = 0]
    /\ JoinQueue(k, c, p, r.cleared)
    /\ UNCHANGED <<born, closing, disturbed, forgotten>>

\* Pi does not find the stored session: it is discarded and the call starts a
\* fresh child, once.
ResumeNotFound(k) ==
    LET r == call[k] IN
    /\ r.pc = "starting"
    /\ r.resume /\ ~r.retried
    /\ store' = [store EXCEPT ![r.chat] = None]
    /\ LET dead == [children EXCEPT ![r.child] = Dead(r.chat, FALSE)] IN
       \/ /\ born < MaxChildren
          /\ born' = born + 1
          /\ children' = [dead EXCEPT ![born + 1] = NewChild(r.chat, born + 1)]
          /\ call' = [call EXCEPT ![k] = [r EXCEPT !.retried = TRUE, !.child = born + 1]]
          /\ UNCHANGED ahead
       \/ children' = dead /\ Return(k) /\ UNCHANGED born
    /\ UNCHANGED <<active, restarts, gauge, closing, history>>

\* Mutant of StartupFails: a child that hangs while it starts is not killed.
StartupFailsWithoutKill(k) ==
    LET c == call[k].chat IN
    /\ call[k].pc = "starting"
    /\ restarts' = [restarts EXCEPT ![c] = @ + 1]
    /\ Return(k)
    /\ UNCHANGED <<active, children, born, store, gauge, closing, history>>

\* The child exits or hangs while it starts: it is killed, the failure counts as a
\* crash and the call throws.
StartupFails(k) ==
    LET c == call[k].chat IN
    /\ call[k].pc = "starting"
    /\ KnownToPi(children[call[k].child].conv)
    /\ \/ children' = [children EXCEPT ![call[k].child].killed = TRUE]
       \/ children' = [children EXCEPT ![call[k].child] = Dead(c, FALSE)]
    /\ restarts' = [restarts EXCEPT ![c] = @ + 1]
    /\ Return(k)
    /\ UNCHANGED <<active, born, store, gauge, closing, history>>

----------------------------------------------------------------------------
(* The turn.                                                               *)

\* The session's PQueue starts the task and the prompt is written to the child.
StartTurn(k) ==
    LET r == call[k] IN
    /\ r.pc = "queued"
    /\ ahead[k] = {}
    /\ Usable(r.child)
    /\ store' = [store EXCEPT ![r.chat] = children[r.child].id]
    /\ call' = [call EXCEPT ![k].pc = "running"]
    /\ UNCHANGED <<ahead, active, children, born, restarts, gauge, closing, history>>

\* The child was terminated while the task waited: writing the prompt throws.
PromptFails(k) ==
    /\ call[k].pc = "queued"
    /\ ahead[k] = {}
    /\ ~Usable(call[k].child)
    /\ Return(k)
    /\ UNCHANGED <<active, children, born, store, restarts, gauge, closing, history>>

\* Pi answers with a result.
GetResult(k) ==
    /\ call[k].pc = "running"
    /\ restarts' = [restarts EXCEPT ![call[k].chat] = 0]
    /\ Return(k)
    /\ UNCHANGED <<active, children, born, store, gauge, closing, history>>

\* Mutant of StreamEnds: only the turn of a session that is still in the map ends.
StreamEndsIfInMap(k) ==
    /\ call[k].pc = "running"
    /\ Exited(call[k].child)
    /\ active[call[k].chat] = call[k].child
    /\ Return(k)
    /\ UNCHANGED <<active, children, born, store, restarts, gauge, closing, history>>

\* The stream ends without one.
StreamEnds(k) ==
    /\ call[k].pc = "running"
    /\ Exited(call[k].child)
    /\ Return(k)
    /\ UNCHANGED <<active, children, born, store, restarts, gauge, closing, history>>

\* Nothing came for RESPONSE_ACTIVITY_TIMEOUT_MS: SIGTERM, later SIGKILL.
ActivityTimeout(k) ==
    /\ call[k].pc = "running"
    /\ Usable(call[k].child)
    /\ children' = [children EXCEPT ![call[k].child].killed = TRUE]
    /\ UNCHANGED <<ahead, active, born, call, store, restarts, gauge, closing, history>>

\* Mutant of ChildExits: crash recovery forgets the idle timer.
ChildExitsTimerLeft(p) ==
    LET c == children[p].chat IN
    /\ children[p].state = "live"
    /\ ~\E k \in Calls : call[k].pc = "starting" /\ call[k].child = p
    /\ children' = [children EXCEPT ![p] = Dead(c, @.timer)]
    /\ IF active[c] = p
       THEN /\ active' = Without({c})
            /\ gauge' = gauge - 1
            /\ \E crash \in {0, 1} : restarts' = [restarts EXCEPT ![c] = @ + crash]
       ELSE UNCHANGED <<active, gauge, restarts>>
    /\ UNCHANGED <<ahead, born, call, store, closing, history>>

\* An installed child, or one given up while it started, exits: crash recovery
\* removes its own session from the map and counts an abnormal exit.
ChildExits(p) ==
    LET c == children[p].chat IN
    /\ children[p].state = "live"
    /\ ~\E k \in Calls : call[k].pc = "starting" /\ call[k].child = p
    /\ IF active[c] = p
       THEN /\ children' = [children EXCEPT ![p] = Dead(c, FALSE)]
            /\ active' = Without({c})
            /\ gauge' = gauge - 1
            /\ \E crash \in {0, 1} : restarts' = [restarts EXCEPT ![c] = @ + crash]
       ELSE /\ children' = [children EXCEPT ![p] = Dead(c, @.timer)]
            /\ UNCHANGED <<active, gauge, restarts>>
    /\ UNCHANGED <<ahead, born, call, store, closing, history>>

----------------------------------------------------------------------------

Next ==
    \/ \E c \in Chats : Reconnect(c) \/ Clean(c)
    \/ \E p \in Children : IdleTimerFires(p) \/ ChildExits(p)
    \/ CloseAll
    \/ \E k \in Calls : \/ \E c \in Chats : Reuse(k, c) \/ Create(k, c) \/ ConfigFails(k, c)
                        \/ Resolve(k) \/ BackoffEnds(k)
                        \/ Install(k) \/ ResumeNotFound(k) \/ StartupFails(k)
                        \/ StartTurn(k) \/ PromptFails(k)
                        \/ GetResult(k) \/ StreamEnds(k) \/ ActivityTimeout(k)

Spec == Init /\ [][Next]_vars

\* Awaited exits, backoffs, start-ups and queued tasks come to an end by timers of
\* the code; a turn ends or falls silent until the activity timeout; a child that
\* was signalled exits, at the latest by the SIGKILL that follows.  Pi owes no
\* result, and nobody is obliged to write, to clear or to stop the bot.
Fairness ==
    /\ \A k \in Calls : /\ WF_vars(Resolve(k))
                        /\ WF_vars(BackoffEnds(k))
                        /\ WF_vars(Install(k) \/ ResumeNotFound(k) \/ StartupFails(k))
                        /\ WF_vars(StartTurn(k) \/ PromptFails(k))
                        /\ WF_vars(ActivityTimeout(k))
                        /\ WF_vars(StreamEnds(k))
    /\ \A p \in Children : WF_vars(children[p].state = "live" /\ children[p].killed /\ ChildExits(p))

FairSpec == Spec /\ Fairness

----------------------------------------------------------------------------
(* Properties.                                                             *)

TypeOK ==
    /\ active \in [Chats -> Children \cup {None}]
    /\ children \in [Children -> LiveChildren \cup DeadChildren \cup {Unborn}]
    /\ born \in 0 .. MaxChildren
    /\ call \in [Calls -> CallRecords \cup {NoCall}]
    /\ ahead \in [Calls -> SUBSET Calls]
    /\ store \in [Chats -> Ids \cup {None}]
    /\ restarts \in [Chats -> Nat]
    /\ gauge \in Nat
    /\ closing \in BOOLEAN
    /\ overwritten \subseteq Children
    /\ disturbed \subseteq Chats
    /\ forgotten \in [Chats -> 0 .. MaxChildren]

\* A session in the map has a process that has not exited and an idle timer that
\* will close it; no call can pick up the session of a dead process.
ActiveIsAlive ==
    \A c \in Sessions :
        /\ children[active[c]].chat = c
        /\ ~Exited(active[c])
        /\ children[active[c]].timer
        /\ \A k \in Calls : call[k].pc = "starting" => call[k].child # active[c]

\* Sessions and idle timers come in pairs: every session in the map is alive and has
\* one, and as a timer closes whatever session its chat has when it fires, it is
\* armed only for the session the chat has then: whichever way a session ends, closed,
\* evicted, crashed, replaced while dying, its timer ends with it, and none is
\* left to close a successor.  Only a session overwritten in the map by a second
\* spawn of its chat leaves its timer armed (closeSession, setupCrashRecovery).
TimersHaveTheirSession ==
    /\ ActiveIsAlive
    /\ \A p \in Children : children[p] # Unborn /\ children[p].timer =>
            active[children[p].chat] = p \/ p \in overwritten

\* No process is left running unattended: one that has not been signalled is in
\* the map, or it is being started by exactly one call, or its session was
\* overwritten in the map by a second spawn of its chat.
LiveChildrenAreOwned ==
    \A p \in Children :
        children[p].state = "live" /\ ~children[p].killed =>
            \/ active[children[p].chat] = p
            \/ p \in overwritten
            \/ \E k \in Calls : /\ call[k].pc = "starting" /\ call[k].child = p
                               /\ \A j \in Calls \ {k} : call[j].pc = "starting" => call[j].child # p

\* The gauge counts the sessions in the map and, for ever, those overwritten there.
GaugeCountsSessions == gauge = Cardinality(Sessions) + Cardinality(overwritten)

\* Concurrent spawns pass evictIfNeeded together and exceed the limit, but the
\* excess never grows beyond one session for each other call in progress.
SessionsStayBounded ==
    Cardinality(Sessions) + Cardinality({k \in Calls : Spawning(k)})
        <= MaxSessions - 1 + Cardinality(Calls)

\* Two processes never write to one Pi conversation, unless the older one has
\* been told to stop, or the chat was cleared while it was spawning.
OneWriterPerConversation ==
    \A p, q \in Children :
        /\ p # q
        /\ children[p].state = "live" /\ ~children[p].killed
        /\ children[q].state = "live" /\ ~children[q].killed
        /\ children[p].conv = children[q].conv
        => children[p].chat \in disturbed

\* The store names the conversation of the session in memory: a crash or a restart
\* at any time resumes that one.
StoreIsCurrent ==
    \A c \in Sessions \ disturbed : store[c] = children[active[c]].id

\* After /clean no conversation from before it is in memory, in the store, or
\* about to be resumed.
CleanForgets ==
    \A c \in Chats \ disturbed :
        /\ store[c] # None => FirstChild(store[c]) > forgotten[c]
        /\ c \in Sessions => children[active[c]].conv > forgotten[c]
        /\ \A k \in CallsOf(c) :
              call[k].pc \in {"backoff", "starting"} /\ call[k].resume
              => FirstChild(call[k].id) > forgotten[c]

\* Every call ends: the message queue is never stuck on a turn.
CallsEnd == \A k \in Calls : call[k] # NoCall ~> (call[k] = NoCall \/ closing)

\* metrics.ts:117: the gauge is the "Number of currently active sessions".
GaugeIsActiveCount == gauge = Cardinality(Sessions)

\* session-manager.ts:789: after destroySession the "Next message will start a
\* completely fresh session (no --resume)": a call made after /clean never runs in
\* a process that has resumed a conversation from before it.
CleanStartsFresh ==
    \A k \in Calls : call[k].pc = "running" /\ ~call[k].cleared /\ ~Exited(call[k].child) =>
        LET p == call[k].child IN
        children[p].conv = p \/ children[p].conv > forgotten[call[k].chat]
=============================================================================
