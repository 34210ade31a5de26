------------------------------ MODULE MediaStore ------------------------------
(***************************************************************************)
(* bot/src/media-store.ts with those who use it: the media handlers of     *)
(* telegram-bot.ts, which download a file and enqueue its path, the turns  *)
(* of the message queue, which carry it to the agent, and the sessions of  *)
(* session-manager.ts, which own it from then on.                          *)
(*                                                                         *)
(* A step runs from one await to the next.  Of the message queue only what *)
(* MessageLifecycle promises is kept: a message waits, one turn takes it,  *)
(* and in the end its cleanup or its drop cleanup runs.  Of a session only *)
(* whether the chat has one in memory and one to resume in the store.      *)
(***************************************************************************)
EXTENDS Naturals, FiniteSets

CONSTANTS
    Chats,      \* chat ids
    MaxFiles,   \* bound: media files that are ever downloaded
    Turns,      \* bound: turns that are under way at one time
    Cap         \* sessionDefaults.maxMediaBytes, in files

ASSUME MediaAssumption == MaxFiles \in Nat /\ Cap \in Nat /\ IsFiniteSet(Chats)

\* Files are numbered in the order of their downloads, which is that of their
\* modification times.
Files == 1 .. MaxFiles

VARIABLES
    stage,      \* how far each file and its message have come
    home,       \* the chat of each file
    disk,       \* the files that exist
    dirs,       \* the chats whose media directory exists
    inflight,   \* inflightMediaPaths
    turn,       \* the turns under way, with the locals of their spawns
    active,     \* the chats with a session in memory
    stored,     \* the chats with a session in the session store
    cleaning,   \* the chats whose /clean awaits the exit of their subprocess
    wiped,      \* history: files that were in flight when their directory was wiped
    disturbed   \* history: chats cleared while a spawn of theirs was suspended

history == <<wiped, disturbed>>

vars == <<stage, home, disk, dirs, inflight, turn, active, stored, cleaning, history>>

Pending == {"downloading", "written", "waiting", "handed"}

Stages == {"new", "kept", "reclaimed", "lost"} \cup Pending

\* cleared: clear has detached the turn.  The pcs up to "resume" are those of a
\* call that is in getOrCreateSession; "owned" means onAgentOwnership was called.
TurnRecords == [pc : {"evicting", "fresh", "resume", "queued", "running",
                      "owned", "failed"},
                chat : Chats, cleared : BOOLEAN, batch : SUBSET Files]

NoTurn == [pc |-> "none"]

Init ==
    /\ stage = [f \in Files |-> "new"]
    /\ home \in [Files -> Chats]
    /\ disk = {}
    /\ dirs = {}
    /\ inflight = {}
    /\ turn = [t \in Turns |-> NoTurn]
    /\ active = {}
    /\ stored = {}
    /\ cleaning = {}
    /\ wiped = {}
    /\ disturbed = {}

----------------------------------------------------------------------------

FilesOf(c) == {f \in Files : home[f] = c}

Waiting(c) == {f \in FilesOf(c) : stage[f] = "waiting"}

\* The call is suspended in getOrCreateSession.
Spawning == {"evicting", "fresh", "resume"}

TurnsOf(c) == {t \in Turns : turn[t] # NoTurn /\ turn[t].chat = c}

Staged(F, s) == stage' = [f \in Files |-> IF f \in F THEN s ELSE stage[f]]

\* cleanupSessionMediaDir for the chats of C, after the files of F have been
\* discarded (discardMediaPath).
WipeAndDiscard(C, F) ==
    /\ disk' = {f \in disk \ F : home[f] \notin C}
    /\ dirs' = dirs \ C
    /\ inflight' = inflight \ F
    /\ wiped' = wiped \cup {f \in inflight \ F : home[f] \in C}

Wipe(C) == WipeAndDiscard(C, {})

\* discardMediaPath for the files of F.
Discard(F) == WipeAndDiscard({}, F)

\* What cleanupStaleSessionMedia deletes.
Stale(c) == {f \in disk \ inflight : home[f] = c}

\* Mutant of Evicted: the oldest files, in flight or not.
EvictedAny ==
    {f \in disk : Cardinality({g \in disk : g < f}) + Cap < Cardinality(disk)}

\* What enforceMediaCap deletes: of the files not in flight, the oldest, until
\* the files that are left are within the cap.
Evicted ==
    LET candidates == disk \ inflight IN
    {f \in candidates : Cardinality({g \in candidates : g < f}) + Cap < Cardinality(disk)}

----------------------------------------------------------------------------
(* The media handlers.                                                     *)

\* grammY hands over an update when the handlers of the one before it are through:
\* no other download, and no /clean, is under way.
HandlerIsFree ==
    /\ \A f \in Files : stage[f] \notin {"downloading", "written"}
    /\ cleaning = {}

\* allocateMediaPath, once getFile has answered; the download begins.
AllocateMediaPath(f) ==
    /\ HandlerIsFree
    /\ stage[f] = "new"
    /\ \A g \in Files : g < f => stage[g] # "new"
    /\ Staged({f}, "downloading")
    /\ inflight' = inflight \cup {f}
    /\ dirs' = dirs \cup {home[f]}
    /\ UNCHANGED <<home, disk, turn, active, stored, cleaning, history>>

\* downloadFile writes the file, if its directory is still there.
WriteFile(f) ==
    /\ stage[f] = "downloading"
    /\ home[f] \in dirs
    /\ Staged({f}, "written")
    /\ disk' = disk \cup {f}
    /\ UNCHANGED <<home, dirs, inflight, turn, active, stored, cleaning, history>>

\* Mutant of DownloadFails: the path is not discarded.
DownloadFailsUntracked(f) ==
    /\ stage[f] = "downloading"
    /\ Staged({f}, "reclaimed")
    /\ UNCHANGED <<home, disk, dirs, inflight, turn, active, stored, cleaning, history>>

DownloadFails(f) ==
    /\ stage[f] = "downloading"
    /\ Staged({f}, "reclaimed")
    /\ Discard({f})
    /\ UNCHANGED <<home, turn, active, stored, cleaning, disturbed>>

\* The download is over: enforceMediaCap, and enqueue takes the message or, its
\* buffer being full, drops it.
Enqueue(f) ==
    /\ stage[f] = "written"
    /\ \/ /\ Staged({f}, "waiting")
          /\ disk' = disk \ Evicted
          /\ UNCHANGED <<dirs, inflight, wiped>>
       \/ /\ Staged({f}, "reclaimed")
          /\ Discard(Evicted \cup {f})
    /\ UNCHANGED <<home, turn, active, stored, cleaning, disturbed>>

----------------------------------------------------------------------------
(* Turns: flush or the drain loop, sendSessionMessage, the cleanups.       *)

\* All that waits in the chat is handed to turn t.
TakeBatch(t, c, pc) ==
    /\ turn[t] = NoTurn
    /\ \A u \in TurnsOf(c) : turn[u].cleared
    /\ Staged(Waiting(c), "handed")
    /\ turn' = [turn EXCEPT ![t] =
          [pc |-> pc, chat |-> c, cleared |-> FALSE, batch |-> Waiting(c)]]

\* The session in memory is reused.
Reuse(t, c) ==
    /\ c \in active
    /\ TakeBatch(t, c, "queued")
    /\ UNCHANGED <<home, disk, dirs, inflight, active, stored, cleaning, history>>

\* There is none, or its subprocess is dying, and its entry is dropped with no
\* clean-up.  At the session limit another session (V) is closed.
Spawn(t, c) ==
    /\ TakeBatch(t, c, "evicting")
    /\ \E V \in {{}} \cup {{v} : v \in active \ {c}} :
        /\ active' = active \ (V \cup {c})
        /\ stored' = stored \cup V
        /\ Wipe(V)
    /\ UNCHANGED <<home, cleaning, disturbed>>

\* The configuration does not load or has lost the agent.
ConfigFails(t, c) ==
    /\ TakeBatch(t, c, "failed")
    /\ active' = active \ {c}
    /\ UNCHANGED <<home, disk, dirs, inflight, stored, cleaning, history>>

\* resolveStoredSession, which discards the session of another or a deleted agent;
\* then the circuit breaker or an invalid workspace stops the call, or (after the
\* backoff) the media directory is made and a subprocess starts.
Resolve(t) ==
    LET c == turn[t].chat IN
    /\ turn[t].pc = "evicting"
    /\ \E pc \in {"fresh", "resume"} :
        /\ pc = "resume" => c \in stored
        /\ stored' = IF pc = "fresh" THEN stored \ {c} ELSE stored
        /\ disk' = IF pc = "fresh" /\ c \in stored THEN disk \ Stale(c) ELSE disk
        /\ \/ turn' = [turn EXCEPT ![t].pc = pc] /\ dirs' = dirs \cup {c}
           \/ turn' = [turn EXCEPT ![t].pc = "failed"] /\ UNCHANGED dirs
    /\ UNCHANGED <<stage, home, inflight, active, cleaning, history>>

\* The subprocess has started: the session is put in memory and in the store.
Install(t) ==
    /\ turn[t].pc \in {"fresh", "resume"}
    /\ turn' = [turn EXCEPT ![t].pc = "queued"]
    /\ active' = active \cup {turn[t].chat}
    /\ stored' = stored \cup {turn[t].chat}
    /\ UNCHANGED <<stage, home, disk, dirs, inflight, cleaning, history>>

\* discardUnresumablePiSession
ResumeNotFound(t) ==
    LET c == turn[t].chat IN
    /\ turn[t].pc = "resume"
    /\ \E pc \in {"fresh", "failed"} : turn' = [turn EXCEPT ![t].pc = pc]
    /\ stored' = stored \ {c}
    /\ disk' = disk \ Stale(c)
    /\ UNCHANGED <<stage, home, dirs, inflight, active, cleaning, history>>

\* The subprocess does not start: a fresh start wipes the directory, a resume
\* leaves it for the next one.
StartFails(t) ==
    /\ turn[t].pc \in {"fresh", "resume"}
    /\ turn' = [turn EXCEPT ![t].pc = "failed"]
    /\ Wipe(IF turn[t].pc = "fresh" THEN {turn[t].chat} ELSE {})
    /\ UNCHANGED <<stage, home, active, stored, cleaning, disturbed>>

\* The session's queue starts the task: the prompt is written and the session
\* stored, or its subprocess is gone and the call throws.
StartTurn(t) ==
    /\ turn[t].pc = "queued"
    /\ \/ /\ turn' = [turn EXCEPT ![t].pc = "running"]
          /\ stored' = stored \cup {turn[t].chat}
       \/ /\ turn' = [turn EXCEPT ![t].pc = "failed"]
          /\ UNCHANGED stored
    /\ UNCHANGED <<stage, home, disk, dirs, inflight, active, cleaning, history>>

\* onAgentOwnership, which is ignored once the turn is detached.
TransferOwnership(t) ==
    /\ turn[t].pc = "running"
    /\ ~turn[t].cleared
    /\ turn' = [turn EXCEPT ![t].pc = "owned"]
    /\ UNCHANGED <<stage, home, disk, dirs, inflight, active, stored, cleaning, history>>

\* The turn ends, in success or not: releaseMediaPath for a batch the agent owns,
\* discardMediaPath for any other.
EndTurn(t) ==
    LET S == turn[t].batch IN
    /\ turn[t].pc \in {"running", "owned", "failed"}
    /\ turn' = [turn EXCEPT ![t] = NoTurn]
    /\ IF turn[t].pc = "owned"
       THEN /\ Staged(S, "kept")
            /\ inflight' = inflight \ S
            /\ UNCHANGED <<disk, dirs, wiped>>
       ELSE Staged(S, "reclaimed") /\ Discard(S)
    /\ UNCHANGED <<home, active, stored, cleaning, disturbed>>

----------------------------------------------------------------------------
(* Closes.                                                                 *)

\* closeSession by the idle timer.  touchActivity has armed it when a download
\* began, and downloading and debouncing are over sooner than that; but the timer
\* is not armed again while a turn runs, however long.
IdleTimerFires(c) ==
    /\ c \in active
    /\ \/ \A f \in FilesOf(c) : stage[f] \notin Pending
       \/ \E t \in TurnsOf(c) : turn[t].pc \in {"running", "owned"}
    /\ \A f \in FilesOf(c) : stage[f] \notin {"downloading", "written"}
    /\ active' = active \ {c}
    /\ stored' = stored \cup {c}
    /\ Wipe({c})
    /\ UNCHANGED <<stage, home, turn, cleaning, disturbed>>

\* Crash recovery.
ChildExits(c) ==
    /\ c \in active
    /\ active' = active \ {c}
    /\ Wipe({c})
    /\ UNCHANGED <<stage, home, turn, stored, cleaning, disturbed>>

\* messageQueue.clear(c): waiting messages are dropped, turns detached.
ClearQueue(c) ==
    /\ Staged(Waiting(c), "reclaimed")
    /\ turn' = [t \in Turns |-> IF t \in TurnsOf(c) THEN [turn[t] EXCEPT !.cleared = TRUE]
                                                    ELSE turn[t]]
    /\ disturbed' = IF \E t \in TurnsOf(c) : turn[t].pc \in Spawning THEN disturbed \cup {c}
                                                                   ELSE disturbed

\* /reconnect; clearAll and closeAll at shutdown do the same for every chat, and
\* they do it beside a handler that is still under way.
Reconnect(c) ==
    /\ ClearQueue(c)
    /\ active' = active \ {c}
    /\ stored' = stored \cup ({c} \cap active)
    /\ WipeAndDiscard({c} \cap active, Waiting(c))
    /\ UNCHANGED <<home, cleaning>>

\* /clean: destroySession wipes the directory when it closes a session, and again
\* after its subprocess has exited; with no session, at once.
Clean(c) ==
    /\ HandlerIsFree
    /\ ClearQueue(c)
    /\ active' = active \ {c}
    /\ stored' = stored \ {c}
    /\ WipeAndDiscard({c}, Waiting(c))
    /\ cleaning' = cleaning \cup ({c} \cap active)
    /\ UNCHANGED <<home>>

CleanEnds(c) ==
    /\ c \in cleaning
    /\ cleaning' = cleaning \ {c}
    /\ Wipe({c})
    /\ UNCHANGED <<stage, home, turn, active, stored, disturbed>>

\* The process ends, at any moment, and starts again: what is in memory is lost,
\* the files and the session store are not.
Restart ==
    /\ Staged({f \in Files : stage[f] \in Pending \cup {"kept"}}, "lost")
    /\ inflight' = {}
    /\ turn' = [t \in Turns |-> NoTurn]
    /\ active' = {}
    /\ cleaning' = {}
    /\ disturbed' = {}
    /\ UNCHANGED <<home, disk, dirs, stored, wiped>>

----------------------------------------------------------------------------

Next ==
    \/ \E f \in Files : AllocateMediaPath(f) \/ WriteFile(f) \/ DownloadFails(f) \/ Enqueue(f)
    \/ \E t \in Turns :
        \/ \E c \in Chats : Reuse(t, c) \/ Spawn(t, c) \/ ConfigFails(t, c)
        \/ Resolve(t) \/ Install(t) \/ ResumeNotFound(t) \/ StartFails(t)
        \/ StartTurn(t) \/ TransferOwnership(t) \/ EndTurn(t)
    \/ \E c \in Chats : \/ IdleTimerFires(c) \/ ChildExits(c)
                        \/ Reconnect(c) \/ Clean(c) \/ CleanEnds(c)
    \/ Restart

Spec == Init /\ [][Next]_vars

----------------------------------------------------------------------------
(* Properties.                                                             *)

TypeOK ==
    /\ stage \in [Files -> Stages]
    /\ home \in [Files -> Chats]
    /\ disk \subseteq Files
    /\ dirs \subseteq Chats
    /\ \A f \in disk : home[f] \in dirs
    /\ inflight \subseteq Files
    /\ turn \in [Turns -> TurnRecords \cup {NoTurn}]
    /\ active \subseteq Chats
    /\ stored \subseteq Chats
    /\ cleaning \subseteq Chats
    /\ wiped \subseteq Files
    /\ disturbed \subseteq Chats

\* A path is tracked as in flight from its allocation until the turn that took its
\* message is over or its message is dropped: no handler, turn or clear forgets it.
TrackedUntilSettled == inflight = {f \in Files : stage[f] \in Pending}

\* A file whose message may still reach the agent exists, whatever eviction and
\* rotation went on meanwhile, unless its directory was wiped as a whole.
PendingFilesExist ==
    \A f \in Files \ wiped : stage[f] \in {"written", "waiting", "handed"} => f \in disk

\* No file leaks: one that exists is on its way to an agent, or belongs to a
\* session in memory or to resume, whose end will delete it, or is a leftover of
\* an earlier process.  (In a chat that was cleared while it spawned, two spawns
\* overlap and the older one may discard the session of the newer.)
FilesHaveOwners ==
    \A f \in disk :
        \/ stage[f] \in Pending
        \/ stage[f] = "kept" /\ home[f] \in active \cup stored \cup disturbed
        \/ stage[f] = "lost"

\* session-manager.ts:862: an agent that begins a session of its own finds no file
\* an earlier agent of the chat was given.
FreshSessionsFindNoMedia ==
    \A t \in Turns : turn[t].pc = "fresh" /\ turn[t].chat \notin disturbed =>
        \A f \in disk \cap FilesOf(turn[t].chat) : stage[f] # "kept"

=============================================================================
