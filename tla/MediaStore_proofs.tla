-------------------------- MODULE MediaStore_proofs --------------------------
(***************************************************************************)
(* Theorems about MediaStore: for every number of chats, files and turns   *)
(* and every cap, the invariants the runs check.                           *)
(***************************************************************************)
EXTENDS MediaStore, TLAPS

----------------------------------------------------------------------------
(* The inductive invariant.                                                *)

\* The pcs of a turn that has a session.
Carrying == {"queued", "running", "owned"}

\* The files of a turn are its chat's, they are handed over, and no other turn
\* has them.
Batches ==
    \A t \in Turns : turn[t] # NoTurn =>
        \A f \in turn[t].batch :
            /\ stage[f] = "handed"
            /\ home[f] = turn[t].chat
            /\ \A u \in Turns : u # t /\ turn[u] # NoTurn => f \notin turn[u].batch

\* Of the turns of a chat at most one is open, the others have been detached.
OneOpenTurn ==
    \A t, u \in Turns :
        t # u /\ turn[t] # NoTurn /\ turn[u] # NoTurn /\ turn[t].chat = turn[u].chat =>
            turn[t].cleared \/ turn[u].cleared

\* A session in memory can be resumed, and a turn that spawns has none.  A turn
\* that was cleared while it spawned has disturbed its chat.
Spawns ==
    /\ active \subseteq stored \cup disturbed
    /\ \A t \in Turns : turn[t].pc \in Spawning /\ turn[t].chat \notin disturbed =>
          turn[t].chat \notin active /\ ~turn[t].cleared

\* Where the files of a turn exist, its session does, and it was not cleared.
Carriers ==
    \A t \in Turns : turn[t].pc \in Carrying /\ turn[t].chat \notin disturbed =>
        \A f \in turn[t].batch \cap disk : turn[t].chat \in active /\ ~turn[t].cleared

Inv ==
    /\ TypeOK
    /\ TrackedUntilSettled
    /\ PendingFilesExist
    /\ Batches
    /\ OneOpenTurn
    /\ Spawns
    /\ Carriers
    /\ FilesHaveOwners
    /\ FreshSessionsFindNoMedia

----------------------------------------------------------------------------
(* Preliminaries.                                                          *)

\* A turn that is under way is a record, and only such a turn has a pc of one.
LEMMA TurnTypes ==
  ASSUME TypeOK, NEW t \in Turns
  PROVE  /\ turn[t] = NoTurn => turn[t].pc = "none"
         /\ turn[t] # NoTurn => /\ turn[t] \in TurnRecords
                                /\ turn[t].pc # "none"
                                /\ turn[t].chat \in Chats
                                /\ turn[t].batch \in SUBSET Files
                                /\ turn[t].cleared \in BOOLEAN
  BY DEF TypeOK, TurnRecords, NoTurn

\* The pcs of a turn that is under way.
Pcs == {"evicting", "fresh", "resume", "queued", "running", "owned", "failed"}

\* A record with another pc is a record.
LEMMA RecordPc ==
  ASSUME NEW r \in TurnRecords, NEW pc \in Pcs
  PROVE  /\ [r EXCEPT !.pc = pc] \in TurnRecords
         /\ [r EXCEPT !.pc = pc].pc = pc
         /\ [r EXCEPT !.pc = pc].chat = r.chat
         /\ [r EXCEPT !.pc = pc].batch = r.batch
         /\ [r EXCEPT !.pc = pc].cleared = r.cleared
  BY DEF TurnRecords, Pcs

\* A record of a cleared turn is a record.
LEMMA RecordCleared ==
  ASSUME NEW r \in TurnRecords
  PROVE  /\ [r EXCEPT !.cleared = TRUE] \in TurnRecords
         /\ [r EXCEPT !.cleared = TRUE].pc = r.pc
         /\ [r EXCEPT !.cleared = TRUE].chat = r.chat
         /\ [r EXCEPT !.cleared = TRUE].batch = r.batch
         /\ [r EXCEPT !.cleared = TRUE].cleared = TRUE
  BY DEF TurnRecords

\* A record is not NoTurn.
LEMMA RecordsAreNotNone ==
  ASSUME NEW r \in TurnRecords
  PROVE  r # NoTurn
  BY DEF TurnRecords, NoTurn

\* Moving a turn to another pc changes nothing else of it.
LEMMA SetPc ==
  ASSUME TypeOK, NEW t \in Turns, turn[t] # NoTurn, NEW pc \in Pcs,
         turn' = [turn EXCEPT ![t].pc = pc]
  PROVE  /\ turn' \in [Turns -> TurnRecords \cup {NoTurn}]
         /\ turn'[t] # NoTurn
         /\ turn'[t].pc = pc
         /\ turn'[t].chat = turn[t].chat
         /\ turn'[t].batch = turn[t].batch
         /\ turn'[t].cleared = turn[t].cleared
         /\ \A u \in Turns \ {t} : turn'[u] = turn[u]
  <1> DEFINE new == [turn[t] EXCEPT !.pc = pc]
  <1>1. turn[t] \in TurnRecords BY DEF TypeOK
  <1>2. /\ new \in TurnRecords
        /\ new.pc = pc
        /\ new.chat = turn[t].chat
        /\ new.batch = turn[t].batch
        /\ new.cleared = turn[t].cleared
    BY <1>1, RecordPc
  <1>3. turn' = [turn EXCEPT ![t] = new] OBVIOUS
  <1> HIDE DEF new
  <1>4. turn'[t] = new BY <1>3 DEF TypeOK
  <1>5. \A u \in Turns \ {t} : turn'[u] = turn[u] BY <1>3 DEF TypeOK
  <1>6. turn' \in [Turns -> TurnRecords \cup {NoTurn}] BY <1>2, <1>3 DEF TypeOK
  <1>7. turn'[t] # NoTurn BY <1>2, <1>4, RecordsAreNotNone
  <1> QED BY <1>2, <1>4, <1>5, <1>6, <1>7

----------------------------------------------------------------------------
(* Every action preserves the invariant.                                   *)

\* The media handlers: a file is downloaded, written, given up or enqueued.
LEMMA HandlerStep ==
  ASSUME Inv, NEW f \in Files,
         AllocateMediaPath(f) \/ WriteFile(f) \/ DownloadFails(f) \/ Enqueue(f)
  PROVE  Inv'
  <1> USE DEF Staged, Pending, Stages, history, AllocateMediaPath, WriteFile, DownloadFails,
             Enqueue, Discard, WipeAndDiscard, Evicted
  <1>a. TypeOK' BY DEF Inv, TypeOK
  <1>b. TrackedUntilSettled' BY DEF Inv, TypeOK, TrackedUntilSettled
  <1>c. PendingFilesExist' BY DEF Inv, TypeOK, TrackedUntilSettled, PendingFilesExist
  <1>d. Batches' BY TurnTypes DEF Inv, TypeOK, Batches
  <1>e. OneOpenTurn' BY DEF Inv, OneOpenTurn
  <1>f. Spawns' BY DEF Inv, Spawns
  <1>g. Carriers'
    <2>1. disk' \subseteq disk \cup {f} /\ stage[f] # "handed" /\ UNCHANGED <<turn, active, disturbed>>
      OBVIOUS
    <2>2. \A t \in Turns : turn[t] # NoTurn => f \notin turn[t].batch BY <2>1 DEF Inv, Batches
    <2>3. \A t \in Turns : turn[t].pc \in Carrying => turn[t] # NoTurn
      BY TurnTypes DEF Inv, Carrying
    <2> QED BY <2>1, <2>2, <2>3 DEF Inv, Carriers
  <1>h. FilesHaveOwners' BY DEF Inv, TypeOK, FilesHaveOwners
  <1>i. FreshSessionsFindNoMedia'
    BY TurnTypes DEF Inv, TypeOK, FreshSessionsFindNoMedia, FilesOf
  <1> QED BY <1>a, <1>b, <1>c, <1>d, <1>e, <1>f, <1>g, <1>h, <1>i DEF Inv

\* What handing the waiting messages of a chat to a turn comes to.
LEMMA TakeBatchFacts ==
  ASSUME TypeOK, NEW t \in Turns, NEW c \in Chats, NEW pc \in Pcs, TakeBatch(t, c, pc)
  PROVE  /\ stage' \in [Files -> Stages]
         /\ \A f \in Files : stage'[f] = IF f \in Waiting(c) THEN "handed" ELSE stage[f]
         /\ turn' \in [Turns -> TurnRecords \cup {NoTurn}]
         /\ turn[t] = NoTurn
         /\ turn'[t] # NoTurn
         /\ turn'[t].pc = pc
         /\ turn'[t].chat = c
         /\ turn'[t].batch = Waiting(c)
         /\ turn'[t].cleared = FALSE
         /\ \A u \in Turns \ {t} : turn'[u] = turn[u]
         /\ \A u \in Turns : turn[u] # NoTurn /\ turn[u].chat = c => turn[u].cleared
  <1> DEFINE new == [pc |-> pc, chat |-> c, cleared |-> FALSE, batch |-> Waiting(c)]
  <1>1. Waiting(c) \subseteq Files BY DEF Waiting, FilesOf
  <1>2. new \in TurnRecords BY <1>1 DEF TurnRecords, Pcs
  <1>3. new.pc = pc /\ new.chat = c /\ new.batch = Waiting(c) /\ new.cleared = FALSE OBVIOUS
  <1>4. turn[t] = NoTurn /\ turn' = [turn EXCEPT ![t] = new] BY DEF TakeBatch
  <1> HIDE DEF new
  <1>5. turn'[t] = new /\ \A u \in Turns \ {t} : turn'[u] = turn[u] BY <1>4 DEF TypeOK
  <1>6. turn' \in [Turns -> TurnRecords \cup {NoTurn}] BY <1>2, <1>4 DEF TypeOK
  <1>7. turn'[t] # NoTurn BY <1>2, <1>5, RecordsAreNotNone
  <1>8. \A u \in Turns : turn[u] # NoTurn /\ turn[u].chat = c => turn[u].cleared
    BY DEF TakeBatch, TurnsOf
  <1>9. /\ stage' \in [Files -> Stages]
        /\ \A f \in Files : stage'[f] = IF f \in Waiting(c) THEN "handed" ELSE stage[f]
    BY DEF TakeBatch, Staged, TypeOK, Stages, Pending
  <1> QED BY <1>3, <1>4, <1>5, <1>6, <1>7, <1>8, <1>9

\* Reuse, Spawn and ConfigFails: V are the sessions closed to make room.
LEMMA TakeBatchStep ==
  ASSUME Inv, NEW t \in Turns, NEW c \in Chats, NEW pc \in {"queued", "evicting", "failed"},
         TakeBatch(t, c, pc),
         NEW V \in SUBSET (active \ {c}),
         active' = active \/ active' = active \ (V \cup {c}),
         active' = active => V = {},
         pc = "queued" => c \in active',
         pc = "evicting" => c \notin active',
         stored' = stored \cup V,
         Wipe(V),
         UNCHANGED <<home, cleaning, disturbed>>
  PROVE  Inv'
  <1> USE DEF Wipe, WipeAndDiscard
  <1>1. TypeOK BY DEF Inv
  <1>2. pc \in Pcs BY DEF Pcs
  <1>3. /\ stage' \in [Files -> Stages]
        /\ \A f \in Files : stage'[f] = IF f \in Waiting(c) THEN "handed" ELSE stage[f]
        /\ turn' \in [Turns -> TurnRecords \cup {NoTurn}]
        /\ turn[t] = NoTurn
        /\ turn'[t] # NoTurn
        /\ turn'[t].pc = pc
        /\ turn'[t].chat = c
        /\ turn'[t].batch = Waiting(c)
        /\ turn'[t].cleared = FALSE
        /\ \A u \in Turns \ {t} : turn'[u] = turn[u]
        /\ \A u \in Turns : turn[u] # NoTurn /\ turn[u].chat = c => turn[u].cleared
    BY <1>1, <1>2, TakeBatchFacts
  <1>4. \A f \in Waiting(c) : f \in Files /\ stage[f] = "waiting" /\ home[f] = c
    BY DEF Waiting, FilesOf
  <1>5. \A u \in Turns : turn[u].pc \in Carrying \cup Spawning => turn[u] # NoTurn
    BY <1>1, TurnTypes DEF Carrying, Spawning
  <1>a. TypeOK' BY <1>1, <1>3 DEF TypeOK
  <1>b. TrackedUntilSettled' BY <1>3, <1>4 DEF Inv, TrackedUntilSettled, Pending
  <1>c. PendingFilesExist'
    BY <1>1, <1>3, <1>4 DEF Inv, TypeOK, TrackedUntilSettled, PendingFilesExist, Pending
  <1>d. Batches'
    <2> SUFFICES ASSUME NEW u \in Turns, turn'[u] # NoTurn, NEW f \in turn'[u].batch
                 PROVE  /\ stage'[f] = "handed"
                        /\ home[f] = turn'[u].chat
                        /\ \A v \in Turns : v # u /\ turn'[v] # NoTurn => f \notin turn'[v].batch
      BY DEF Batches
    <2>1. CASE u = t BY <1>3, <1>4, <2>1 DEF Inv, Batches
    <2>2. CASE u # t
      <3>1. turn'[u] = turn[u] BY <1>3, <2>2
      <3>2. stage[f] = "handed" /\ home[f] = turn[u].chat
            /\ \A v \in Turns : v # u /\ turn[v] # NoTurn => f \notin turn[v].batch
        BY <3>1 DEF Inv, Batches
      <3>3. f \in Files BY <1>1, <3>1, TurnTypes
      <3>4. f \notin Waiting(c) BY <1>4, <3>2
      <3> QED BY <1>3, <3>1, <3>2, <3>3, <3>4
    <2> QED BY <2>1, <2>2
  <1>e. OneOpenTurn' BY <1>3 DEF Inv, OneOpenTurn
  <1>f. Spawns' BY <1>3, <1>5 DEF Inv, Spawns, Spawning
  <1>g. Carriers'
    <2> SUFFICES ASSUME NEW u \in Turns, turn'[u].pc \in Carrying, turn'[u].chat \notin disturbed,
                        NEW f \in turn'[u].batch \cap disk'
                 PROVE  turn'[u].chat \in active' /\ ~turn'[u].cleared
      BY DEF Carriers
    <2>1. CASE u = t BY <1>3, <2>1 DEF Carrying
    <2>2. CASE u # t
      <3>1. turn'[u] = turn[u] /\ turn[u] # NoTurn BY <1>3, <1>5, <2>2
      <3>2. turn[u].chat \in active /\ ~turn[u].cleared /\ home[f] = turn[u].chat
        BY <3>1 DEF Inv, Carriers, Batches
      <3>3. turn[u].chat \notin V \cup {c} BY <1>3, <3>1, <3>2
      <3> QED BY <3>1, <3>2, <3>3
    <2> QED BY <2>1, <2>2
  <1>h. FilesHaveOwners' BY <1>1, <1>3, <1>4 DEF Inv, TypeOK, FilesHaveOwners, Pending, Spawns
  <1>i. FreshSessionsFindNoMedia'
    BY <1>1, <1>3 DEF Inv, TypeOK, FreshSessionsFindNoMedia, FilesOf
  <1> QED BY <1>a, <1>b, <1>c, <1>d, <1>e, <1>f, <1>g, <1>h, <1>i DEF Inv

\* Reuse, Spawn and ConfigFails preserve the invariant.
LEMMA TakeStep ==
  ASSUME Inv, NEW t \in Turns, NEW c \in Chats, Reuse(t, c) \/ Spawn(t, c) \/ ConfigFails(t, c)
  PROVE  Inv'
  <1>1. \A V : (V = {} /\ UNCHANGED <<disk, dirs, inflight, wiped>>) => Wipe(V)
    BY DEF Wipe, WipeAndDiscard
  <1>2. CASE Reuse(t, c)
    <2>1. Wipe({}) /\ stored' = stored \cup {} BY <1>1, <1>2 DEF Reuse, history
    <2> QED BY <1>2, <2>1, TakeBatchStep DEF Reuse, history
  <1>3. CASE Spawn(t, c)
    <2>1. PICK V \in {{}} \cup {{v} : v \in active \ {c}} :
            /\ active' = active \ (V \cup {c})
            /\ stored' = stored \cup V
            /\ Wipe(V)
      BY <1>3 DEF Spawn
    <2>2. V \in SUBSET (active \ {c}) OBVIOUS
    <2>3. active' = active => V = {} BY <2>1, <2>2
    <2> QED BY <1>3, <2>1, <2>2, <2>3, TakeBatchStep DEF Spawn
  <1>4. CASE ConfigFails(t, c)
    <2>1. Wipe({}) /\ stored' = stored \cup {} BY <1>1, <1>4 DEF ConfigFails, history
    <2> QED BY <1>4, <2>1, TakeBatchStep DEF ConfigFails, history
  <1> QED BY <1>2, <1>3, <1>4

\* A turn moves on: what does not depend on where it moves to.
LEMMA MoveBasics ==
  ASSUME Inv, NEW t \in Turns, turn[t] # NoTurn, NEW pc \in Pcs,
         turn' = [turn EXCEPT ![t].pc = pc],
         UNCHANGED <<stage, home, inflight, cleaning, disturbed>>,
         disk' \subseteq disk, dirs' \subseteq Chats, \A f \in disk' : home[f] \in dirs',
         active' \subseteq Chats, stored' \subseteq Chats,
         wiped \subseteq wiped', wiped' \subseteq Files,
         \A f \in disk \ disk' : f \in inflight => f \in wiped'
  PROVE  /\ TypeOK'
         /\ TrackedUntilSettled'
         /\ PendingFilesExist'
         /\ Batches'
         /\ OneOpenTurn'
         /\ turn'[t] # NoTurn
         /\ turn'[t].pc = pc
         /\ turn'[t].chat = turn[t].chat
         /\ turn'[t].batch = turn[t].batch
         /\ turn'[t].cleared = turn[t].cleared
         /\ \A u \in Turns \ {t} : turn'[u] = turn[u]
  <1>1. TypeOK BY DEF Inv
  <1>2. /\ turn' \in [Turns -> TurnRecords \cup {NoTurn}]
        /\ turn'[t] # NoTurn
        /\ turn'[t].pc = pc
        /\ turn'[t].chat = turn[t].chat
        /\ turn'[t].batch = turn[t].batch
        /\ turn'[t].cleared = turn[t].cleared
        /\ \A u \in Turns \ {t} : turn'[u] = turn[u]
    BY <1>1, SetPc
  <1>3. TypeOK' BY <1>1, <1>2 DEF TypeOK
  <1>4. TrackedUntilSettled' BY DEF Inv, TrackedUntilSettled
  <1>5. PendingFilesExist'
    BY DEF Inv, PendingFilesExist, TrackedUntilSettled, Pending
  <1>6. \A u \in Turns : /\ turn'[u] # NoTurn <=> turn[u] # NoTurn
                         /\ turn'[u].chat = turn[u].chat
                         /\ turn'[u].batch = turn[u].batch
                         /\ turn'[u].cleared = turn[u].cleared
    BY <1>2
  <1>7. Batches' BY <1>6 DEF Inv, Batches
  <1>8. OneOpenTurn' BY <1>6 DEF Inv, OneOpenTurn
  <1> QED BY <1>2, <1>3, <1>4, <1>5, <1>7, <1>8

\* A turn with a pc of a record is under way.
LEMMA Underway ==
  ASSUME TypeOK, NEW t \in Turns, turn[t].pc \in Pcs
  PROVE  turn[t] # NoTurn /\ turn[t] \in TurnRecords /\ turn[t].chat \in Chats
  BY TurnTypes DEF Pcs

\* A file that was kept is not in flight, so that it is stale.
LEMMA KeptIsStale ==
  ASSUME Inv, NEW c \in Chats, NEW f \in disk, home[f] = c, stage[f] = "kept"
  PROVE  f \in Stale(c)
  BY DEF Inv, TypeOK, TrackedUntilSettled, Pending, Stale

\* The stored session is resolved: what a discarded one left is wiped.
LEMMA ResolveStep ==
  ASSUME Inv, NEW t \in Turns, Resolve(t)
  PROVE  Inv'
  <1> DEFINE c == turn[t].chat
  <1>1. TypeOK /\ turn[t].pc = "evicting" BY DEF Inv, Resolve
  <1>2. turn[t] # NoTurn /\ c \in Chats BY <1>1, Underway DEF Pcs
  <1>3. PICK pc \in {"fresh", "resume"} :
          /\ pc = "resume" => c \in stored
          /\ stored' = IF pc = "fresh" THEN stored \ {c} ELSE stored
          /\ disk' = IF pc = "fresh" /\ c \in stored THEN disk \ Stale(c) ELSE disk
          /\ \/ turn' = [turn EXCEPT ![t].pc = pc] /\ dirs' = dirs \cup {c}
             \/ turn' = [turn EXCEPT ![t].pc = "failed"] /\ UNCHANGED dirs
    BY DEF Resolve
  <1>4. PICK new \in {pc, "failed"} : turn' = [turn EXCEPT ![t].pc = new]
    BY <1>3
  <1>5. new \in Pcs /\ new \in {"fresh", "resume", "failed"} BY <1>3, <1>4 DEF Pcs
  <1>6. UNCHANGED <<stage, home, inflight, active, cleaning, wiped, disturbed>>
    BY DEF Resolve, history
  <1>7. /\ disk' \subseteq disk /\ dirs' \subseteq Chats /\ stored' \subseteq Chats
        /\ \A f \in disk' : home[f] \in dirs'
        /\ \A f \in disk \ disk' : f \notin inflight /\ home[f] = c
    BY <1>1, <1>2, <1>3 DEF TypeOK, Stale
  <1>8. /\ TypeOK' /\ TrackedUntilSettled' /\ PendingFilesExist' /\ Batches' /\ OneOpenTurn'
        /\ turn'[t].pc = new
        /\ turn'[t].chat = c
        /\ turn'[t].batch = turn[t].batch
        /\ turn'[t].cleared = turn[t].cleared
        /\ \A u \in Turns \ {t} : turn'[u] = turn[u]
    BY <1>1, <1>2, <1>4, <1>5, <1>6, <1>7, MoveBasics DEF TypeOK
  <1>9. c \notin disturbed => c \notin active /\ ~turn[t].cleared
    BY <1>1 DEF Inv, Spawns, Spawning
  <1> HIDE DEF c
  <1>10. stored' \subseteq stored /\ (c \in stored \ stored' => pc = "fresh")
         /\ \A d \in stored \ stored' : d = c
    BY <1>3
  <1>11. \A f \in disk' : home[f] = c /\ stage[f] = "kept" => pc = "resume" \/ c \notin stored
    BY <1>2, <1>3, <1>7, KeptIsStale
  <1>a. Spawns' BY <1>5, <1>6, <1>8, <1>9, <1>10 DEF Inv, Spawns, Spawning
  <1>b. Carriers' BY <1>5, <1>6, <1>7, <1>8 DEF Inv, Carriers, Carrying
  <1>c. FilesHaveOwners'
    BY <1>3, <1>6, <1>7, <1>10, <1>11 DEF Inv, FilesHaveOwners, Pending
  <1>d. FreshSessionsFindNoMedia'
    <2> SUFFICES ASSUME NEW u \in Turns, turn'[u].pc = "fresh", turn'[u].chat \notin disturbed,
                        NEW f \in disk', f \in Files, home[f] = turn'[u].chat
                 PROVE  stage[f] # "kept"
      BY <1>6 DEF FreshSessionsFindNoMedia, FilesOf
    <2>1. CASE u # t BY <1>7, <1>8, <2>1 DEF Inv, FreshSessionsFindNoMedia, FilesOf
    <2>2. CASE u = t
      <3>1. pc = "fresh" /\ home[f] = c /\ c \notin disturbed BY <1>4, <1>8, <2>2, <1>3
      <3>2. c \notin active BY <1>9, <3>1
      <3>3. c \notin stored \/ stage[f] # "kept" BY <1>11, <3>1
      <3> QED BY <1>7, <3>1, <3>2, <3>3 DEF Inv, FilesHaveOwners, Pending
    <2> QED BY <2>1, <2>2
  <1> QED BY <1>8, <1>a, <1>b, <1>c, <1>d DEF Inv

\* A session is put in memory; no other turn of the chat spawns undisturbed.
LEMMA InstallStep ==
  ASSUME Inv, NEW t \in Turns, Install(t)
  PROVE  Inv'
  <1> DEFINE c == turn[t].chat
  <1>1. TypeOK /\ turn[t].pc \in {"fresh", "resume"} BY DEF Inv, Install
  <1>2. turn[t] # NoTurn /\ c \in Chats BY <1>1, Underway DEF Pcs
  <1>3. /\ turn' = [turn EXCEPT ![t].pc = "queued"]
        /\ active' = active \cup {c}
        /\ stored' = stored \cup {c}
        /\ UNCHANGED <<stage, home, disk, dirs, inflight, cleaning, wiped, disturbed>>
    BY DEF Install, history
  <1>4. "queued" \in Pcs BY DEF Pcs
  <1>5. /\ TypeOK' /\ TrackedUntilSettled' /\ PendingFilesExist' /\ Batches' /\ OneOpenTurn'
        /\ turn'[t].pc = "queued"
        /\ turn'[t].chat = c
        /\ turn'[t].cleared = turn[t].cleared
        /\ \A u \in Turns \ {t} : turn'[u] = turn[u]
    BY <1>1, <1>2, <1>3, <1>4, MoveBasics DEF TypeOK
  <1>6. c \notin disturbed => ~turn[t].cleared BY <1>1 DEF Inv, Spawns, Spawning
  <1>7. \A u \in Turns \ {t} : turn[u].pc \in Spawning /\ turn[u].chat = c => c \in disturbed
    <2> SUFFICES ASSUME NEW u \in Turns \ {t}, turn[u].pc \in Spawning, turn[u].chat = c,
                        c \notin disturbed
                 PROVE  FALSE
      OBVIOUS
    <2>1. turn[u] # NoTurn BY <1>1, Underway DEF Pcs, Spawning
    <2>2. ~turn[u].cleared BY DEF Inv, Spawns
    <2> QED BY <1>2, <1>6, <2>1, <2>2 DEF Inv, OneOpenTurn
  <1> HIDE DEF c
  <1>a. Spawns'
    <2> SUFFICES ASSUME NEW u \in Turns, turn'[u].pc \in Spawning, turn'[u].chat \notin disturbed
                 PROVE  turn'[u].chat \notin active' /\ ~turn'[u].cleared
      BY <1>3 DEF Inv, Spawns
    <2>1. u # t BY <1>5 DEF Spawning
    <2>2. turn'[u] = turn[u] BY <1>5, <2>1
    <2> QED BY <1>3, <1>7, <2>1, <2>2 DEF Inv, Spawns
  <1>b. Carriers' BY <1>3, <1>5, <1>6 DEF Inv, Carriers
  <1>c. FilesHaveOwners' BY <1>3 DEF Inv, FilesHaveOwners
  <1>d. FreshSessionsFindNoMedia' BY <1>3, <1>5 DEF Inv, FreshSessionsFindNoMedia, FilesOf
  <1> QED BY <1>5, <1>a, <1>b, <1>c, <1>d DEF Inv

\* A resume that fails discards the session and its media.
LEMMA ResumeNotFoundStep ==
  ASSUME Inv, NEW t \in Turns, ResumeNotFound(t)
  PROVE  Inv'
  <1> DEFINE c == turn[t].chat
  <1>1. TypeOK /\ turn[t].pc = "resume" BY DEF Inv, ResumeNotFound
  <1>2. turn[t] # NoTurn /\ c \in Chats BY <1>1, Underway DEF Pcs
  <1>3. PICK pc \in {"fresh", "failed"} : turn' = [turn EXCEPT ![t].pc = pc]
    BY DEF ResumeNotFound
  <1>4. /\ stored' = stored \ {c}
        /\ disk' = disk \ Stale(c)
        /\ UNCHANGED <<stage, home, dirs, inflight, active, cleaning, wiped, disturbed>>
    BY DEF ResumeNotFound, history
  <1>5. /\ disk' \subseteq disk
        /\ \A f \in disk' : home[f] \in dirs
        /\ \A f \in disk \ disk' : f \notin inflight
    BY <1>1, <1>4 DEF TypeOK, Stale
  <1>6. pc \in Pcs BY DEF Pcs
  <1>7. /\ TypeOK' /\ TrackedUntilSettled' /\ PendingFilesExist' /\ Batches' /\ OneOpenTurn'
        /\ turn'[t].pc = pc
        /\ turn'[t].chat = c
        /\ turn'[t].cleared = turn[t].cleared
        /\ \A u \in Turns \ {t} : turn'[u] = turn[u]
    BY <1>1, <1>2, <1>3, <1>4, <1>5, <1>6, MoveBasics DEF TypeOK
  <1>8. c \notin disturbed => c \notin active /\ ~turn[t].cleared
    BY <1>1 DEF Inv, Spawns, Spawning
  <1>9. \A f \in disk' : home[f] = c => stage[f] # "kept"
    BY <1>2, <1>4, <1>5, KeptIsStale
  <1> HIDE DEF c
  <1>a. Spawns' BY <1>4, <1>7, <1>8 DEF Inv, Spawns, Spawning
  <1>b. Carriers' BY <1>3, <1>4, <1>5, <1>7 DEF Inv, Carriers, Carrying
  <1>c. FilesHaveOwners' BY <1>4, <1>5, <1>9 DEF Inv, FilesHaveOwners, Pending
  <1>d. FreshSessionsFindNoMedia'
    BY <1>4, <1>5, <1>7, <1>9 DEF Inv, FreshSessionsFindNoMedia, FilesOf
  <1> QED BY <1>7, <1>a, <1>b, <1>c, <1>d DEF Inv

\* A subprocess does not start.
LEMMA StartFailsStep ==
  ASSUME Inv, NEW t \in Turns, StartFails(t)
  PROVE  Inv'
  <1> DEFINE W == IF turn[t].pc = "fresh" THEN {turn[t].chat} ELSE {}
  <1>1. TypeOK /\ turn[t].pc \in {"fresh", "resume"} BY DEF Inv, StartFails
  <1>2. turn[t] # NoTurn BY <1>1, Underway DEF Pcs
  <1>3. /\ turn' = [turn EXCEPT ![t].pc = "failed"]
        /\ Wipe(W)
        /\ UNCHANGED <<stage, home, active, stored, cleaning, disturbed>>
    BY DEF StartFails
  <1> HIDE DEF W
  <1>4. /\ disk' \subseteq disk /\ dirs' \subseteq Chats /\ inflight' = inflight
        /\ wiped \subseteq wiped' /\ wiped' \subseteq Files
        /\ \A f \in disk' : home[f] \in dirs'
        /\ \A f \in disk \ disk' : f \in inflight => f \in wiped'
    BY <1>1, <1>3 DEF TypeOK, Wipe, WipeAndDiscard
  <1>5. "failed" \in Pcs BY DEF Pcs
  <1>6. /\ TypeOK' /\ TrackedUntilSettled' /\ PendingFilesExist' /\ Batches' /\ OneOpenTurn'
        /\ turn'[t].pc = "failed"
        /\ turn'[t].chat = turn[t].chat
        /\ \A u \in Turns \ {t} : turn'[u] = turn[u]
    BY <1>1, <1>2, <1>3, <1>4, <1>5, MoveBasics DEF TypeOK
  <1>a. Spawns' BY <1>3, <1>6 DEF Inv, Spawns, Spawning
  <1>b. Carriers' BY <1>3, <1>4, <1>6 DEF Inv, Carriers, Carrying
  <1>c. FilesHaveOwners' BY <1>3, <1>4 DEF Inv, FilesHaveOwners
  <1>d. FreshSessionsFindNoMedia' BY <1>3, <1>4, <1>6 DEF Inv, FreshSessionsFindNoMedia, FilesOf
  <1> QED BY <1>6, <1>a, <1>b, <1>c, <1>d DEF Inv

\* StartTurn and TransferOwnership: a turn that carries files goes on carrying them.
LEMMA RunStep ==
  ASSUME Inv, NEW t \in Turns, StartTurn(t) \/ TransferOwnership(t)
  PROVE  Inv'
  <1>1. TypeOK /\ turn[t].pc \in {"queued", "running"} BY DEF Inv, StartTurn, TransferOwnership
  <1>2. turn[t] # NoTurn /\ turn[t].chat \in Chats BY <1>1, Underway DEF Pcs
  <1>3. PICK pc \in {"running", "owned", "failed"} : turn' = [turn EXCEPT ![t].pc = pc]
    BY DEF StartTurn, TransferOwnership
  <1>4. /\ stored' \in {stored, stored \cup {turn[t].chat}}
        /\ UNCHANGED <<stage, home, disk, dirs, inflight, active, cleaning, wiped, disturbed>>
    BY DEF StartTurn, TransferOwnership, history
  <1>5. pc \in Pcs BY DEF Pcs
  <1>6. /\ TypeOK' /\ TrackedUntilSettled' /\ PendingFilesExist' /\ Batches' /\ OneOpenTurn'
        /\ turn'[t].pc = pc
        /\ turn'[t].chat = turn[t].chat
        /\ turn'[t].batch = turn[t].batch
        /\ turn'[t].cleared = turn[t].cleared
        /\ \A u \in Turns \ {t} : turn'[u] = turn[u]
    BY <1>1, <1>2, <1>3, <1>4, <1>5, MoveBasics DEF TypeOK
  <1>a. Spawns' BY <1>4, <1>6 DEF Inv, Spawns, Spawning
  <1>b. Carriers' BY <1>1, <1>4, <1>6 DEF Inv, Carriers, Carrying
  <1>c. FilesHaveOwners' BY <1>4 DEF Inv, FilesHaveOwners
  <1>d. FreshSessionsFindNoMedia' BY <1>4, <1>6 DEF Inv, FreshSessionsFindNoMedia, FilesOf
  <1> QED BY <1>6, <1>a, <1>b, <1>c, <1>d DEF Inv

\* A turn ends: its files are kept by the session or discarded.
LEMMA EndTurnStep ==
  ASSUME Inv, NEW t \in Turns, EndTurn(t)
  PROVE  Inv'
  <1> DEFINE S == turn[t].batch
             c == turn[t].chat
             owned == turn[t].pc = "owned"
  <1>1. TypeOK /\ turn[t].pc \in Pcs BY DEF Inv, EndTurn, Pcs
  <1>2. turn[t] # NoTurn /\ c \in Chats /\ S \subseteq Files BY <1>1, TurnTypes, Underway
  <1>3. \A f \in S : /\ stage[f] = "handed"
                     /\ home[f] = c
                     /\ \A u \in Turns \ {t} : turn[u] # NoTurn => f \notin turn[u].batch
    BY <1>2 DEF Inv, Batches
  <1>4. owned => \A f \in S \cap disk : c \in active \cup disturbed
    BY DEF Inv, Carriers, Carrying
  <1>5. /\ turn' = [turn EXCEPT ![t] = NoTurn]
        /\ \A f \in Files : stage'[f] = IF f \in S THEN IF owned THEN "kept" ELSE "reclaimed"
                                        ELSE stage[f]
        /\ stage' \in [Files -> Stages]
        /\ inflight' = inflight \ S
        /\ disk' = IF owned THEN disk ELSE disk \ S
        /\ UNCHANGED <<home, dirs, wiped, active, stored, cleaning, disturbed>>
    BY <1>1 DEF EndTurn, Staged, Discard, WipeAndDiscard, TypeOK, Stages, Pending
  <1>6. turn'[t] = NoTurn /\ \A u \in Turns \ {t} : turn'[u] = turn[u]
    BY <1>1, <1>5 DEF TypeOK
  <1>7. turn'[t].pc = "none" BY <1>6 DEF NoTurn
  <1> HIDE DEF S, c, owned
  <1>a. TypeOK' BY <1>1, <1>5 DEF TypeOK
  <1>b. TrackedUntilSettled' BY <1>2, <1>3, <1>5 DEF Inv, TrackedUntilSettled, Pending
  <1>c. PendingFilesExist' BY <1>2, <1>5 DEF Inv, PendingFilesExist
  <1>d. Batches'
    <2> SUFFICES ASSUME NEW u \in Turns \ {t}, turn[u] # NoTurn, NEW f \in turn[u].batch
                 PROVE  stage'[f] = "handed"
      BY <1>5, <1>6 DEF Inv, Batches
    <2>1. f \in Files /\ stage[f] = "handed" BY <1>1, TurnTypes DEF Inv, Batches
    <2> QED BY <1>3, <1>5, <2>1
  <1>e. OneOpenTurn' BY <1>6 DEF Inv, OneOpenTurn
  <1>f. Spawns' BY <1>5, <1>6, <1>7 DEF Inv, Spawns, Spawning
  <1>g. Carriers' BY <1>5, <1>6, <1>7 DEF Inv, Carriers, Carrying
  <1>h. FilesHaveOwners' BY <1>1, <1>3, <1>4, <1>5 DEF Inv, TypeOK, FilesHaveOwners, Pending
  <1>i. FreshSessionsFindNoMedia'
    <2> SUFFICES ASSUME NEW u \in Turns, turn'[u].pc = "fresh", turn'[u].chat \notin disturbed,
                        NEW f \in disk', f \in Files, home[f] = turn'[u].chat
                 PROVE  stage'[f] # "kept"
      BY <1>5 DEF FreshSessionsFindNoMedia, FilesOf
    <2>1. u # t /\ turn'[u] = turn[u] BY <1>6, <1>7
    <2>2. turn[u].chat \notin active BY <2>1 DEF Inv, Spawns, Spawning
    <2>3. stage[f] # "kept" BY <1>5, <2>1 DEF Inv, FreshSessionsFindNoMedia, FilesOf
    <2>4. f \in S => ~owned BY <1>3, <1>4, <1>5, <2>1, <2>2
    <2> QED BY <1>5, <2>3, <2>4
  <1> QED BY <1>a, <1>b, <1>c, <1>d, <1>e, <1>f, <1>g, <1>h, <1>i DEF Inv

\* A session leaves memory and the directory of its chat is wiped.
LEMMA CloseStep ==
  ASSUME Inv, NEW c \in Chats, IdleTimerFires(c) \/ ChildExits(c) \/ CleanEnds(c)
  PROVE  Inv'
  <1>1. TypeOK BY DEF Inv
  <1>2. /\ active' \in {active, active \ {c}}
        /\ stored' \in {stored, stored \cup {c}}
        /\ cleaning' \subseteq cleaning
        /\ UNCHANGED <<stage, home, turn, disturbed>>
        /\ Wipe({c})
    BY DEF IdleTimerFires, ChildExits, CleanEnds
  <1>3. /\ disk' = {f \in disk : home[f] # c}
        /\ dirs' = dirs \ {c}
        /\ inflight' = inflight
        /\ wiped' = wiped \cup {f \in inflight : home[f] = c}
    BY <1>2 DEF Wipe, WipeAndDiscard
  <1>4. Waiting(c) \subseteq Files BY DEF Waiting, FilesOf
  <1>5. \A t \in Turns : turn[t].pc \in Carrying => turn[t] # NoTurn BY <1>1, TurnTypes DEF Carrying
  <1>a. TypeOK' BY <1>1, <1>2, <1>3, <1>4 DEF TypeOK
  <1>b. TrackedUntilSettled' BY <1>2, <1>3 DEF Inv, TrackedUntilSettled
  <1>c. PendingFilesExist'
    BY <1>2, <1>3 DEF Inv, PendingFilesExist, TrackedUntilSettled, Pending
  <1>d. Batches' BY <1>2 DEF Inv, Batches
  <1>e. OneOpenTurn' BY <1>2 DEF Inv, OneOpenTurn
  <1>f. Spawns' BY <1>2 DEF Inv, Spawns
  <1>g. Carriers' BY <1>2, <1>3, <1>5 DEF Inv, Carriers, Batches
  <1>h. FilesHaveOwners' BY <1>2, <1>3 DEF Inv, FilesHaveOwners
  <1>i. FreshSessionsFindNoMedia' BY <1>2, <1>3 DEF Inv, FreshSessionsFindNoMedia, FilesOf
  <1> QED BY <1>a, <1>b, <1>c, <1>d, <1>e, <1>f, <1>g, <1>h, <1>i DEF Inv

\* What messageQueue.clear does to the turns and the messages of a chat.
LEMMA ClearQueueFacts ==
  ASSUME TypeOK, NEW c \in Chats, ClearQueue(c)
  PROVE  /\ stage' \in [Files -> Stages]
         /\ \A f \in Files : stage'[f] = IF f \in Waiting(c) THEN "reclaimed" ELSE stage[f]
         /\ turn' \in [Turns -> TurnRecords \cup {NoTurn}]
         /\ \A t \in Turns : /\ turn'[t] # NoTurn <=> turn[t] # NoTurn
                             /\ turn'[t].pc = turn[t].pc
                             /\ turn[t] # NoTurn => /\ turn'[t].chat = turn[t].chat
                                                    /\ turn'[t].batch = turn[t].batch
                             /\ turn[t] # NoTurn /\ turn[t].chat = c => turn'[t].cleared
                             /\ turn[t] = NoTurn \/ turn[t].chat # c => turn'[t] = turn[t]
         /\ disturbed \subseteq disturbed' /\ disturbed' \subseteq disturbed \cup {c}
         /\ \A t \in Turns : turn[t] # NoTurn /\ turn[t].chat = c /\ turn[t].pc \in Spawning =>
               c \in disturbed'
  <1>1. /\ stage' \in [Files -> Stages]
        /\ \A f \in Files : stage'[f] = IF f \in Waiting(c) THEN "reclaimed" ELSE stage[f]
    BY DEF ClearQueue, Staged, TypeOK, Stages
  <1>2. \A t \in Turns : turn[t] # NoTurn => turn[t] \in TurnRecords BY DEF TypeOK
  <1>3. \A t \in TurnsOf(c) : turn[t] \in TurnRecords /\ turn[t].chat = c BY <1>2 DEF TurnsOf
  <1>4. \A t \in TurnsOf(c) : /\ turn'[t] \in TurnRecords
                              /\ turn'[t].pc = turn[t].pc
                              /\ turn'[t].chat = turn[t].chat
                              /\ turn'[t].batch = turn[t].batch
                              /\ turn'[t].cleared = TRUE
    <2> SUFFICES ASSUME NEW t \in TurnsOf(c)
                 PROVE  /\ turn'[t] \in TurnRecords
                        /\ turn'[t].pc = turn[t].pc
                        /\ turn'[t].chat = turn[t].chat
                        /\ turn'[t].batch = turn[t].batch
                        /\ turn'[t].cleared = TRUE
      OBVIOUS
    <2> DEFINE new == [turn[t] EXCEPT !.cleared = TRUE]
    <2>1. /\ new \in TurnRecords
          /\ new.pc = turn[t].pc
          /\ new.chat = turn[t].chat
          /\ new.batch = turn[t].batch
          /\ new.cleared = TRUE
      BY <1>3, RecordCleared
    <2>2. t \in Turns BY DEF TurnsOf
    <2>3. turn'[t] = new BY <2>2, Zenon DEF ClearQueue
    <2> HIDE DEF new
    <2> QED BY <2>1, <2>3
  <1>5. \A t \in Turns \ TurnsOf(c) : turn'[t] = turn[t] BY Zenon DEF ClearQueue
  <1>6. \A t \in Turns : t \in TurnsOf(c) <=> turn[t] # NoTurn /\ turn[t].chat = c BY DEF TurnsOf
  <1>7. \A t \in TurnsOf(c) : turn'[t] # NoTurn BY <1>4, RecordsAreNotNone
  <1>8. turn' \in [Turns -> TurnRecords \cup {NoTurn}]
    <2>1. turn' = [t \in Turns |-> turn'[t]] BY Zenon DEF ClearQueue
    <2>2. \A t \in Turns : turn'[t] \in TurnRecords \cup {NoTurn} BY <1>2, <1>4, <1>5
    <2> QED BY <2>1, <2>2, Zenon
  <1>9. /\ disturbed \subseteq disturbed' /\ disturbed' \subseteq disturbed \cup {c}
        /\ \A t \in TurnsOf(c) : turn[t].pc \in Spawning => c \in disturbed'
    <2>1. disturbed' = IF \E t \in TurnsOf(c) : turn[t].pc \in Spawning THEN disturbed \cup {c}
                                                                      ELSE disturbed
      BY Zenon DEF ClearQueue
    <2> QED BY <2>1
  <1> QED BY <1>1, <1>4, <1>5, <1>6, <1>7, <1>8, <1>9

\* /reconnect and /clean.
LEMMA ClearStep ==
  ASSUME Inv, NEW c \in Chats, Reconnect(c) \/ Clean(c)
  PROVE  Inv'
  <1>1. TypeOK BY DEF Inv
  <1>2. /\ ClearQueue(c)
        /\ active' = active \ {c}
        /\ stored' \subseteq Chats
        /\ \A d \in stored \cup active : d # c => d \in stored' \cup active' \cup disturbed
        /\ stored \ {c} \subseteq stored'
        /\ cleaning' \subseteq Chats
        /\ UNCHANGED <<home>>
    BY <1>1 DEF Reconnect, Clean, TypeOK
  <1>3. WipeAndDiscard({c}, Waiting(c)) \/ (WipeAndDiscard({c} \cap active, Waiting(c)) /\ stored \subseteq stored')
    BY DEF Reconnect, Clean
  <1>4. /\ disk' \subseteq disk
        /\ dirs' \subseteq dirs
        /\ \A f \in disk' : f \notin Waiting(c) /\ home[f] \in dirs'
        /\ inflight' = inflight \ Waiting(c)
        /\ wiped \subseteq wiped' /\ wiped' \subseteq Files
        /\ \A f \in disk \ disk' : f \in inflight' => f \in wiped'
        /\ (\A f \in disk' : home[f] # c) \/ (c \notin active /\ stored \subseteq stored')
    BY <1>1, <1>3 DEF WipeAndDiscard, TypeOK
  <1>5. /\ stage' \in [Files -> Stages]
        /\ \A f \in Files : stage'[f] = IF f \in Waiting(c) THEN "reclaimed" ELSE stage[f]
        /\ turn' \in [Turns -> TurnRecords \cup {NoTurn}]
        /\ \A t \in Turns : /\ turn'[t] # NoTurn <=> turn[t] # NoTurn
                            /\ turn'[t].pc = turn[t].pc
                            /\ turn[t] # NoTurn => /\ turn'[t].chat = turn[t].chat
                                                   /\ turn'[t].batch = turn[t].batch
                            /\ turn[t] # NoTurn /\ turn[t].chat = c => turn'[t].cleared
                            /\ turn[t] = NoTurn \/ turn[t].chat # c => turn'[t] = turn[t]
        /\ disturbed \subseteq disturbed' /\ disturbed' \subseteq disturbed \cup {c}
        /\ \A t \in Turns : turn[t] # NoTurn /\ turn[t].chat = c /\ turn[t].pc \in Spawning =>
              c \in disturbed'
    BY <1>1, <1>2, ClearQueueFacts
  <1>6. \A t \in Turns : turn[t].pc \in Carrying \cup Spawning => turn[t] # NoTurn
    BY <1>1, TurnTypes DEF Carrying, Spawning
  <1>7. \A f \in Waiting(c) : f \in Files /\ stage[f] = "waiting" /\ home[f] = c
    BY DEF Waiting, FilesOf
  <1>a. TypeOK' BY <1>1, <1>2, <1>4, <1>5 DEF TypeOK
  <1>b. TrackedUntilSettled' BY <1>4, <1>5, <1>7 DEF Inv, TrackedUntilSettled, Pending
  <1>c. PendingFilesExist'
    <2> SUFFICES ASSUME NEW f \in Files \ wiped', stage'[f] \in {"written", "waiting", "handed"}
                 PROVE  f \in disk'
      BY DEF PendingFilesExist
    <2>1. f \notin Waiting(c) /\ stage'[f] = stage[f] BY <1>5
    <2>2. f \in disk /\ f \in inflight
      BY <1>4, <2>1 DEF Inv, PendingFilesExist, TrackedUntilSettled, Pending
    <2> QED BY <1>4, <2>1, <2>2
  <1>d. Batches'
    <2> SUFFICES ASSUME NEW t \in Turns, turn[t] # NoTurn, NEW f \in turn[t].batch
                 PROVE  /\ stage'[f] = "handed"
                        /\ home[f] = turn[t].chat
                        /\ \A u \in Turns : u # t /\ turn[u] # NoTurn => f \notin turn[u].batch
      BY <1>2, <1>5 DEF Batches
    <2>1. /\ stage[f] = "handed" /\ home[f] = turn[t].chat
          /\ \A u \in Turns : u # t /\ turn[u] # NoTurn => f \notin turn[u].batch
      BY DEF Inv, Batches
    <2>2. f \in Files BY <1>1, TurnTypes
    <2> QED BY <1>5, <1>7, <2>1, <2>2
  <1>e. OneOpenTurn' BY <1>5 DEF Inv, OneOpenTurn
  <1>f. Spawns'
    <2>1. active' \subseteq stored' \cup disturbed' BY <1>2, <1>5 DEF Inv, Spawns
    <2> SUFFICES ASSUME NEW t \in Turns, turn'[t].pc \in Spawning, turn'[t].chat \notin disturbed'
                 PROVE  turn'[t].chat \notin active' /\ ~turn'[t].cleared
      BY <2>1 DEF Spawns
    <2>2. turn[t] # NoTurn /\ turn[t].pc \in Spawning /\ turn[t].chat = turn'[t].chat BY <1>5, <1>6
    <2>3. turn[t].chat # c BY <1>5, <2>2
    <2>4. turn'[t] = turn[t] /\ turn[t].chat \notin disturbed BY <1>5, <2>2, <2>3
    <2> QED BY <1>2, <2>2, <2>4 DEF Inv, Spawns
  <1>g. Carriers'
    <2> SUFFICES ASSUME NEW t \in Turns, turn'[t].pc \in Carrying, turn'[t].chat \notin disturbed',
                        NEW f \in turn'[t].batch \cap disk'
                 PROVE  turn'[t].chat \in active' /\ ~turn'[t].cleared
      BY DEF Carriers
    <2>1. /\ turn[t] # NoTurn /\ turn[t].pc \in Carrying /\ turn[t].chat = turn'[t].chat
          /\ f \in turn[t].batch /\ f \in disk
      BY <1>4, <1>5, <1>6
    <2>2. turn[t].chat \in active /\ ~turn[t].cleared /\ home[f] = turn[t].chat
      BY <1>5, <2>1 DEF Inv, Carriers, Batches
    <2>3. turn[t].chat # c BY <1>4, <2>2
    <2> QED BY <1>2, <1>5, <2>1, <2>2, <2>3
  <1>h. FilesHaveOwners'
    <2> SUFFICES ASSUME NEW f \in disk', stage'[f] \notin Pending, stage'[f] # "lost"
                 PROVE  stage'[f] = "kept" /\ home[f] \in active' \cup stored' \cup disturbed'
      BY <1>2 DEF FilesHaveOwners
    <2>1. f \in disk /\ f \in Files /\ stage'[f] = stage[f] BY <1>1, <1>4, <1>5 DEF TypeOK
    <2>2. stage[f] = "kept" /\ home[f] \in active \cup stored \cup disturbed
      BY <2>1 DEF Inv, FilesHaveOwners
    <2>3. home[f] = c => c \notin active /\ stored \subseteq stored' BY <1>4
    <2> QED BY <1>2, <1>5, <2>1, <2>2, <2>3
  <1>i. FreshSessionsFindNoMedia'
    <2> SUFFICES ASSUME NEW t \in Turns, turn'[t].pc = "fresh", turn'[t].chat \notin disturbed',
                        NEW f \in disk', f \in Files, home[f] = turn'[t].chat
                 PROVE  stage'[f] # "kept"
      BY <1>2 DEF FreshSessionsFindNoMedia, FilesOf
    <2>1. turn[t] # NoTurn /\ turn[t].pc = "fresh" /\ turn[t].chat = turn'[t].chat
      BY <1>5, <1>6 DEF Spawning
    <2>2. stage[f] # "kept"
      BY <1>4, <1>5, <2>1 DEF Inv, FreshSessionsFindNoMedia, FilesOf
    <2> QED BY <1>5, <2>2
  <1> QED BY <1>a, <1>b, <1>c, <1>d, <1>e, <1>f, <1>g, <1>h, <1>i DEF Inv

\* The process restarts: what it left on disk is lost track of.
LEMMA RestartStep ==
  ASSUME Inv, Restart
  PROVE  Inv'
  <1> DEFINE ends == Pending \cup {"kept"}
  <1>1. TypeOK BY DEF Inv
  <1>2. /\ stage' \in [Files -> Stages]
        /\ \A f \in Files : stage'[f] = IF stage[f] \in ends THEN "lost" ELSE stage[f]
        /\ \A t \in Turns : turn'[t] = NoTurn
        /\ turn' \in [Turns -> TurnRecords \cup {NoTurn}]
        /\ inflight' = {} /\ active' = {} /\ cleaning' = {} /\ disturbed' = {}
        /\ UNCHANGED <<home, disk, dirs, stored, wiped>>
    BY <1>1 DEF Restart, Staged, TypeOK, Stages
  <1>3. \A t \in Turns : turn'[t].pc = "none" BY <1>2 DEF NoTurn
  <1>a. TypeOK' BY <1>1, <1>2 DEF TypeOK
  <1>b. TrackedUntilSettled' BY <1>2 DEF TrackedUntilSettled, Pending
  <1>c. PendingFilesExist' BY <1>2 DEF PendingFilesExist, Pending
  <1>d. Batches' BY <1>2 DEF Batches
  <1>e. OneOpenTurn' BY <1>2 DEF OneOpenTurn
  <1>f. Spawns' BY <1>2, <1>3 DEF Spawns, Spawning
  <1>g. Carriers' BY <1>3 DEF Carriers, Carrying
  <1>h. FilesHaveOwners' BY <1>1, <1>2 DEF Inv, TypeOK, FilesHaveOwners, Pending
  <1>i. FreshSessionsFindNoMedia' BY <1>3 DEF FreshSessionsFindNoMedia
  <1> QED BY <1>a, <1>b, <1>c, <1>d, <1>e, <1>f, <1>g, <1>h, <1>i DEF Inv

----------------------------------------------------------------------------
(* The theorems.                                                           *)

\* The invariant holds at first.
LEMMA InvInit == Init => Inv
  <1> SUFFICES ASSUME Init PROVE Inv OBVIOUS
  <1>1. \A t \in Turns : turn[t] = NoTurn /\ turn[t].pc = "none" BY DEF Init, NoTurn
  <1>2. TypeOK BY DEF Init, TypeOK, Stages, Pending
  <1>3. TrackedUntilSettled /\ PendingFilesExist /\ FilesHaveOwners
    BY DEF Init, TrackedUntilSettled, PendingFilesExist, FilesHaveOwners, Pending
  <1>4. Batches /\ OneOpenTurn BY <1>1 DEF Batches, OneOpenTurn
  <1>5. Spawns /\ Carriers /\ FreshSessionsFindNoMedia
    BY <1>1 DEF Init, Spawns, Spawning, Carriers, Carrying, FreshSessionsFindNoMedia
  <1> QED BY <1>2, <1>3, <1>4, <1>5 DEF Inv

\* A step that changes nothing preserves the invariant.
LEMMA InvStutter ==
  ASSUME Inv, UNCHANGED vars
  PROVE  Inv'
  <1> USE DEF vars, history
  <1>1. TypeOK' BY DEF Inv, TypeOK
  <1>2. TrackedUntilSettled' /\ PendingFilesExist' /\ FilesHaveOwners'
    BY DEF Inv, TrackedUntilSettled, PendingFilesExist, FilesHaveOwners
  <1>3. Batches' /\ OneOpenTurn' BY DEF Inv, Batches, OneOpenTurn
  <1>4. Spawns' /\ Carriers' BY DEF Inv, Spawns, Carriers
  <1>5. FreshSessionsFindNoMedia' BY DEF Inv, FreshSessionsFindNoMedia, FilesOf
  <1> QED BY <1>1, <1>2, <1>3, <1>4, <1>5 DEF Inv

\* Every step preserves the invariant.
LEMMA InvNext == Inv /\ [Next]_vars => Inv'
  <1> SUFFICES ASSUME Inv, [Next]_vars PROVE Inv' OBVIOUS
  <1>1. CASE \E f \in Files : AllocateMediaPath(f) \/ WriteFile(f) \/ DownloadFails(f) \/ Enqueue(f)
    BY <1>1, HandlerStep
  <1>2. CASE \E t \in Turns : \/ \E c \in Chats : Reuse(t, c) \/ Spawn(t, c) \/ ConfigFails(t, c)
                              \/ Resolve(t) \/ Install(t) \/ ResumeNotFound(t) \/ StartFails(t)
                              \/ StartTurn(t) \/ TransferOwnership(t) \/ EndTurn(t)
    BY <1>2, TakeStep, ResolveStep, InstallStep, ResumeNotFoundStep, StartFailsStep, RunStep,
       EndTurnStep
  <1>3. CASE \E c \in Chats : \/ IdleTimerFires(c) \/ ChildExits(c)
                              \/ Reconnect(c) \/ Clean(c) \/ CleanEnds(c)
    BY <1>3, CloseStep, ClearStep
  <1>4. CASE Restart BY <1>4, RestartStep
  <1>5. CASE UNCHANGED vars BY <1>5, InvStutter
  <1> QED BY <1>1, <1>2, <1>3, <1>4, <1>5 DEF Next

\* The inductive invariant holds in every reachable state.
THEOREM Invariance == Spec => []Inv
  BY InvInit, InvNext, PTL DEF Spec

\* Every variable keeps its type, and a file exists only where its directory does.
THEOREM TypeCorrect == Spec => []TypeOK
  <1>1. Inv => TypeOK BY DEF Inv
  <1> QED BY Invariance, <1>1, PTL

\* inflightMediaPaths holds a path exactly as long as its message is unsettled.
THEOREM TrackingIsExact == Spec => []TrackedUntilSettled
  <1>1. Inv => TrackedUntilSettled BY DEF Inv
  <1> QED BY Invariance, <1>1, PTL

\* Neither eviction at the cap nor the wipe of stale media deletes a file whose
\* message may still reach the agent.
THEOREM PendingFilesSurvive == Spec => []PendingFilesExist
  <1>1. Inv => PendingFilesExist BY DEF Inv
  <1> QED BY Invariance, <1>1, PTL

\* No file of this process outlives everything that would delete it.
THEOREM NoFileLeaks == Spec => []FilesHaveOwners
  <1>1. Inv => FilesHaveOwners BY DEF Inv
  <1> QED BY Invariance, <1>1, PTL

\* A subprocess that starts a session of its own finds no media of an earlier one.
THEOREM FreshSessionsAreClean == Spec => []FreshSessionsFindNoMedia
  <1>1. Inv => FreshSessionsFindNoMedia BY DEF Inv
  <1> QED BY Invariance, <1>1, PTL
=============================================================================
