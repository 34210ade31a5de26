------------------------ MODULE QuotaSampler_proofs ------------------------
(***************************************************************************)
(* What holds of the quota sampler for any number of runs, overlapping or  *)
(* killed anywhere.                                                        *)
(***************************************************************************)
EXTENDS QuotaSampler, TLAPS

\* The contents of a cache file are contents.
LEMMA CacheType ==
    /\ Absent \in Contents /\ Malformed \in Contents
    /\ \A snap \in Nat, att \in Nat, ok \in BOOLEAN : Cache(snap, att, ok) \in Contents
PROOF BY DEF Absent, Malformed, Cache, Contents, Snapshots, NoSnapshot

LEMMA ContentFields ==
    ASSUME NEW c \in Contents
    PROVE  c.snap \in Nat /\ c.att \in Nat /\ c.ok \in BOOLEAN
PROOF BY DEF Contents, Snapshots

LEMMA TypeInit == Init => TypeOK
PROOF BY CacheType DEF Init, TypeOK, Labels, NoSnapshot, Snapshots

\* The steps of the probe keep the types.
LEMMA ProbeType ==
    ASSUME TypeOK, NEW r \in Runs,
           Start(r) \/ RefuseToStart(r) \/ Probe(r) \/ ChildCloses(r) \/ GraceFires(r)
           \/ TimeoutFires(r) \/ Judge(r) \/ Crash(r)
    PROVE  TypeOK'
<1> USE DEF files, process, probe, history, Snapshots
<1>1. CASE Start(r)
  <2>1. overlapped' \subseteq Runs BY <1>1 DEF Start, TypeOK
  <2>2. attemptedAt' \in [Runs -> Nat] BY <1>1 DEF Start, TypeOK
  <2>3. child' \in [Runs -> {"none", "live", "zero", "nonzero"}] BY <1>1 DEF Start, TypeOK
  <2>4. pc' \in [Runs -> Labels] BY <1>1 DEF Start, TypeOK, Goto, Labels
  <2> QED BY <1>1, <2>1, <2>2, <2>3, <2>4 DEF Start, TypeOK
<1>2. CASE RefuseToStart(r)
  BY <1>2 DEF RefuseToStart, TypeOK, Goto, Labels
<1>3. CASE Probe(r)
  <2>1. CASE SpawnFails(r) BY <2>1 DEF SpawnFails, TypeOK, Goto, Labels
  <2>2. ASSUME NEW headers \in [Windows -> {"percent", "junk"}], Capture(r, headers)
        PROVE  TypeOK'
    <3>1. Parse(headers, clock + 1) \in Nat BY DEF Parse, TypeOK, NoSnapshot
    <3> QED BY <2>2, <3>1 DEF Capture, TypeOK
  <2>3. ASSUME NEW code \in {"zero", "nonzero"}, ChildExits(r, code)
        PROVE  TypeOK'
    BY <2>3 DEF ChildExits, TypeOK
  <2> QED BY <1>3, <2>1, <2>2, <2>3 DEF Probe
<1>4. CASE ChildCloses(r) BY <1>4 DEF ChildCloses, TypeOK, Goto, Labels
<1>5. CASE GraceFires(r)
  <2>1. child' \in [Runs -> {"none", "live", "zero", "nonzero"}] BY <1>5 DEF GraceFires, TypeOK
  <2>2. pc' \in [Runs -> Labels] BY <1>5 DEF GraceFires, TypeOK, Goto, Labels
  <2> QED BY <1>5, <2>1, <2>2 DEF GraceFires, TypeOK
<1>6. CASE TimeoutFires(r) BY <1>6 DEF TimeoutFires, TypeOK
<1>7. CASE Judge(r)
  <2>1. captured' \in [Runs -> Nat] BY <1>7 DEF Judge, TypeOK, NoSnapshot
  <2>2. pc' \in [Runs -> Labels] BY <1>7 DEF Judge, TypeOK, Goto, Labels
  <2> QED BY <1>7, <2>1, <2>2 DEF Judge, TypeOK
<1>8. CASE Crash(r)
  <2>1. pc' \in [Runs -> Labels] BY <1>8 DEF Crash, TypeOK, Goto, Labels
  <2>2. torn' \subseteq Runs BY <1>8 DEF Crash, TypeOK
  <2> QED BY <1>8, <2>1, <2>2 DEF Crash, TypeOK
<1> QED BY <1>1, <1>2, <1>3, <1>4, <1>5, <1>6, <1>7, <1>8

\* The steps on the files keep the types.
LEMMA FileType ==
    ASSUME TypeOK, NEW r \in Runs,
           ReadPrevious(r) \/ Stage(r) \/ RenameState(r) \/ RenameUsage(r) \/ RenameUsageFails(r)
           \/ Rollback(r) \/ Restore(r) \/ RollbackFails(r) \/ DiscardAttemptFile(r)
           \/ ReadState(r) \/ WriteState(r) \/ WriteMetrics(r)
    PROVE  TypeOK'
<1> USE DEF files, process, probe, history, Snapshots
<1>1. CASE ReadPrevious(r) BY <1>1 DEF ReadPrevious, TypeOK, Goto, Labels
<1>2. CASE Stage(r) BY <1>2 DEF Stage, TypeOK, Goto, Labels
<1>3. CASE RenameState(r)
  <2>1. stateFile' \in Contents
    <3>1. captured[r] \in Nat /\ 0 \in Nat BY DEF TypeOK
    <3>2. Cache(captured[r], 0, FALSE) \in Contents BY <3>1, CacheType
    <3> QED BY <1>3, <3>2 DEF RenameState, TypeOK
  <2>2. pc' \in [Runs -> Labels] BY <1>3 DEF RenameState, TypeOK, Goto, Labels
  <2> QED BY <1>3, <2>1, <2>2 DEF RenameState, TypeOK
<1>4. CASE RenameUsage(r) BY <1>4 DEF RenameUsage, TypeOK, Goto, Labels
<1>5. CASE RenameUsageFails(r) BY <1>5 DEF RenameUsageFails, TypeOK, Goto, Labels
<1>6. CASE Rollback(r)
  <2>1. stateFile' \in Contents BY <1>6, CacheType DEF Rollback
  <2>2. pc' \in [Runs -> Labels] BY <1>6 DEF Rollback, TypeOK, Goto, Labels
  <2> QED BY <1>6, <2>1, <2>2 DEF Rollback, TypeOK
<1>7. CASE Restore(r) BY <1>7 DEF Restore, TypeOK, Goto, Labels
<1>8. CASE RollbackFails(r) BY <1>8 DEF RollbackFails, TypeOK, Goto, Labels
<1>9. CASE DiscardAttemptFile(r)
  BY <1>9 DEF DiscardAttemptFile, TypeOK, Goto, Labels, NoSnapshot
<1>10. CASE ReadState(r)
  <2>1. pc' \in [Runs -> Labels] BY <1>10 DEF ReadState, TypeOK, Goto, Labels
  <2> QED BY <1>10, <2>1 DEF ReadState, TypeOK
<1>11. CASE WriteState(r)
  <2>1. stateFile' \in Contents
    <3>1. seen[r].snap \in Nat /\ attemptedAt[r] \in Nat /\ (r \in refreshed) \in BOOLEAN
      BY ContentFields DEF TypeOK
    <3>2. Cache(seen[r].snap, attemptedAt[r], r \in refreshed) \in Contents
      BY <3>1, CacheType, Zenon
    <3>3. stateFile' = Cache(seen[r].snap, attemptedAt[r], r \in refreshed) \/ stateFile' = stateFile
      BY <1>11, Zenon DEF WriteState
    <3> QED BY <3>2, <3>3, Zenon DEF TypeOK
  <2>2. pc' \in [Runs -> Labels] BY <1>11 DEF WriteState, TypeOK, Goto, Labels
  <2> QED BY <1>11, <2>1, <2>2 DEF WriteState, TypeOK
<1>12. CASE WriteMetrics(r)
  <2>1. probeProm' \in [att : Nat, ok : BOOLEAN]
    <3>1. attemptedAt[r] \in Nat /\ (r \in refreshed) \in BOOLEAN BY DEF TypeOK
    <3>2. \A a \in Nat, ok \in BOOLEAN : [att |-> a, ok |-> ok] \in [att : Nat, ok : BOOLEAN]
      OBVIOUS
    <3>3. [att |-> attemptedAt[r], ok |-> r \in refreshed] \in [att : Nat, ok : BOOLEAN]
      BY <3>1, <3>2, Zenon
    <3>4. probeProm' = [att |-> attemptedAt[r], ok |-> r \in refreshed] \/ probeProm' = probeProm
      BY <1>12, Zenon DEF WriteMetrics
    <3> QED BY <3>3, <3>4, Zenon DEF TypeOK
  <2>2. pc' \in [Runs -> Labels] BY <1>12 DEF WriteMetrics, TypeOK, Goto, Labels
  <2>3. failed' \subseteq Runs BY <1>12 DEF WriteMetrics, TypeOK
  <2> QED BY <1>12, <2>1, <2>2, <2>3 DEF WriteMetrics, TypeOK
<1> QED BY <1>1, <1>2, <1>3, <1>4, <1>5, <1>6, <1>7, <1>8, <1>9, <1>10, <1>11, <1>12

LEMMA TypeStep == TypeOK /\ [Next]_vars => TypeOK'
<1> SUFFICES ASSUME TypeOK, [Next]_vars PROVE TypeOK'
  OBVIOUS
<1>1. CASE UNCHANGED vars
  BY <1>1 DEF vars, files, process, probe, history, TypeOK
<1>2. ASSUME NEW r \in Runs,
             Start(r) \/ RefuseToStart(r) \/ Probe(r) \/ Step(r) \/ Crash(r)
      PROVE  TypeOK'
  BY <1>2, ProbeType, FileType DEF Step
<1> QED BY <1>1, <1>2 DEF Next

\* The variables keep their types.
THEOREM TypeCorrect == Spec => []TypeOK
PROOF BY TypeInit, TypeStep, PTL DEF Spec

-----------------------------------------------------------------------------
(* The end of a probe is the end of its child, so nothing answers late. *)

Settled ==
    \A r \in Runs :
        /\ pc[r] = "idle" => child[r] = "none" /\ attemptFile[r] = NoSnapshot
        /\ pc[r] \notin {"idle", "probing", "crashed"} => child[r] # "live"
        /\ pc[r] \in {"readState", "writeState", "metrics", "done"} => attemptFile[r] = NoSnapshot

\* What a step of run r leaves alone of the other runs.
LEMMA OthersKeep ==
    ASSUME TypeOK, NEW r \in Runs, NEW q \in Runs, q # r,
           Start(r) \/ RefuseToStart(r) \/ Probe(r) \/ Step(r) \/ Crash(r)
    PROVE  /\ pc'[q] = pc[q] /\ child'[q] = child[q] /\ attemptFile'[q] = attemptFile[q]
           /\ captured'[q] = captured[q] /\ seen'[q] = seen[q]
           /\ (q \in timedOut') = (q \in timedOut) /\ (q \in warned') = (q \in warned)
<1> USE DEF files, process, probe, history, Goto, TypeOK
<1>1. CASE Start(r) BY <1>1 DEF Start
<1>2. CASE RefuseToStart(r) BY <1>2 DEF RefuseToStart
<1>3. CASE Probe(r) BY <1>3 DEF Probe, SpawnFails, Capture, ChildExits
<1>4. CASE ChildCloses(r) \/ GraceFires(r) \/ TimeoutFires(r) \/ Judge(r)
  BY <1>4 DEF ChildCloses, GraceFires, TimeoutFires, Judge
<1>5. CASE ReadPrevious(r) \/ Stage(r) \/ RenameState(r) \/ RenameUsage(r) \/ RenameUsageFails(r)
  BY <1>5 DEF ReadPrevious, Stage, RenameState, RenameUsage, RenameUsageFails
<1>6. CASE Rollback(r) \/ Restore(r) \/ RollbackFails(r)
  BY <1>6 DEF Rollback, Restore, RollbackFails
<1>7. CASE DiscardAttemptFile(r) \/ ReadState(r) \/ WriteState(r) \/ WriteMetrics(r)
  BY <1>7 DEF DiscardAttemptFile, ReadState, WriteState, WriteMetrics
<1>8. CASE Crash(r) BY <1>8 DEF Crash
<1> QED BY <1>1, <1>2, <1>3, <1>4, <1>5, <1>6, <1>7, <1>8 DEF Step

LEMMA SettledStep == TypeOK /\ Settled /\ [Next]_vars => Settled'
<1> SUFFICES ASSUME TypeOK, Settled, [Next]_vars PROVE Settled'
  OBVIOUS
<1>1. CASE UNCHANGED vars
  BY <1>1 DEF vars, probe, Settled
<1>2. ASSUME NEW r \in Runs, Start(r) \/ RefuseToStart(r) \/ Probe(r) \/ Step(r) \/ Crash(r)
      PROVE  Settled'
  <2> DEFINE Part(q) ==
        /\ pc[q] = "idle" => child[q] = "none" /\ attemptFile[q] = NoSnapshot
        /\ pc[q] \notin {"idle", "probing", "crashed"} => child[q] # "live"
        /\ pc[q] \in {"readState", "writeState", "metrics", "done"} => attemptFile[q] = NoSnapshot
  <2>1. ASSUME NEW q \in Runs, q # r PROVE Part(q)'
    BY <1>2, <2>1, OthersKeep DEF Settled
  <2>2. Part(r)'
    <3> USE DEF files, process, probe, history, Goto, TypeOK, Settled
    <3>1. CASE Start(r) BY <3>1 DEF Start
    <3>2. CASE RefuseToStart(r) BY <3>2 DEF RefuseToStart
    <3>3. CASE Probe(r) BY <3>3 DEF Probe, SpawnFails, Capture, ChildExits
    <3>4. CASE ChildCloses(r) \/ GraceFires(r) \/ TimeoutFires(r) \/ Judge(r)
      BY <3>4 DEF ChildCloses, GraceFires, TimeoutFires, Judge
    <3>5. CASE ReadPrevious(r) \/ Stage(r) \/ RenameState(r) \/ RenameUsage(r) \/ RenameUsageFails(r)
      BY <3>5 DEF ReadPrevious, Stage, RenameState, RenameUsage, RenameUsageFails
    <3>6. CASE Rollback(r) \/ Restore(r) \/ RollbackFails(r)
      BY <3>6 DEF Rollback, Restore, RollbackFails
    <3>7. CASE DiscardAttemptFile(r) \/ ReadState(r) \/ WriteState(r) \/ WriteMetrics(r)
      BY <3>7 DEF DiscardAttemptFile, ReadState, WriteState, WriteMetrics
    <3>8. CASE Crash(r) BY <3>8 DEF Crash
    <3> QED BY <1>2, <3>1, <3>2, <3>3, <3>4, <3>5, <3>6, <3>7, <3>8 DEF Step
  <2>3. \A q \in Runs : Part(q)' BY <2>1, <2>2
  <2> QED BY <2>3 DEF Settled
<1> QED BY <1>1, <1>2 DEF Next

LEMMA SettledCorrect == Spec => []Settled
<1>1. Init => Settled BY DEF Init, Settled
<1> QED BY <1>1, SettledStep, TypeCorrect, PTL DEF Spec

\* A run that went to its end leaves no attempt file, however late its probe
\* would have answered.
THEOREM NoLateAnswer == Spec => []AttemptFilesAreDiscarded
<1>1. Settled => AttemptFilesAreDiscarded BY DEF Settled, AttemptFilesAreDiscarded
<1> QED BY <1>1, SettledCorrect, PTL

-----------------------------------------------------------------------------
(* Only what a clean probe captured is ever written. *)

CleanInv ==
    /\ \A r \in Runs : captured[r] # NoSnapshot =>
          Clean(r) /\ pc[r] \notin {"idle", "probing", "probed"}
    /\ \A r \in Runs : seen[r].snap \in CleanSnapshots
    /\ OnlyCleanProbesShow

LEMMA CleanMember ==
    \A s : s \in CleanSnapshots <=>
        s = NoSnapshot \/ \E r \in Runs : Clean(r) /\ captured[r] = s
PROOF BY DEF CleanSnapshots

\* What run r captured stays captured, and its probe stays clean.
LEMMA CapturedOnce ==
    ASSUME TypeOK, CleanInv, NEW r \in Runs,
           Start(r) \/ RefuseToStart(r) \/ Probe(r) \/ Step(r) \/ Crash(r)
    PROVE  /\ captured[r] # NoSnapshot => captured'[r] = captured[r]
           /\ captured'[r] # NoSnapshot =>
                 Clean(r)' /\ pc'[r] \notin {"idle", "probing", "probed"}
<1> USE DEF files, process, probe, history, Goto, TypeOK, CleanInv, Clean
<1>1. CASE Start(r) BY <1>1 DEF Start
<1>2. CASE RefuseToStart(r) BY <1>2 DEF RefuseToStart
<1>3. CASE Probe(r) BY <1>3 DEF Probe, SpawnFails, Capture, ChildExits
<1>4. CASE ChildCloses(r) \/ GraceFires(r) \/ TimeoutFires(r) \/ Judge(r)
  BY <1>4 DEF ChildCloses, GraceFires, TimeoutFires, Judge, ProbeSucceeded
<1>5. CASE ReadPrevious(r) \/ Stage(r) \/ RenameState(r) \/ RenameUsage(r) \/ RenameUsageFails(r)
  BY <1>5 DEF ReadPrevious, Stage, RenameState, RenameUsage, RenameUsageFails
<1>6. CASE Rollback(r) \/ Restore(r) \/ RollbackFails(r)
  BY <1>6 DEF Rollback, Restore, RollbackFails
<1>7. CASE DiscardAttemptFile(r) \/ ReadState(r) \/ WriteState(r) \/ WriteMetrics(r)
  BY <1>7 DEF DiscardAttemptFile, ReadState, WriteState, WriteMetrics
<1>8. CASE Crash(r) BY <1>8 DEF Crash
<1> QED BY <1>1, <1>2, <1>3, <1>4, <1>5, <1>6, <1>7, <1>8 DEF Step

\* Where what a step writes, or reads, comes from.
LEMMA Sources ==
    ASSUME TypeOK, NEW r \in Runs,
           Start(r) \/ RefuseToStart(r) \/ Probe(r) \/ Step(r) \/ Crash(r)
    PROVE  /\ stateFile'.snap \in {stateFile.snap, captured[r], seen[r].snap, NoSnapshot}
           /\ usageProm' \in {usageProm, captured[r]}
           /\ seen'[r].snap \in {seen[r].snap, stateFile.snap}
<1> USE DEF files, process, probe, history, Goto, TypeOK
<1>1. CASE Start(r) BY <1>1 DEF Start
<1>2. CASE RefuseToStart(r) BY <1>2 DEF RefuseToStart
<1>3. CASE Probe(r) BY <1>3 DEF Probe, SpawnFails, Capture, ChildExits
<1>4. CASE ChildCloses(r) \/ GraceFires(r) \/ TimeoutFires(r) \/ Judge(r)
  BY <1>4 DEF ChildCloses, GraceFires, TimeoutFires, Judge
<1>5. CASE ReadPrevious(r) \/ Stage(r) \/ RenameState(r) \/ RenameUsage(r) \/ RenameUsageFails(r)
  BY <1>5 DEF ReadPrevious, Stage, RenameState, RenameUsage, RenameUsageFails, Cache
<1>6. CASE Rollback(r) \/ Restore(r) \/ RollbackFails(r)
  BY <1>6 DEF Rollback, Restore, RollbackFails, Absent, Malformed
<1>7. CASE DiscardAttemptFile(r) \/ ReadState(r) \/ WriteState(r) \/ WriteMetrics(r)
  BY <1>7 DEF DiscardAttemptFile, ReadState, WriteState, WriteMetrics, Cache
<1>8. CASE Crash(r) BY <1>8 DEF Crash
<1> QED BY <1>1, <1>2, <1>3, <1>4, <1>5, <1>6, <1>7, <1>8 DEF Step

LEMMA CleanStep == TypeOK /\ CleanInv /\ [Next]_vars => CleanInv'
<1> SUFFICES ASSUME TypeOK, CleanInv, [Next]_vars PROVE CleanInv'
  OBVIOUS
<1>1. CASE UNCHANGED vars
  BY <1>1 DEF vars, files, process, probe, CleanInv, Clean, CleanSnapshots, OnlyCleanProbesShow
<1>2. ASSUME NEW r \in Runs, Start(r) \/ RefuseToStart(r) \/ Probe(r) \/ Step(r) \/ Crash(r)
      PROVE  CleanInv'
  <2>1. \A q \in Runs : captured'[q] # NoSnapshot =>
            Clean(q)' /\ pc'[q] \notin {"idle", "probing", "probed"}
    <3> SUFFICES ASSUME NEW q \in Runs, captured'[q] # NoSnapshot
                 PROVE  Clean(q)' /\ pc'[q] \notin {"idle", "probing", "probed"}
      OBVIOUS
    <3>1. CASE q = r BY <1>2, <3>1, CapturedOnce
    <3>2. CASE q # r BY <1>2, <3>2, OthersKeep DEF CleanInv, Clean
    <3> QED BY <3>1, <3>2
  <2>2. \A q \in Runs : captured[q] # NoSnapshot => captured'[q] = captured[q]
    BY <1>2, CapturedOnce, OthersKeep
  <2>3. \A s : s \in CleanSnapshots => s \in CleanSnapshots'
    <3> SUFFICES ASSUME NEW s, s \in CleanSnapshots, s # NoSnapshot
                 PROVE  s \in CleanSnapshots'
      BY DEF CleanSnapshots
    <3>1. PICK q \in Runs : Clean(q) /\ captured[q] = s BY CleanMember
    <3>2. captured'[q] = s /\ Clean(q)' BY <3>1, <2>1, <2>2
    <3> QED BY <3>2 DEF CleanSnapshots
  <2>4. captured[r] \in CleanSnapshots /\ NoSnapshot \in CleanSnapshots
    BY CleanMember DEF CleanInv
  <2>5. OnlyCleanProbesShow'
    BY <1>2, <2>3, <2>4, Sources DEF CleanInv, OnlyCleanProbesShow
  <2>6. \A q \in Runs : seen'[q].snap \in CleanSnapshots'
    BY <1>2, <2>3, <2>4, Sources, OthersKeep DEF CleanInv, OnlyCleanProbesShow
  <2> QED BY <2>1, <2>5, <2>6 DEF CleanInv
<1> QED BY <1>1, <1>2 DEF Next

LEMMA CleanCorrect == Spec => []CleanInv
<1>1. Init => CleanInv
  BY CleanMember DEF Init, CleanInv, OnlyCleanProbesShow, Absent, NoSnapshot
<1> QED BY <1>1, CleanStep, TypeCorrect, PTL DEF Spec

\* Whatever overlaps, dies or is rolled back, only the snapshot of a probe that
\* exited cleanly and in time is ever shown.
THEOREM OnlyClean == Spec => []OnlyCleanProbesShow
<1>1. CleanInv => OnlyCleanProbesShow BY DEF CleanInv
<1> QED BY <1>1, CleanCorrect, PTL

-----------------------------------------------------------------------------
(* Runs that do not overlap keep the two files together. *)

Midway == {"renameUsage", "rollback", "restore"}

Alone ==
    overlapped = {} => \A q, s \in Runs : Active(q) /\ Active(s) => q = s

AbsentIsEmpty ==
    /\ stateFile.kind = "absent" => stateFile.snap = NoSnapshot
    /\ \A r \in Runs : seen[r].kind = "absent" => seen[r].snap = NoSnapshot

\* What run q relies on between reading the cache and writing it.
Plans(q) ==
    /\ pc[q] \in {"stage", "renameState"} \cup Midway =>
          seen[q].snap = lastGood /\ seen[q].kind # "malformed"
    /\ pc[q] = "writeState" => seen[q].snap = lastGood
    /\ pc[q] = "renameUsage" => stateFile.snap = captured[q]

Together ==
    overlapped = {} /\ torn = {} =>
        /\ usageProm = lastGood
        /\ (\A q \in Runs : pc[q] \notin Midway) => stateFile.snap = lastGood
        /\ stateFile.kind = "malformed" => \E q \in Runs : pc[q] = "restore"
        /\ \A q \in Runs : Plans(q)

AloneInv == Alone /\ AbsentIsEmpty /\ Together

\* Only Start makes a run active.
LEMMA ActiveBefore ==
    ASSUME TypeOK, NEW r \in Runs, RefuseToStart(r) \/ Probe(r) \/ Step(r) \/ Crash(r), Active(r)'
    PROVE  Active(r)
<1> USE DEF Active, Goto, TypeOK
<1>1. CASE RefuseToStart(r) BY <1>1 DEF RefuseToStart
<1>2. CASE Probe(r) BY <1>2 DEF Probe, SpawnFails, Capture, ChildExits
<1>3. CASE ChildCloses(r) \/ GraceFires(r) \/ TimeoutFires(r) \/ Judge(r)
  BY <1>3 DEF ChildCloses, GraceFires, TimeoutFires, Judge
<1>4. CASE ReadPrevious(r) \/ Stage(r) \/ RenameState(r) \/ RenameUsage(r) \/ RenameUsageFails(r)
  BY <1>4 DEF ReadPrevious, Stage, RenameState, RenameUsage, RenameUsageFails
<1>5. CASE Rollback(r) \/ Restore(r) \/ RollbackFails(r)
  BY <1>5 DEF Rollback, Restore, RollbackFails
<1>6. CASE DiscardAttemptFile(r) \/ ReadState(r) \/ WriteState(r) \/ WriteMetrics(r)
  BY <1>6 DEF DiscardAttemptFile, ReadState, WriteState, WriteMetrics
<1>7. CASE Crash(r) BY <1>7 DEF Crash
<1> QED BY <1>1, <1>2, <1>3, <1>4, <1>5, <1>6, <1>7 DEF Step

\* The histories grow, and only Start changes overlapped.
LEMMA Histories ==
    ASSUME TypeOK, NEW r \in Runs, RefuseToStart(r) \/ Probe(r) \/ Step(r) \/ Crash(r)
    PROVE  overlapped' = overlapped /\ (torn' = {} => torn = {})
<1> USE DEF history
<1>1. CASE RefuseToStart(r) BY <1>1 DEF RefuseToStart
<1>2. CASE Probe(r) BY <1>2 DEF Probe, SpawnFails, Capture, ChildExits
<1>3. CASE ChildCloses(r) \/ GraceFires(r) \/ TimeoutFires(r) \/ Judge(r)
  BY <1>3 DEF ChildCloses, GraceFires, TimeoutFires, Judge
<1>4. CASE ReadPrevious(r) \/ Stage(r) \/ RenameState(r) \/ RenameUsage(r) \/ RenameUsageFails(r)
  BY <1>4 DEF ReadPrevious, Stage, RenameState, RenameUsage, RenameUsageFails
<1>5. CASE Rollback(r) \/ Restore(r) \/ RollbackFails(r)
  BY <1>5 DEF Rollback, Restore, RollbackFails
<1>6. CASE DiscardAttemptFile(r) \/ ReadState(r) \/ WriteState(r) \/ WriteMetrics(r)
  BY <1>6 DEF DiscardAttemptFile, ReadState, WriteState, WriteMetrics
<1>7. CASE Crash(r) BY <1>7 DEF Crash
<1> QED BY <1>1, <1>2, <1>3, <1>4, <1>5, <1>6, <1>7 DEF Step

LEMMA AloneStep ==
    ASSUME TypeOK, Alone, NEW r \in Runs,
           Start(r) \/ RefuseToStart(r) \/ Probe(r) \/ Step(r) \/ Crash(r)
    PROVE  Alone'
<1>1. CASE Start(r)
  <2> SUFFICES ASSUME overlapped' = {}, NEW q \in Runs, NEW s \in Runs, Active(q)', Active(s)'
               PROVE  q = s
    BY DEF Alone
  <2>1. {x \in Runs \ {r} : Active(x)} = {} BY <1>1 DEF Start
  <2>2. \A x \in Runs \ {r} : Active(x)' = Active(x) BY <1>1, OthersKeep DEF Active
  <2> QED BY <2>1, <2>2
<1>2. CASE RefuseToStart(r) \/ Probe(r) \/ Step(r) \/ Crash(r)
  <2>1. \A x \in Runs : Active(x)' => Active(x)
    BY <1>2, ActiveBefore, OthersKeep DEF Active
  <2>2. overlapped' = overlapped BY <1>2, Histories
  <2> QED BY <2>1, <2>2 DEF Alone
<1> QED BY <1>1, <1>2

LEMMA AbsentStep ==
    ASSUME TypeOK, AbsentIsEmpty, NEW r \in Runs,
           Start(r) \/ RefuseToStart(r) \/ Probe(r) \/ Step(r) \/ Crash(r)
    PROVE  AbsentIsEmpty'
<1>1. /\ stateFile' \in {stateFile, seen[r], Absent, Malformed} \/ stateFile'.kind = "cache"
      /\ seen'[r] \in {seen[r], stateFile}
  <2> USE DEF files, process, probe, history, TypeOK
  <2>1. CASE Start(r) BY <2>1 DEF Start
  <2>2. CASE RefuseToStart(r) BY <2>2 DEF RefuseToStart
  <2>3. CASE Probe(r) BY <2>3 DEF Probe, SpawnFails, Capture, ChildExits
  <2>4. CASE ChildCloses(r) \/ GraceFires(r) \/ TimeoutFires(r) \/ Judge(r)
    BY <2>4 DEF ChildCloses, GraceFires, TimeoutFires, Judge
  <2>5. CASE ReadPrevious(r) \/ Stage(r) \/ RenameState(r) \/ RenameUsage(r) \/ RenameUsageFails(r)
    BY <2>5 DEF ReadPrevious, Stage, RenameState, RenameUsage, RenameUsageFails, Cache
  <2>6. CASE Rollback(r) \/ Restore(r) \/ RollbackFails(r)
    BY <2>6 DEF Rollback, Restore, RollbackFails
  <2>7. CASE DiscardAttemptFile(r) \/ ReadState(r) \/ WriteState(r) \/ WriteMetrics(r)
    BY <2>7 DEF DiscardAttemptFile, ReadState, WriteState, WriteMetrics, Cache
  <2>8. CASE Crash(r) BY <2>8 DEF Crash
  <2> QED BY <2>1, <2>2, <2>3, <2>4, <2>5, <2>6, <2>7, <2>8 DEF Step
<1>2. \A q \in Runs : q # r => seen'[q] = seen[q] BY OthersKeep
<1> QED BY <1>1, <1>2 DEF AbsentIsEmpty, Absent, Malformed

\* Steps that touch neither the files nor a plan.
LEMMA TogetherElsewhere ==
    ASSUME TypeOK, Settled, Together, NEW r \in Runs,
           \/ Start(r) \/ RefuseToStart(r) \/ Probe(r) \/ ChildCloses(r) \/ GraceFires(r)
           \/ TimeoutFires(r) \/ Judge(r) \/ DiscardAttemptFile(r) \/ WriteMetrics(r)
    PROVE  Together'
<1>1. /\ stateFile' = stateFile /\ usageProm' = usageProm /\ lastGood' = lastGood
      /\ torn' = torn /\ (overlapped' = {} => overlapped = {}) /\ seen' = seen
      /\ pc[r] \notin {"stage", "renameState", "writeState"} \cup Midway
      /\ pc'[r] \notin {"stage", "renameState", "writeState"} \cup Midway
  <2> USE DEF files, process, probe, history, TypeOK, Goto, Midway
  <2>1. CASE Start(r) BY <2>1 DEF Start
  <2>2. CASE RefuseToStart(r) BY <2>2 DEF RefuseToStart
  <2>3. CASE Probe(r) BY <2>3 DEF Probe, SpawnFails, Capture, ChildExits, Settled
  <2>4. CASE ChildCloses(r) \/ GraceFires(r) \/ TimeoutFires(r) \/ Judge(r)
    <3>1. pc[r] \in {"probing", "probed"}
      BY <2>4 DEF ChildCloses, GraceFires, TimeoutFires, Judge
    <3>2. pc'[r] \in {"probing", "probed", "plan", "discard"}
      BY <2>4 DEF ChildCloses, GraceFires, TimeoutFires, Judge
    <3> QED BY <2>4, <3>1, <3>2 DEF ChildCloses, GraceFires, TimeoutFires, Judge
  <2>5. CASE DiscardAttemptFile(r) \/ WriteMetrics(r)
    BY <2>5 DEF DiscardAttemptFile, WriteMetrics
  <2> QED BY <2>1, <2>2, <2>3, <2>4, <2>5
<1>2. \A q \in Runs : q # r => pc'[q] = pc[q] /\ captured'[q] = captured[q]
  BY OthersKeep DEF Step
<1> QED BY <1>1, <1>2 DEF Together, Plans, Midway

\* The steps of an active run, which without overlap is the only one.
LEMMA TogetherStep ==
    ASSUME TypeOK, Alone, AbsentIsEmpty, Together, NEW r \in Runs,
           \/ ReadPrevious(r) \/ Stage(r) \/ RenameState(r) \/ RenameUsage(r)
           \/ RenameUsageFails(r) \/ Rollback(r) \/ Restore(r) \/ RollbackFails(r)
           \/ ReadState(r) \/ WriteState(r) \/ Crash(r)
    PROVE  Together'
<1> SUFFICES ASSUME overlapped' = {}, torn' = {}
             PROVE  /\ usageProm' = lastGood'
                    /\ (\A q \in Runs : pc'[q] \notin Midway) => stateFile'.snap = lastGood'
                    /\ stateFile'.kind = "malformed" => \E q \in Runs : pc'[q] = "restore"
                    /\ \A q \in Runs : Plans(q)'
  BY DEF Together
<1>1. overlapped = {} /\ torn = {} BY Histories DEF Step
<1>2. Active(r)
  BY DEF Active, ReadPrevious, Stage, RenameState, RenameUsage, RenameUsageFails, Rollback,
         Restore, RollbackFails, ReadState, WriteState, Crash
<1>3. \A q \in Runs : q # r => pc[q] \in {"idle", "done", "crashed"}
  BY <1>1, <1>2 DEF Alone, Active
<1>4. \A q \in Runs : q # r => pc'[q] \in {"idle", "done", "crashed"} /\ Plans(q)'
  BY <1>3, OthersKeep DEF Step, Plans, Midway
<1>5. pc \in [Runs -> Labels] /\ seen \in [Runs -> Contents] BY DEF TypeOK
<1> USE <1>1 DEF Together, Goto, Midway, files, process, probe, history
<1>6. CASE ReadPrevious(r)
  <2>1. stateFile.snap = lastGood /\ stateFile.kind # "malformed"
    BY <1>3, <1>6 DEF ReadPrevious
  <2>2. Plans(r)' BY <1>5, <1>6, <2>1 DEF ReadPrevious, Plans
  <2> QED BY <1>4, <1>5, <1>6, <2>1, <2>2 DEF ReadPrevious
<1>7. CASE Stage(r)
  <2>1. stateFile.snap = lastGood /\ stateFile.kind # "malformed"
    BY <1>3, <1>7 DEF Stage
  <2>2. Plans(r)' BY <1>5, <1>7 DEF Stage, Plans
  <2> QED BY <1>4, <1>5, <1>7, <2>1, <2>2 DEF Stage
<1>8. CASE RenameState(r)
  <2>1. stateFile.snap = lastGood /\ stateFile.kind # "malformed"
    BY <1>3, <1>8 DEF RenameState
  <2>2. Plans(r)' BY <1>5, <1>8 DEF RenameState, Plans, Cache
  <2> QED BY <1>4, <1>5, <1>8, <2>1, <2>2 DEF RenameState, Cache
<1>9. CASE RenameUsage(r)
  <2>1. stateFile.snap = captured[r] /\ stateFile.kind # "malformed"
    BY <1>3, <1>9 DEF RenameUsage, Plans
  <2>2. Plans(r)' BY <1>5, <1>9 DEF RenameUsage, Plans
  <2> QED BY <1>4, <1>5, <1>9, <2>1, <2>2 DEF RenameUsage
<1>10. CASE RenameUsageFails(r)
  <2>1. stateFile.kind # "malformed" BY <1>3, <1>10 DEF RenameUsageFails
  <2>2. Plans(r)' BY <1>5, <1>10 DEF RenameUsageFails, Plans
  <2> QED BY <1>4, <1>5, <1>10, <2>1, <2>2 DEF RenameUsageFails
<1>11. CASE Rollback(r)
  <2>1. seen[r].snap = lastGood /\ seen[r].kind # "malformed" BY <1>11 DEF Rollback, Plans
  <2>2. CASE seen[r].kind = "absent"
    <3>1. stateFile' = Absent /\ lastGood = NoSnapshot /\ pc' = [pc EXCEPT ![r] = "discard"]
      BY <1>11, <2>1, <2>2 DEF Rollback, AbsentIsEmpty
    <3>2. Plans(r)' BY <1>5, <3>1 DEF Plans
    <3> QED BY <1>4, <1>11, <3>1, <3>2 DEF Rollback, Absent
  <2>3. CASE seen[r].kind # "absent"
    <3>1. pc' = [pc EXCEPT ![r] = "restore"] BY <1>11, <2>3 DEF Rollback
    <3>2. pc'[r] = "restore" BY <1>5, <3>1
    <3>3. Plans(r)' BY <1>11, <2>1, <3>2 DEF Plans, Rollback
    <3> QED BY <1>4, <1>11, <3>2, <3>3 DEF Rollback
  <2> QED BY <2>2, <2>3
<1>12. CASE Restore(r)
  <2>1. seen[r].snap = lastGood /\ seen[r].kind # "malformed" BY <1>12 DEF Restore, Plans
  <2>2. Plans(r)' BY <1>5, <1>12 DEF Restore, Plans
  <2> QED BY <1>4, <1>5, <1>12, <2>1, <2>2 DEF Restore
<1>13. CASE RollbackFails(r) BY <1>13 DEF RollbackFails
<1>14. CASE ReadState(r)
  <2>1. stateFile.snap = lastGood /\ stateFile.kind # "malformed" BY <1>3, <1>14 DEF ReadState
  <2>2. Plans(r)' BY <1>5, <1>14, <2>1 DEF ReadState, Plans
  <2> QED BY <1>4, <1>5, <1>14, <2>1, <2>2 DEF ReadState
<1>15. CASE WriteState(r)
  <2>1. stateFile.snap = lastGood /\ stateFile.kind # "malformed" BY <1>3, <1>15 DEF WriteState
  <2>2. seen[r].snap = lastGood BY <1>15 DEF WriteState, Plans
  <2>3. stateFile'.snap = lastGood /\ stateFile'.kind # "malformed"
    BY <1>15, <2>1, <2>2 DEF WriteState, Cache
  <2>4. Plans(r)' BY <1>5, <1>15 DEF WriteState, Plans
  <2> QED BY <1>4, <1>15, <2>3, <2>4 DEF WriteState
<1>16. CASE Crash(r)
  <2>1. pc[r] \notin Midway BY <1>16 DEF Crash
  <2>2. stateFile.snap = lastGood /\ stateFile.kind # "malformed" BY <1>3, <2>1
  <2>3. Plans(r)' BY <1>5, <1>16 DEF Crash, Plans
  <2> QED BY <1>4, <1>16, <2>2, <2>3 DEF Crash
<1> QED BY <1>6, <1>7, <1>8, <1>9, <1>10, <1>11, <1>12, <1>13, <1>14, <1>15, <1>16

LEMMA AloneInvStep == TypeOK /\ Settled /\ AloneInv /\ [Next]_vars => AloneInv'
<1> SUFFICES ASSUME TypeOK, Settled, AloneInv, [Next]_vars PROVE AloneInv'
  OBVIOUS
<1>1. CASE UNCHANGED vars
  BY <1>1 DEF vars, files, process, history, AloneInv, Alone, Active, AbsentIsEmpty, Together,
              Plans
<1>2. ASSUME NEW r \in Runs, Start(r) \/ RefuseToStart(r) \/ Probe(r) \/ Step(r) \/ Crash(r)
      PROVE  AloneInv'
  <2>1. Alone' /\ AbsentIsEmpty' BY <1>2, AloneStep, AbsentStep DEF AloneInv
  <2>2. Together' BY <1>2, TogetherElsewhere, TogetherStep DEF AloneInv, Step
  <2> QED BY <2>1, <2>2 DEF AloneInv
<1> QED BY <1>1, <1>2 DEF Next

LEMMA AloneCorrect == Spec => []AloneInv
<1>1. Init => AloneInv
  BY DEF Init, AloneInv, Alone, Active, AbsentIsEmpty, Together, Plans, Midway, Absent, NoSnapshot
<1> QED BY <1>1, AloneInvStep, SettledCorrect, TypeCorrect, PTL DEF Spec

\* Between runs that did not overlap, both files show what was promoted last.
THEOREM LastGoodIsShown == Spec => []CacheIsLastGood
<1>1. AloneInv => CacheIsLastGood
  BY DEF AloneInv, Together, CacheIsLastGood, Quiet, Active, Midway
<1> QED BY <1>1, AloneCorrect, PTL

\* Without overlap, only a rollback, or one that was cut short, leaves the
\* cache malformed.
THEOREM MalformedIsRollback == Spec => []MalformedOnlyInRollback
<1>1. AloneInv => MalformedOnlyInRollback
  BY DEF AloneInv, Together, MalformedOnlyInRollback
<1> QED BY <1>1, AloneCorrect, PTL

-----------------------------------------------------------------------------
(* What a successful run that met no other has written stays until the next *)
(* run starts.                                                              *)

\* Every time is drawn from the clock, an answer after the attempt it answers.
Timed ==
    \A r \in Runs :
        /\ attemptedAt[r] <= clock
        /\ pc[r] = "idle" => attemptedAt[r] = 0
        /\ attemptFile[r] # NoSnapshot => attemptedAt[r] < attemptFile[r]
        /\ captured[r] # NoSnapshot => attemptedAt[r] < captured[r]

\* When a run is active, every other one that met none is over, or yet to
\* come, and did not start after it.
StartedLast ==
    \A r, q \in Runs : Active(r) /\ q # r /\ q \notin overlapped =>
        ~Active(q) /\ attemptedAt[q] < attemptedAt[r]

Latest(r) == \A s \in Runs : attemptedAt[s] <= attemptedAt[r]

Shown(r) == stateFile.kind = "cache" /\ stateFile.snap = captured[r] /\ usageProm = captured[r]

Recorded(r) == stateFile = Cache(captured[r], attemptedAt[r], TRUE) /\ usageProm = captured[r]

\* What a run that has promoted its snapshot, and met no other, may rely on until
\* it ends, and what is true of it then until another one starts.
Kept(r) ==
    /\ r \in refreshed =>
          /\ captured[r] # NoSnapshot
          /\ pc[r] \in {"discard", "readState", "writeState", "metrics", "done", "crashed"}
    /\ pc[r] \in {"plan", "stage", "renameState"} \cup Midway => captured[r] # NoSnapshot
    /\ pc[r] = "done" /\ r \notin failed => r \in refreshed
    /\ r \notin overlapped /\ r \in refreshed =>
          /\ pc[r] \in {"discard", "readState"} => Shown(r)
          /\ pc[r] = "writeState" => Shown(r) /\ seen[r].snap = captured[r]
          /\ pc[r] = "metrics" /\ r \notin failed => Recorded(r)
          /\ pc[r] = "done" /\ r \notin failed /\ Latest(r) =>
                Recorded(r) /\ probeProm = [att |-> attemptedAt[r], ok |-> TRUE]
    /\ pc[r] = "renameUsage" /\ r \notin overlapped =>
          stateFile.kind = "cache" /\ stateFile.snap = captured[r]

WholeInv == Timed /\ StartedLast /\ \A r \in Runs : Kept(r)

\* The records of other runs, and the clock.
LEMMA OthersRecord ==
    ASSUME TypeOK, NEW r \in Runs, NEW q \in Runs, q # r,
           Start(r) \/ RefuseToStart(r) \/ Probe(r) \/ Step(r) \/ Crash(r)
    PROVE  /\ attemptedAt'[q] = attemptedAt[q]
           /\ (q \in refreshed') = (q \in refreshed) /\ (q \in failed') = (q \in failed)
<1> USE DEF files, process, probe, history, TypeOK
<1>1. CASE Start(r) BY <1>1 DEF Start
<1>2. CASE RefuseToStart(r) BY <1>2 DEF RefuseToStart
<1>3. CASE Probe(r) BY <1>3 DEF Probe, SpawnFails, Capture, ChildExits
<1>4. CASE ChildCloses(r) \/ GraceFires(r) \/ TimeoutFires(r) \/ Judge(r)
  BY <1>4 DEF ChildCloses, GraceFires, TimeoutFires, Judge
<1>5. CASE ReadPrevious(r) \/ Stage(r) \/ RenameState(r) \/ RenameUsage(r) \/ RenameUsageFails(r)
  <2>1. CASE ReadPrevious(r) \/ Stage(r) \/ RenameState(r) \/ RenameUsageFails(r)
    BY <2>1 DEF ReadPrevious, Stage, RenameState, RenameUsageFails
  <2>2. CASE RenameUsage(r) BY <2>2 DEF RenameUsage
  <2> QED BY <1>5, <2>1, <2>2
<1>6. CASE Rollback(r) \/ Restore(r) \/ RollbackFails(r)
  BY <1>6 DEF Rollback, Restore, RollbackFails
<1>7. CASE DiscardAttemptFile(r) \/ ReadState(r) \/ WriteState(r) \/ WriteMetrics(r)
  BY <1>7 DEF DiscardAttemptFile, ReadState, WriteState, WriteMetrics
<1>8. CASE Crash(r) BY <1>8 DEF Crash
<1> QED BY <1>1, <1>2, <1>3, <1>4, <1>5, <1>6, <1>7, <1>8 DEF Step

\* Only Start stamps a run, and the clock never runs back.
LEMMA StampedOnce ==
    ASSUME TypeOK, NEW r \in Runs,
           RefuseToStart(r) \/ Probe(r) \/ Step(r) \/ Crash(r)
    PROVE  clock <= clock' /\ attemptedAt' = attemptedAt
<1>0. clock \in Nat BY DEF TypeOK
<1> USE <1>0 DEF process
<1>2. CASE RefuseToStart(r) BY <1>2 DEF RefuseToStart
<1>3. CASE Probe(r) BY <1>3 DEF Probe, SpawnFails, Capture, ChildExits
<1>4. CASE ChildCloses(r) \/ GraceFires(r) \/ TimeoutFires(r) \/ Judge(r)
  BY <1>4 DEF ChildCloses, GraceFires, TimeoutFires, Judge
<1>5. CASE ReadPrevious(r) \/ Stage(r) \/ RenameState(r) \/ RenameUsage(r) \/ RenameUsageFails(r)
  <2>1. CASE ReadPrevious(r) BY <2>1 DEF ReadPrevious
  <2>2. CASE Stage(r) BY <2>2 DEF Stage
  <2>3. CASE RenameState(r) BY <2>3 DEF RenameState
  <2>4. CASE RenameUsage(r) BY <2>4 DEF RenameUsage
  <2>5. CASE RenameUsageFails(r) BY <2>5 DEF RenameUsageFails
  <2> QED BY <1>5, <2>1, <2>2, <2>3, <2>4, <2>5
<1>6. CASE Rollback(r) \/ Restore(r) \/ RollbackFails(r)
  BY <1>6 DEF Rollback, Restore, RollbackFails
<1>7. CASE DiscardAttemptFile(r) \/ ReadState(r) \/ WriteState(r) \/ WriteMetrics(r)
  BY <1>7 DEF DiscardAttemptFile, ReadState, WriteState, WriteMetrics
<1>8. CASE Crash(r) BY <1>8 DEF Crash
<1> QED BY <1>2, <1>3, <1>4, <1>5, <1>6, <1>7, <1>8 DEF Step

LEMMA TimedStep ==
    ASSUME TypeOK, Settled, CleanInv, Timed, NEW r \in Runs,
           Start(r) \/ RefuseToStart(r) \/ Probe(r) \/ Step(r) \/ Crash(r)
    PROVE  Timed'
<1> DEFINE Part(q) ==
      /\ attemptedAt[q] <= clock
      /\ pc[q] = "idle" => attemptedAt[q] = 0
      /\ attemptFile[q] # NoSnapshot => attemptedAt[q] < attemptFile[q]
      /\ captured[q] # NoSnapshot => attemptedAt[q] < captured[q]
<1>0. clock \in Nat /\ clock' \in Nat /\ \A q \in Runs : attemptedAt[q] \in Nat /\ Part(q)
  BY TypeStep DEF TypeOK, Timed, Next
<1>1. ASSUME NEW q \in Runs, q # r PROVE Part(q)'
  <2>1. clock <= clock'
    <3>1. CASE Start(r) BY <1>0, <3>1 DEF Start
    <3> QED BY <3>1, StampedOnce
  <2> QED BY <1>0, <1>1, <2>1, OthersKeep, OthersRecord
<1>2. Part(r)'
  <2> USE <1>0 DEF files, process, probe, history, Goto, TypeOK
  <2>1. CASE Start(r)
    <3>1. pc[r] = "idle" /\ attemptFile[r] = NoSnapshot /\ captured[r] = NoSnapshot
      BY <2>1 DEF Start, Settled, CleanInv
    <3> QED BY <2>1, <3>1 DEF Start
  <2>2. CASE RefuseToStart(r) BY <2>2 DEF RefuseToStart
  <2>3. CASE SpawnFails(r) BY <2>3 DEF SpawnFails
  <2>4. ASSUME NEW headers \in [Windows -> {"percent", "junk"}], Capture(r, headers)
        PROVE  Part(r)'
    <3>1. Parse(headers, clock + 1) \in {clock + 1, NoSnapshot} BY DEF Parse
    <3> QED BY <2>4, <3>1 DEF Capture, NoSnapshot
  <2>5. ASSUME NEW code \in {"zero", "nonzero"}, ChildExits(r, code) PROVE Part(r)'
    BY <2>5 DEF ChildExits
  <2>6. CASE ChildCloses(r) \/ GraceFires(r) \/ TimeoutFires(r)
    BY <2>6 DEF ChildCloses, GraceFires, TimeoutFires
  <2>7. CASE Judge(r)
    <3>1. captured'[r] \in {attemptFile[r], NoSnapshot} BY <2>7 DEF Judge
    <3> QED BY <2>7, <3>1 DEF Judge
  <2>8. CASE ReadPrevious(r) \/ Stage(r) \/ RenameState(r) \/ RenameUsage(r) \/ RenameUsageFails(r)
    BY <2>8 DEF ReadPrevious, Stage, RenameState, RenameUsage, RenameUsageFails
  <2>9. CASE Rollback(r) \/ Restore(r) \/ RollbackFails(r)
    BY <2>9 DEF Rollback, Restore, RollbackFails
  <2>10. CASE DiscardAttemptFile(r) \/ ReadState(r) \/ WriteState(r) \/ WriteMetrics(r)
    BY <2>10 DEF DiscardAttemptFile, ReadState, WriteState, WriteMetrics
  <2>11. CASE Crash(r) BY <2>11 DEF Crash, Active
  <2> QED BY <2>1, <2>2, <2>3, <2>4, <2>5, <2>6, <2>7, <2>8, <2>9, <2>10, <2>11 DEF Step, Probe
<1>3. \A q \in Runs : Part(q)' BY <1>1, <1>2
<1> QED BY <1>3 DEF Timed

LEMMA StartedLastStep ==
    ASSUME TypeOK, Timed, StartedLast, NEW r \in Runs,
           Start(r) \/ RefuseToStart(r) \/ Probe(r) \/ Step(r) \/ Crash(r)
    PROVE  StartedLast'
<1> SUFFICES ASSUME NEW s \in Runs, NEW q \in Runs, Active(s)', q # s, q \notin overlapped'
             PROVE  ~Active(q)' /\ attemptedAt'[q] < attemptedAt'[s]
  BY DEF StartedLast
<1>0. attemptedAt \in [Runs -> Nat] /\ clock \in Nat /\ \A x \in Runs : attemptedAt[x] <= clock
  BY DEF TypeOK, Timed
<1>1. CASE Start(r)
  <2> DEFINE others == {x \in Runs \ {r} : Active(x)}
  <2>1. \A x \in Runs \ {r} : Active(x)' = Active(x) BY <1>1, OthersKeep DEF Active
  <2>2. q \notin overlapped /\ q \notin others /\ (q = r => others = {}) BY <1>1 DEF Start
  <2>3. q # r BY <2>1, <2>2
  <2>4. ~Active(q)' BY <2>1, <2>2, <2>3
  <2>5. attemptedAt'[q] = attemptedAt[q] /\ attemptedAt'[r] = clock + 1
    BY <1>0, <1>1, <2>3 DEF Start
  <2>6. CASE s = r BY <1>0, <2>4, <2>5, <2>6
  <2>7. CASE s # r
    <3>1. attemptedAt'[s] = attemptedAt[s] BY <1>0, <1>1, <2>7 DEF Start
    <3>2. attemptedAt[q] < attemptedAt[s] BY <2>1, <2>2, <2>7 DEF StartedLast
    <3> QED BY <2>4, <2>5, <3>1, <3>2
  <2> QED BY <2>6, <2>7
<1>2. CASE RefuseToStart(r) \/ Probe(r) \/ Step(r) \/ Crash(r)
  <2>1. \A x \in Runs : Active(x)' => Active(x) BY <1>2, ActiveBefore, OthersKeep DEF Active
  <2>2. overlapped' = overlapped BY <1>2, Histories
  <2>3. attemptedAt' = attemptedAt BY <1>2, StampedOnce
  <2> QED BY <2>1, <2>2, <2>3 DEF StartedLast
<1> QED BY <1>1, <1>2

\* A run whose promise is kept keeps it while another one takes a step: of a run
\* that meets none, the other one either leaves the files alone or started later.
LEMMA KeptOthers ==
    ASSUME TypeOK, StartedLast, Timed, NEW r \in Runs, NEW q \in Runs, q # r, Kept(q),
           Start(r) \/ RefuseToStart(r) \/ Probe(r) \/ Step(r) \/ Crash(r)
    PROVE  Kept(q)'
<1>1. /\ pc'[q] = pc[q] /\ captured'[q] = captured[q] /\ seen'[q] = seen[q]
      /\ attemptedAt'[q] = attemptedAt[q]
      /\ (q \in refreshed') = (q \in refreshed) /\ (q \in failed') = (q \in failed)
  BY OthersKeep, OthersRecord
<1>2. q \notin overlapped' => q \notin overlapped
  <2>1. CASE Start(r) BY <2>1 DEF Start
  <2> QED BY <2>1, Histories
<1>3. attemptedAt \in [Runs -> Nat] /\ clock \in Nat /\ \A x \in Runs : attemptedAt[x] <= clock
  BY DEF TypeOK, Timed
<1>4. CASE Active(r)
  <2>1. ~Start(r) /\ ~RefuseToStart(r) BY <1>4 DEF Active, Start, RefuseToStart
  <2>2. attemptedAt' = attemptedAt BY <2>1, StampedOnce
  <2>3. q \notin overlapped => ~Active(q) /\ attemptedAt[q] < attemptedAt[r]
    BY <1>4 DEF StartedLast
  <2>4. q \notin overlapped => ~Latest(q)' BY <1>3, <2>2, <2>3 DEF Latest
  <2> QED BY <1>1, <1>2, <2>3, <2>4 DEF Kept, Active, Midway
<1>5. CASE Start(r)
  <2>1. q \notin overlapped' => ~Active(q) BY <1>5 DEF Start
  <2>2. attemptedAt'[r] = clock + 1 BY <1>3, <1>5 DEF Start
  <2>3. ~Latest(q)' BY <1>1, <1>3, <2>2 DEF Latest
  <2> QED BY <1>1, <1>2, <2>1, <2>3 DEF Kept, Active, Midway
<1>6. CASE ~Active(r) /\ ~Start(r)
  <2>1. attemptedAt' = attemptedAt BY <1>6, StampedOnce
  <2>2. RefuseToStart(r) \/ Probe(r)
    BY <1>6 DEF Active, Step, ChildCloses, GraceFires, TimeoutFires, Judge, ReadPrevious, Stage,
                RenameState, RenameUsage, RenameUsageFails, Rollback, Restore, RollbackFails,
                DiscardAttemptFile, ReadState, WriteState, WriteMetrics, Crash
  <2>3. stateFile' = stateFile /\ usageProm' = usageProm /\ probeProm' = probeProm
    BY <2>2 DEF RefuseToStart, Probe, SpawnFails, Capture, ChildExits, files
  <2> QED BY <1>1, <1>2, <2>1, <2>3 DEF Kept, Latest, Shown, Recorded, Cache
<1> QED BY <1>4, <1>5, <1>6

\* The probe of a run, up to its snapshot.
LEMMA KeptProbe ==
    ASSUME TypeOK, Settled, NEW r \in Runs, Kept(r),
           \/ Start(r) \/ RefuseToStart(r) \/ Probe(r) \/ ChildCloses(r) \/ GraceFires(r)
           \/ TimeoutFires(r) \/ Judge(r) \/ Crash(r)
    PROVE  Kept(r)'
<1> USE DEF files, process, Goto, TypeOK, Midway
<1>1. CASE Start(r) BY <1>1 DEF Start, Kept
<1>2. CASE RefuseToStart(r) BY <1>2 DEF RefuseToStart, Kept
<1>3. CASE SpawnFails(r) BY <1>3 DEF SpawnFails, Kept
<1>4. CASE (\E headers \in [Windows -> {"percent", "junk"}] : Capture(r, headers))
           \/ (\E code \in {"zero", "nonzero"} : ChildExits(r, code))
  <2>1. pc[r] \in {"probing", "crashed"} BY <1>4 DEF Settled, Capture, ChildExits
  <2>2. pc' = pc /\ captured' = captured /\ refreshed' = refreshed
    BY <1>4 DEF Capture, ChildExits
  <2> QED BY <2>1, <2>2 DEF Kept
<1>5. CASE ChildCloses(r) \/ GraceFires(r) BY <1>5 DEF ChildCloses, GraceFires, Kept
<1>6. CASE TimeoutFires(r) BY <1>6 DEF TimeoutFires, Kept
<1>7. CASE Judge(r)
  <2>1. r \notin refreshed BY <1>7 DEF Judge, Kept
  <2>2. (pc'[r] = "plan" /\ captured'[r] # NoSnapshot) \/ pc'[r] = "discard" BY <1>7 DEF Judge
  <2> QED BY <1>7, <2>1, <2>2 DEF Judge, Kept
<1>8. CASE Crash(r) BY <1>8 DEF Crash, Kept
<1> QED BY <1>1, <1>2, <1>3, <1>4, <1>5, <1>6, <1>7, <1>8 DEF Probe

\* The promotion.
LEMMA KeptPromotion ==
    ASSUME TypeOK, NEW r \in Runs, Kept(r),
           \/ ReadPrevious(r) \/ Stage(r) \/ RenameState(r) \/ RenameUsage(r)
           \/ RenameUsageFails(r) \/ Rollback(r) \/ Restore(r) \/ RollbackFails(r)
    PROVE  Kept(r)'
<1> USE DEF files, process, history, Goto, TypeOK, Midway
<1>1. CASE ReadPrevious(r) BY <1>1 DEF ReadPrevious, Kept
<1>2. CASE Stage(r) BY <1>2 DEF Stage, Kept
<1>3. CASE RenameState(r) BY <1>3 DEF RenameState, Kept, Cache
<1>4. CASE RenameUsage(r) BY <1>4 DEF RenameUsage, Kept, Shown
<1>5. CASE RenameUsageFails(r) BY <1>5 DEF RenameUsageFails, Kept
<1>6. CASE Rollback(r) BY <1>6 DEF Rollback, Kept
<1>7. CASE Restore(r) BY <1>7 DEF Restore, Kept
<1>8. CASE RollbackFails(r) BY <1>8 DEF RollbackFails, Kept
<1> QED BY <1>1, <1>2, <1>3, <1>4, <1>5, <1>6, <1>7, <1>8

\* The record of the attempt.
LEMMA KeptRecord ==
    ASSUME TypeOK, NEW r \in Runs, Kept(r),
           DiscardAttemptFile(r) \/ ReadState(r) \/ WriteState(r) \/ WriteMetrics(r)
    PROVE  Kept(r)'
<1> USE DEF files, process, history, Goto, TypeOK, Midway
<1>1. CASE DiscardAttemptFile(r) BY <1>1 DEF DiscardAttemptFile, Kept, Shown
<1>2. CASE ReadState(r) BY <1>2 DEF ReadState, Kept, Shown
<1>3. CASE WriteState(r)
  <2>1. ASSUME r \in refreshed, r \notin failed', r \notin overlapped PROVE Recorded(r)'
    <3>1. /\ stateFile' = Cache(seen[r].snap, attemptedAt[r], r \in refreshed)
          /\ usageProm' = usageProm /\ captured' = captured /\ attemptedAt' = attemptedAt
      BY <1>3, <2>1, Zenon DEF WriteState
    <3>2. seen[r].snap = captured[r] /\ usageProm = captured[r]
      BY <1>3, <2>1 DEF WriteState, Kept, Shown
    <3>3. (r \in refreshed) = TRUE BY <2>1
    <3>4. stateFile' = Cache(captured[r], attemptedAt[r], TRUE) BY <3>1, <3>2, <3>3, Zenon
    <3> QED BY <3>1, <3>2, <3>4 DEF Recorded, Cache
  <2> QED BY <1>3, <2>1 DEF WriteState, Kept
<1>4. CASE WriteMetrics(r)
  <2>1. Recorded(r)' <=> Recorded(r) BY <1>4 DEF WriteMetrics, Recorded, Cache
  <2>2. ASSUME r \notin failed'
        PROVE  r \in refreshed /\ r \notin failed
               /\ probeProm' = [att |-> attemptedAt[r], ok |-> TRUE]
    <3>1. r \in refreshed /\ r \notin failed BY <1>4, <2>2 DEF WriteMetrics
    <3>2. probeProm' = [att |-> attemptedAt[r], ok |-> r \in refreshed]
      BY <1>4, <2>2, Zenon DEF WriteMetrics
    <3>3. (r \in refreshed) = TRUE BY <3>1
    <3> QED BY <3>1, <3>2, <3>3, Zenon
  <2>3. /\ pc[r] = "metrics" /\ pc'[r] = "done" /\ overlapped' = overlapped
        /\ refreshed' = refreshed /\ captured' = captured /\ attemptedAt' = attemptedAt
    BY <1>4 DEF WriteMetrics
  <2> QED BY <2>1, <2>2, <2>3 DEF Kept
<1> QED BY <1>1, <1>2, <1>3, <1>4

LEMMA WholeStep == TypeOK /\ Settled /\ CleanInv /\ WholeInv /\ [Next]_vars => WholeInv'
<1> SUFFICES ASSUME TypeOK, Settled, CleanInv, WholeInv, [Next]_vars PROVE WholeInv'
  OBVIOUS
<1>1. CASE UNCHANGED vars
  BY <1>1 DEF vars, files, process, probe, history, WholeInv, Timed, StartedLast, Active, Kept,
              Latest, Shown, Recorded, Cache
<1>2. ASSUME NEW r \in Runs, Start(r) \/ RefuseToStart(r) \/ Probe(r) \/ Step(r) \/ Crash(r)
      PROVE  WholeInv'
  <2>1. Timed' BY <1>2, TimedStep DEF WholeInv
  <2>2. StartedLast' BY <1>2, StartedLastStep DEF WholeInv
  <2>3. ASSUME NEW q \in Runs, q # r PROVE Kept(q)'
    BY <1>2, <2>3, KeptOthers DEF WholeInv
  <2>4. Kept(r)' BY <1>2, KeptProbe, KeptPromotion, KeptRecord DEF WholeInv, Step
  <2> QED BY <2>1, <2>2, <2>3, <2>4 DEF WholeInv
<1> QED BY <1>1, <1>2 DEF Next

\* A run that shared no time with another one and says it succeeded has written
\* its own snapshot to both files and the outcome of its attempt to the third,
\* and all of it stays until the next run starts, however the runs before it
\* overlapped, died or failed.
THEOREM SuccessesAreWhole == Spec => []SuccessIsWhole
<1>1. Init => WholeInv
  BY DEF Init, WholeInv, Timed, StartedLast, Active, Kept, Midway, NoSnapshot
<1>2. WholeInv /\ TypeOK => SuccessIsWhole
  <2> SUFFICES ASSUME WholeInv, TypeOK, NEW r \in Runs, pc[r] = "done", r \notin failed,
                      r \notin overlapped, \A s \in Runs : attemptedAt[s] <= attemptedAt[r]
               PROVE  /\ Recorded(r) /\ captured[r] > attemptedAt[r]
                      /\ probeProm = [att |-> attemptedAt[r], ok |-> TRUE]
    BY DEF SuccessIsWhole, Recorded
  <2>1. r \in refreshed /\ Latest(r) BY DEF WholeInv, Kept, Latest
  <2>2. captured[r] # NoSnapshot BY <2>1 DEF WholeInv, Kept
  <2>3. captured[r] > attemptedAt[r] BY <2>2 DEF WholeInv, Timed, TypeOK, Snapshots
  <2> QED BY <2>1, <2>3 DEF WholeInv, Kept
<1> QED BY <1>1, <1>2, WholeStep, CleanCorrect, SettledCorrect, TypeCorrect, PTL DEF Spec

=============================================================================
