---------------------------- MODULE QuotaSampler ----------------------------
(***************************************************************************)
(* The Codex quota sampler (bot/src/codex-quota-sampler.ts) with the file  *)
(* writer it borrows (bot/src/pi-extensions/codex-usage.ts): runs of one   *)
(* command line program, started by a schedule and by hand, that share a   *)
(* cache file and two Prometheus text files.  A step is one system call on *)
(* a shared file, so runs interleave as their processes do, and a run may  *)
(* be killed between any two of them.                                      *)
(*                                                                         *)
(* A snapshot is the time it was sampled at; times are drawn from a clock  *)
(* that ticks at every reading.                                            *)
(***************************************************************************)
EXTENDS Naturals

CONSTANTS
    Runs,          \* the executions of the sampler
    Windows,       \* the quota windows a response may report
    MaxClock       \* bound: no response is stamped later than this

ASSUME MaxClockAssumption == MaxClock \in Nat

NoSnapshot == 0

\* What the cache file may hold, as readJsonObjectIfExists sees it.
Absent    == [kind |-> "absent", snap |-> NoSnapshot, att |-> 0, ok |-> FALSE]
Malformed == [kind |-> "malformed", snap |-> NoSnapshot, att |-> 0, ok |-> FALSE]
Cache(snap, att, ok) == [kind |-> "cache", snap |-> snap, att |-> att, ok |-> ok]

VARIABLES
    clock,
    settings,      \* .pi/settings.json of the sampler's directory
    stateFile,     \* the cache file
    usageProm,     \* codex_usage.prom: a snapshot
    probeProm,     \* codex_usage_probe.prom: time and outcome of an attempt
    attemptFile,   \* of each run: the scratch file its probe writes
    pc, attemptedAt,
    child,         \* of each run: the Pi process it probes with
    captured,      \* of each run: the snapshot it took over from its probe
    seen,          \* of each run: the cache as it last read it
    timedOut, warned, refreshed, failed,    \* the runs for which these are set
    lastGood,      \* history: the snapshot promoted last
    overlapped,    \* history: runs that shared some time with another one
    torn           \* history: runs that stopped between the two renames

files   == <<settings, stateFile, usageProm, probeProm>>
process == <<attemptedAt, captured, seen, refreshed, failed>>
probe   == <<attemptFile, child, timedOut, warned>>
history == <<lastGood, overlapped, torn>>
vars    == <<clock, files, pc, process, probe, history>>

Active(r) == pc[r] \notin {"idle", "done", "crashed"}

Goto(r, l) == pc' = [pc EXCEPT ![r] = l]

Init ==
    /\ clock = 0
    /\ settings \in {"absent", "ours", "foreign"}
    /\ stateFile = Absent
    /\ usageProm = NoSnapshot
    /\ probeProm = [att |-> 0, ok |-> FALSE]
    /\ attemptFile = [r \in Runs |-> NoSnapshot]
    /\ pc = [r \in Runs |-> "idle"]
    /\ attemptedAt = [r \in Runs |-> 0]
    /\ child = [r \in Runs |-> "none"]
    /\ captured = [r \in Runs |-> NoSnapshot]
    /\ seen = [r \in Runs |-> Absent]
    /\ timedOut = {} /\ warned = {} /\ refreshed = {} /\ failed = {}
    /\ lastGood = NoSnapshot
    /\ overlapped = {} /\ torn = {}

-----------------------------------------------------------------------------
(* The probe. *)

\* ensureSamplerProjectSettings, the attempt's time and the spawn.  Settings
\* that are not the sampler's own end the run before anything is written.
Start(r) ==
    /\ pc[r] = "idle"
    /\ settings # "foreign"
    /\ settings' = "ours"
    /\ clock' = clock + 1
    /\ attemptedAt' = [attemptedAt EXCEPT ![r] = clock + 1]
    /\ child' = [child EXCEPT ![r] = "live"]
    /\ Goto(r, "probing")
    /\ overlapped' = LET others == {s \in Runs \ {r} : Active(s)}
                     IN IF others = {} THEN overlapped ELSE overlapped \cup others \cup {r}
    /\ UNCHANGED <<stateFile, usageProm, probeProm, attemptFile, timedOut, warned,
                   captured, seen, refreshed, failed, lastGood, torn>>

RefuseToStart(r) ==
    /\ pc[r] = "idle"
    /\ settings = "foreign"
    /\ Goto(r, "done")
    /\ failed' = failed \cup {r}
    /\ UNCHANGED <<clock, files, attemptedAt, captured, seen, refreshed, probe, history>>

\* spawn throws, or the child reports an error instead of starting.
SpawnFails(r) ==
    /\ pc[r] = "probing"
    /\ child[r] = "live"
    /\ attemptFile[r] = NoSnapshot
    /\ r \notin timedOut \cup warned
    /\ child' = [child EXCEPT ![r] = "nonzero"]
    /\ Goto(r, "probed")
    /\ UNCHANGED <<clock, files, process, attemptFile, timedOut, warned, history>>

\* parseCodexQuotaHeaders: headers without one usable percentage are no snapshot.
Parse(headers, now) ==
    IF \E w \in Windows : headers[w] = "percent" THEN now ELSE NoSnapshot

\* A provider response reaches the extension in the child, which writes the
\* attempt file atomically, or says on stderr that it could not.
Capture(r, headers) ==
    LET snapshot == Parse(headers, clock + 1) IN
    /\ child[r] = "live"
    /\ clock < MaxClock
    /\ snapshot # NoSnapshot
    /\ clock' = clock + 1
    /\ \/ attemptFile' = [attemptFile EXCEPT ![r] = snapshot] /\ UNCHANGED warned
       \/ warned' = warned \cup {r} /\ UNCHANGED attemptFile
    /\ UNCHANGED <<files, pc, process, child, timedOut, history>>

\* The child ends, by itself or for the SIGTERM of the timeout.
ChildExits(r, code) ==
    /\ child[r] = "live"
    /\ child' = [child EXCEPT ![r] = code]
    /\ UNCHANGED <<clock, files, pc, process, attemptFile, timedOut, warned, history>>

TimeoutFires(r) ==
    /\ pc[r] = "probing"
    /\ r \notin timedOut
    /\ timedOut' = timedOut \cup {r}
    /\ UNCHANGED <<clock, files, pc, process, attemptFile, child, warned, history>>

\* The close event settles the probe, if the grace timer has not.
ChildCloses(r) ==
    /\ pc[r] = "probing"
    /\ child[r] # "live"
    /\ Goto(r, "probed")
    /\ UNCHANGED <<clock, files, process, probe, history>>

\* Mutant of GraceFires: only the close event settles the probe.
GraceOnlyKills(r) ==
    /\ pc[r] = "probing"
    /\ r \in timedOut
    /\ child[r] # "live"
    /\ Goto(r, "probed")
    /\ UNCHANGED <<clock, files, process, probe, history>>

\* The grace timer kills what ignores SIGTERM and settles the probe.
GraceFires(r) ==
    /\ pc[r] = "probing"
    /\ r \in timedOut
    /\ child' = [child EXCEPT ![r] = IF @ = "live" THEN "nonzero" ELSE @]
    /\ Goto(r, "probed")
    /\ UNCHANGED <<clock, files, process, attemptFile, timedOut, warned, history>>

\* Mutant of ProbeSucceeded: the timeout is forgotten.
ExitedCleanly(r) == child[r] = "zero"

ProbeSucceeded(r) == child[r] = "zero" /\ r \notin timedOut

\* readCapturedSnapshot, of a probe that succeeded and complained of nothing.
Judge(r) ==
    LET snapshot == IF ProbeSucceeded(r) /\ r \notin warned THEN attemptFile[r] ELSE NoSnapshot IN
    /\ pc[r] = "probed"
    /\ captured' = [captured EXCEPT ![r] = snapshot]
    /\ Goto(r, IF snapshot # NoSnapshot THEN "plan" ELSE "discard")
    /\ UNCHANGED <<clock, files, attemptedAt, seen, refreshed, failed, probe, history>>

-----------------------------------------------------------------------------
(* writeCodexQuotaSnapshot: two files, all or nothing. *)

\* readPreviousFile, what a rollback will restore.
ReadPrevious(r) ==
    /\ pc[r] = "plan"
    /\ seen' = [seen EXCEPT ![r] = stateFile]
    /\ Goto(r, "stage")
    /\ UNCHANGED <<clock, files, attemptedAt, captured, refreshed, failed, probe, history>>

\* The staging files are written, or cannot be and are removed.
Stage(r) ==
    /\ pc[r] = "stage"
    /\ Goto(r, "renameState") \/ Goto(r, "discard")
    /\ UNCHANGED <<clock, files, process, probe, history>>

RenameState(r) ==
    /\ pc[r] = "renameState"
    /\ \/ /\ stateFile' = Cache(captured[r], 0, FALSE)
          /\ Goto(r, "renameUsage")
       \/ /\ Goto(r, "discard")
          /\ UNCHANGED stateFile
    /\ UNCHANGED <<clock, settings, usageProm, probeProm, process, probe, history>>

RenameUsage(r) ==
    /\ pc[r] = "renameUsage"
    /\ usageProm' = captured[r]
    /\ refreshed' = refreshed \cup {r}
    /\ lastGood' = captured[r]
    /\ Goto(r, "discard")
    /\ UNCHANGED <<clock, settings, stateFile, probeProm, attemptedAt, captured, seen, failed,
                   probe, overlapped, torn>>

RenameUsageFails(r) ==
    /\ pc[r] = "renameUsage"
    /\ Goto(r, "rollback")
    /\ UNCHANGED <<clock, files, process, probe, history>>

\* Mutant of Rollback: the committed rename is left standing.
RollbackSkipped(r) ==
    /\ pc[r] = "rollback"
    /\ Goto(r, "discard")
    /\ UNCHANGED <<clock, files, process, probe, history>>

\* rollbackCommittedWrites removes a cache file that was not there, and writes
\* back one that was, in place: it is first emptied and then filled.
Rollback(r) ==
    /\ pc[r] = "rollback"
    /\ IF seen[r].kind = "absent"
       THEN stateFile' = Absent /\ Goto(r, "discard")
       ELSE stateFile' = Malformed /\ Goto(r, "restore")
    /\ UNCHANGED <<clock, settings, usageProm, probeProm, process, probe, history>>

Restore(r) ==
    /\ pc[r] = "restore"
    /\ stateFile' = seen[r]
    /\ Goto(r, "discard")
    /\ UNCHANGED <<clock, settings, usageProm, probeProm, process, probe, history>>

\* Rolling back is best effort; the run goes on.
RollbackFails(r) ==
    /\ pc[r] \in {"rollback", "restore"}
    /\ Goto(r, "discard")
    /\ torn' = torn \cup {r}
    /\ UNCHANGED <<clock, files, process, probe, lastGood, overlapped>>

-----------------------------------------------------------------------------
(* The record of the attempt. *)

\* A file that cannot be removed stays, and nobody reads it: left out here.
DiscardAttemptFile(r) ==
    /\ pc[r] = "discard"
    /\ attemptFile' = [attemptFile EXCEPT ![r] = NoSnapshot]
    /\ Goto(r, "readState")
    /\ UNCHANGED <<clock, files, process, child, timedOut, warned, history>>

\* writeProbeAttemptState gives up, without an error, on a malformed cache.
ReadState(r) ==
    /\ pc[r] = "readState"
    /\ seen' = [seen EXCEPT ![r] = stateFile]
    /\ Goto(r, IF stateFile.kind = "malformed" THEN "metrics" ELSE "writeState")
    /\ UNCHANGED <<clock, files, attemptedAt, captured, refreshed, failed, probe, history>>

\* Mutant of WriteState: its error is swallowed.
WriteStateQuietly(r) ==
    /\ pc[r] = "writeState"
    /\ stateFile' \in {Cache(seen[r].snap, attemptedAt[r], r \in refreshed), stateFile}
    /\ Goto(r, "metrics")
    /\ UNCHANGED <<clock, settings, usageProm, probeProm, process, probe, history>>

WriteState(r) ==
    /\ pc[r] = "writeState"
    /\ \/ /\ stateFile' = Cache(seen[r].snap, attemptedAt[r], r \in refreshed)
          /\ UNCHANGED failed
       \/ /\ failed' = failed \cup {r}
          /\ UNCHANGED stateFile
    /\ Goto(r, "metrics")
    /\ UNCHANGED <<clock, settings, usageProm, probeProm, attemptedAt, captured, seen, refreshed,
                   probe, history>>

\* writeProbeAttemptMetrics, and the run's result.
WriteMetrics(r) ==
    /\ pc[r] = "metrics"
    /\ \/ /\ probeProm' = [att |-> attemptedAt[r], ok |-> r \in refreshed]
          /\ failed' = IF r \in refreshed THEN failed ELSE failed \cup {r}
       \/ /\ failed' = failed \cup {r}
          /\ UNCHANGED probeProm
    /\ Goto(r, "done")
    /\ UNCHANGED <<clock, settings, stateFile, usageProm, attemptedAt, captured, seen, refreshed,
                   probe, history>>

\* The process is killed, by its cron's timeout for one; its child lives on.
Crash(r) ==
    /\ Active(r)
    /\ Goto(r, "crashed")
    /\ torn' = IF pc[r] \in {"renameUsage", "rollback", "restore"} THEN torn \cup {r} ELSE torn
    /\ UNCHANGED <<clock, files, process, probe, lastGood, overlapped>>

-----------------------------------------------------------------------------
Step(r) ==
    \/ ChildCloses(r) \/ GraceFires(r) \/ TimeoutFires(r) \/ Judge(r)
    \/ ReadPrevious(r) \/ Stage(r) \/ RenameState(r) \/ RenameUsage(r) \/ RenameUsageFails(r)
    \/ Rollback(r) \/ Restore(r) \/ RollbackFails(r)
    \/ DiscardAttemptFile(r) \/ ReadState(r) \/ WriteState(r) \/ WriteMetrics(r)

Probe(r) ==
    \/ SpawnFails(r)
    \/ \E headers \in [Windows -> {"percent", "junk"}] : Capture(r, headers)
    \/ \E code \in {"zero", "nonzero"} : ChildExits(r, code)

Next == \E r \in Runs : Start(r) \/ RefuseToStart(r) \/ Probe(r) \/ Step(r) \/ Crash(r)

Spec == Init /\ [][Next]_vars

\* A running process takes its steps and its timers fire.  Nothing is assumed
\* of the child: it may hang, and it may ignore SIGTERM.
Fairness == \A r \in Runs : WF_vars(Step(r))

FairSpec == Spec /\ Fairness

-----------------------------------------------------------------------------
Snapshots == Nat
Contents  == [kind : {"absent", "malformed", "cache"}, snap : Snapshots, att : Nat, ok : BOOLEAN]
Labels    == {"idle", "probing", "probed", "plan", "stage", "renameState", "renameUsage",
              "rollback", "restore", "discard", "readState", "writeState", "metrics",
              "done", "crashed"}

\* The types of the variables.
TypeOK ==
    /\ clock \in Nat
    /\ settings \in {"absent", "ours", "foreign"}
    /\ stateFile \in Contents
    /\ usageProm \in Snapshots
    /\ probeProm \in [att : Nat, ok : BOOLEAN]
    /\ attemptFile \in [Runs -> Snapshots]
    /\ pc \in [Runs -> Labels]
    /\ attemptedAt \in [Runs -> Nat]
    /\ child \in [Runs -> {"none", "live", "zero", "nonzero"}]
    /\ captured \in [Runs -> Snapshots]
    /\ seen \in [Runs -> Contents]
    /\ timedOut \subseteq Runs /\ warned \subseteq Runs
    /\ refreshed \subseteq Runs /\ failed \subseteq Runs
    /\ lastGood \in Snapshots
    /\ overlapped \subseteq Runs /\ torn \subseteq Runs

Clean(r) == child[r] = "zero" /\ r \notin timedOut /\ r \notin warned
CleanSnapshots == {captured[r] : r \in {s \in Runs : Clean(s)}} \cup {NoSnapshot}

\* However runs overlap, die and roll back, the quota that /status and
\* Prometheus show was sampled by a probe that exited cleanly, in time and
\* without a write warning (runCodexQuotaSampler, writeCodexQuotaSnapshot).
OnlyCleanProbesShow ==
    /\ stateFile.snap \in CleanSnapshots
    /\ usageProm \in CleanSnapshots

Quiet == \A r \in Runs : ~Active(r)

\* Between runs that did not overlap, cache and text file show the same
\* snapshot, the last one that was promoted: a promotion that failed half-way
\* was undone, and a failed attempt kept the values (atomicWriteFiles,
\* writeProbeAttemptState).
CacheIsLastGood ==
    Quiet /\ overlapped = {} /\ torn = {} =>
        /\ stateFile.snap = lastGood
        /\ usageProm = lastGood

\* A run that shared no time with another one, whatever those did among
\* themselves before it, and that reports success has written all three files,
\* and they say so until the next run starts: no failed write is taken for a
\* success, and the record of the attempt keeps the snapshot promoted before it
\* (runCodexQuotaSampler, writeProbeAttemptState).  Of a run that overlaps this
\* is not so: it may meet the cache another one's rollback has just emptied,
\* skip its record and succeed.
SuccessIsWhole ==
    \A r \in Runs :
        /\ pc[r] = "done" /\ r \notin failed /\ r \notin overlapped
        /\ \A s \in Runs : attemptedAt[s] <= attemptedAt[r]
        => /\ stateFile = Cache(captured[r], attemptedAt[r], TRUE)
           /\ usageProm = captured[r]
           /\ probeProm = [att |-> attemptedAt[r], ok |-> TRUE]
           /\ captured[r] > attemptedAt[r]

\* Without overlap, a reader meets a malformed cache only while a rollback
\* writes it in place, or after one that did not finish (readQuotaStatus,
\* rollbackCommittedWrites).
MalformedOnlyInRollback ==
    overlapped = {} /\ stateFile.kind = "malformed" =>
        torn # {} \/ \E r \in Runs : pc[r] = "restore"

\* No probe's answer, however late, leaves an attempt file behind a run that
\* went to its end (runPiProbe, discardAttemptFile).
AttemptFilesAreDiscarded ==
    \A r \in Runs : pc[r] = "done" => attemptFile[r] = NoSnapshot

\* A run whose probe hangs, and ignores SIGTERM, ends all the same.
RunsEnd == \A r \in Runs : pc[r] = "probing" ~> ~Active(r)

=============================================================================
