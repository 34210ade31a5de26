------------------------- MODULE BotService_proofs -------------------------
(***************************************************************************)
(* What holds of the service for any number of attempts, any threshold and *)
(* any number of processes.                                                *)
(***************************************************************************)
EXTENDS BotService, TLAPS

TypedProcess ==
    /\ ProcessTypeOK
    /\ boot = "backoff" => attempt < MaxRetries
    /\ Alive => quiet < MaxQuietHeartbeats
    /\ Alive => cause = "none"

\* Silence as the watchdog has measured it: each quiet heartbeat stands for a
\* whole threshold, and the one awaited for one more.
Measured ==
    /\ Alive => /\ quiet = 1 => silence >= since
                /\ quiet = 2 => silence >= Threshold + since
                /\ checking /\ quiet = 1 => silence >= Threshold
                /\ checking /\ quiet = 2 => silence >= Threshold + Threshold
    /\ cause = "quiet" => silence >= Threshold + Threshold

\* Which timers run in which phase.
Timers ==
    /\ startupTimer => boot = "connecting"
    /\ phase = "up" => (startupTimer \/ armed) /\ ~calm
    /\ Alive /\ calm => ~armed /\ ~checking /\ ~startupTimer /\ boot = "ended"
    /\ phase = "exited" /\ calm => cause \in {"done", "killed"}

ProcessInv == TypedProcess /\ Measured /\ Timers

LEMMA Numbers ==
    /\ MaxQuietHeartbeats = 3
    /\ MaxSilence = Threshold + Threshold + Threshold
    /\ Threshold \in Nat /\ Threshold >= 1
    /\ MaxRetries \in Nat /\ MaxRetries >= 1
PROOF BY ProcessAssumption DEF MaxQuietHeartbeats, MaxSilence

LEMMA ProcessStarts ==
    ProcessInit /\ holder \in BOOLEAN => ProcessInv
<1> SUFFICES ASSUME ProcessInit, holder \in BOOLEAN PROVE ProcessInv
  OBVIOUS
<1> USE Numbers DEF ProcessInit, Alive
<1>1. TypedProcess
  <2>1. attempt \in 1..MaxRetries OBVIOUS
  <2>2. quiet \in 0..MaxQuietHeartbeats /\ since \in 0..Threshold /\ silence \in 0..MaxSilence
    OBVIOUS
  <2>3. quiet < MaxQuietHeartbeats OBVIOUS
  <2> QED BY <2>1, <2>2, <2>3, Zenon DEF TypedProcess, ProcessTypeOK
<1>2. Measured BY DEF Measured
<1>3. Timers BY DEF Timers
<1> QED BY <1>1, <1>2, <1>3 DEF ProcessInv

\* A shutdown stops the timers of a calm bot for good.
LEMMA ShutdownKeeps ==
    ASSUME ProcessInv, Alive, Shutdown
    PROVE  ProcessInv'
<1> USE Numbers DEF process, startup, watchdog, telegram, Alive
<1>1. CASE phase = "up"
  <2>1. TypedProcess' BY <1>1 DEF Shutdown, ProcessInv, TypedProcess, ProcessTypeOK
  <2>2. Measured' BY <1>1 DEF Shutdown, ProcessInv, TypedProcess, ProcessTypeOK, Measured
  <2>3. Timers' BY <1>1 DEF Shutdown, ProcessInv, TypedProcess, ProcessTypeOK, Timers
  <2> QED BY <2>1, <2>2, <2>3 DEF ProcessInv
<1>2. CASE phase # "up"
  BY <1>2 DEF Shutdown, ProcessInv, TypedProcess, ProcessTypeOK, Measured, Timers
<1> QED BY <1>1, <1>2

LEMMA StartupKeeps ==
    ASSUME ProcessInv,
           Connects \/ ConnectFails \/ BeginsToPoll \/ Conflict \/ PollFails \/ Retry
           \/ StartupTimeout
    PROVE  ProcessInv'
<1> USE Numbers DEF process, startup, watchdog, telegram, Alive, Stays, Exit,
                    ProcessInv, TypedProcess, ProcessTypeOK
<1>1. CASE Connects
  <2>1. since' \in 0..Threshold
    <3>1. since \in 0..Threshold /\ 0 \in 0..Threshold OBVIOUS
    <3> QED BY <1>1, <3>1, Zenon DEF Connects
  <2>2. armed' \in BOOLEAN /\ startupTimer' \in BOOLEAN BY <1>1, Zenon DEF Connects
  <2> HIDE DEF MaxSilence
  <2>3. TypedProcess' BY <1>1, <2>1, <2>2 DEF Connects
  <2>4. Measured' BY <1>1 DEF Connects, Measured
  <2>5. Timers' BY <1>1 DEF Connects, Timers
  <2> QED BY <2>3, <2>4, <2>5
<1>2. CASE ConnectFails \/ PollFails
  <2>1. TypedProcess' BY <1>2 DEF ConnectFails, PollFails
  <2>2. Measured' BY <1>2 DEF ConnectFails, PollFails, Measured
  <2>3. Timers' BY <1>2 DEF ConnectFails, PollFails, Timers
  <2> QED BY <2>1, <2>2, <2>3
<1>3. CASE BeginsToPoll
  <2>1. TypedProcess' BY <1>3 DEF BeginsToPoll
  <2>2. Measured' BY <1>3 DEF BeginsToPoll, Measured
  <2>3. Timers' BY <1>3 DEF BeginsToPoll, Timers
  <2> QED BY <2>1, <2>2, <2>3
<1>4. CASE Conflict
  <2>1. TypedProcess' BY <1>4 DEF Conflict
  <2>2. Measured' BY <1>4 DEF Conflict, Measured
  <2>3. Timers' BY <1>4 DEF Conflict, Timers
  <2> QED BY <2>1, <2>2, <2>3
<1>5. CASE Retry
  <2>1. TypedProcess' BY <1>5 DEF Retry
  <2>2. Measured' BY <1>5 DEF Retry, Measured
  <2>3. Timers' BY <1>5 DEF Retry, Timers
  <2> QED BY <2>1, <2>2, <2>3
<1>6. CASE StartupTimeout
  <2>1. TypedProcess' BY <1>6 DEF StartupTimeout
  <2>2. Measured' BY <1>6 DEF StartupTimeout, Measured
  <2>3. Timers' BY <1>6 DEF StartupTimeout, Timers
  <2> QED BY <2>1, <2>2, <2>3
<1> QED BY <1>1, <1>2, <1>3, <1>4, <1>5, <1>6

LEMMA WatchdogKeeps ==
    ASSUME ProcessInv,
           Update \/ CheckStarts \/ HeartbeatAnswers \/ HeartbeatFails \/ Tick
    PROVE  ProcessInv'
<1> USE Numbers DEF process, startup, watchdog, telegram, Alive, Stays, Exit,
                    ProcessInv, TypedProcess, ProcessTypeOK
<1>1. CASE Update
  <2>1. TypedProcess' BY <1>1 DEF Update, Touch
  <2>2. Measured' BY <1>1 DEF Update, Touch, Measured
  <2>3. Timers' BY <1>1 DEF Update, Touch, Timers
  <2> QED BY <2>1, <2>2, <2>3
<1>2. CASE CheckStarts
  <2>1. TypedProcess' BY <1>2 DEF CheckStarts
  <2>2. Measured' BY <1>2 DEF CheckStarts, Measured
  <2>3. Timers' BY <1>2 DEF CheckStarts, Timers
  <2> QED BY <2>1, <2>2, <2>3
<1>3. CASE HeartbeatAnswers
  <2>1. TypedProcess'
    <3>1. CASE quiet + 1 >= MaxQuietHeartbeats
      <4>1. quiet' \in 0..MaxQuietHeartbeats BY <1>3 DEF HeartbeatAnswers
      <4>2. phase' = "exited" /\ cause' = "quiet" /\ UNCHANGED since
        BY <1>3, <3>1 DEF HeartbeatAnswers
      <4> QED BY <1>3, <4>1, <4>2 DEF HeartbeatAnswers
    <3>2. CASE ~(quiet + 1 >= MaxQuietHeartbeats)
      <4>1. quiet' \in 0..MaxQuietHeartbeats /\ quiet' < MaxQuietHeartbeats
        BY <1>3, <3>2 DEF HeartbeatAnswers
      <4>2. since' \in 0..Threshold BY <1>3, <3>2 DEF HeartbeatAnswers
      <4> QED BY <1>3, <3>2, <4>1, <4>2 DEF HeartbeatAnswers
    <3> QED BY <3>1, <3>2
  <2>2. Measured' BY <1>3 DEF HeartbeatAnswers, Measured
  <2>3. Timers' BY <1>3 DEF HeartbeatAnswers, Timers
  <2> QED BY <2>1, <2>2, <2>3
<1>4. CASE HeartbeatFails
  <2>1. TypedProcess' BY <1>4 DEF HeartbeatFails
  <2>2. Measured' BY <1>4 DEF HeartbeatFails, Measured
  <2>3. Timers' BY <1>4 DEF HeartbeatFails, Timers
  <2> QED BY <2>1, <2>2, <2>3
<1>5. CASE Tick
  <2>1. TypedProcess' BY <1>5 DEF Tick
  <2>2. Measured' BY <1>5 DEF Tick, Measured
  <2>3. Timers' BY <1>5 DEF Tick, Timers
  <2> QED BY <2>1, <2>2, <2>3
<1> QED BY <1>1, <1>2, <1>3, <1>4, <1>5

LEMMA EndingKeeps ==
    ASSUME ProcessInv, DrainEnds \/ CloseEnds \/ Hangs \/ RivalPolls \/ Killed
    PROVE  ProcessInv'
<1> USE Numbers DEF process, startup, watchdog, telegram, Alive, Exit,
                    ProcessInv, TypedProcess, ProcessTypeOK
<1>1. TypedProcess'
  <2>1. CASE DrainEnds \/ CloseEnds \/ Killed BY <2>1 DEF DrainEnds, CloseEnds, Killed
  <2>2. CASE Hangs BY <2>2 DEF Hangs
  <2>3. CASE RivalPolls
    <3>1. holder' \in BOOLEAN BY <2>3 DEF RivalPolls
    <3> QED BY <2>3, <3>1 DEF RivalPolls
  <2> QED BY <2>1, <2>2, <2>3
<1>2. Measured' BY DEF DrainEnds, CloseEnds, Hangs, RivalPolls, Killed, Measured
<1>3. Timers' BY DEF DrainEnds, CloseEnds, Hangs, RivalPolls, Killed, Timers
<1> QED BY <1>1, <1>2, <1>3

LEMMA ProcessSteps ==
    ASSUME ProcessInv, ProcessStep
    PROVE  ProcessInv'
PROOF BY StartupKeeps, WatchdogKeeps, EndingKeeps, ShutdownKeeps DEF ProcessStep

LEMMA ProcessStutters ==
    ASSUME ProcessInv, UNCHANGED process
    PROVE  ProcessInv'
PROOF BY DEF process, startup, watchdog, telegram, Alive, ProcessInv, TypedProcess,
             ProcessTypeOK, Measured, Timers

LEMMA SpawnStarts ==
    ASSUME ProcessInv, Spawn
    PROVE  ProcessInv'
<1>1. holder' \in BOOLEAN BY DEF Spawn, ProcessInv, TypedProcess, ProcessTypeOK
<1> USE Numbers DEF Spawn, Alive
<1>2. TypedProcess'
  <2>1. attempt' \in 1..MaxRetries OBVIOUS
  <2>2. quiet' \in 0..MaxQuietHeartbeats /\ since' \in 0..Threshold /\ silence' \in 0..MaxSilence
    OBVIOUS
  <2>3. quiet' < MaxQuietHeartbeats OBVIOUS
  <2> QED BY <1>1, <2>1, <2>2, <2>3, Zenon DEF TypedProcess, ProcessTypeOK
<1>3. Measured' BY DEF Measured
<1>4. Timers' BY DEF Timers
<1> QED BY <1>2, <1>3, <1>4 DEF ProcessInv

\* The process keeps its invariant whatever launchd and the script do to it.
LEMMA ServiceKeepsProcess ==
    ASSUME ProcessInv, [Next]_vars
    PROVE  ProcessInv'
<1>1. CASE ProcessStep BY <1>1, ProcessSteps
<1>2. CASE Spawn BY <1>2, SpawnStarts
<1>3. CASE Reap \/ UNCHANGED vars BY <1>3, ProcessStutters DEF Reap, vars
<1>4. CASE TeardownKills BY <1>4, EndingKeeps DEF TeardownKills
<1>5. CASE ScriptStep
  <2>1. CASE KillTerm BY <2>1, ShutdownKeeps, ProcessStutters DEF KillTerm
  <2>2. CASE Bootout BY <2>2, ShutdownKeeps, ProcessStutters DEF Bootout
  <2>3. CASE UNCHANGED process BY <2>3, ProcessStutters
  <2> QED BY <1>5, <2>1, <2>2, <2>3
       DEF ScriptStep, Start, ReadOldPid, Validate, OldPidGone, CheckRegistered,
           Unregistered, Bootstrap, RunningPid, WaitTimesOut, Report
<1> QED BY <1>1, <1>2, <1>3, <1>4, <1>5 DEF Next

\* The patience of the watchdog, the timers of a bot that is up and the calm
\* shutdown, for every threshold and every number of attempts.
THEOREM ProcessCorrect ==
    Spec => [](PatientWatchdog /\ Guarded /\ CalmDrainRunsOut)
<1>1. Init => ProcessInv BY ProcessStarts DEF Init
<1>2. ProcessInv /\ [Next]_vars => ProcessInv' BY ServiceKeepsProcess
<1>3. ProcessInv => PatientWatchdog /\ Guarded /\ CalmDrainRunsOut
  <2>1. (MaxQuietHeartbeats - 1) * Threshold = Threshold + Threshold BY Numbers
  <2> QED BY <2>1 DEF ProcessInv, Measured, Timers, PatientWatchdog, Guarded, CalmDrainRunsOut
<1> QED BY <1>1, <1>2, <1>3, PTL DEF Spec

\* The shutdown of a bot that polls while no heartbeat is awaited runs to its own
\* end, for every threshold and every number of attempts.
THEOREM DrainsRunOut == Spec => []CalmDrainRunsOut
BY ProcessCorrect, PTL

-----------------------------------------------------------------------------
(* launchd and the script                                                  *)

ServiceTypeOK ==
    /\ registered \in {"no", "yes", "leaving"}
    /\ spawned \in Nat /\ pid \in 0..spawned
    /\ pc \in {"idle", "read", "validate", "kill", "gone", "check", "bootout",
               "unregistered", "bootstrap", "running", "report", "ok", "failed"}
    /\ mode \in {"graceful", "plist"}
    /\ oldPid \in 0..spawned /\ reported \in 0..spawned /\ since0 \in 0..spawned

\* launchd lists only the process it started last, and what the script has
\* read or loaded is older than what it is about to report.
ScriptInv ==
    /\ ServiceTypeOK
    /\ pid \in {None, spawned}
    /\ registered = "no" => pid = None
    /\ pc \in {"read", "kill", "gone"} => mode = "graceful"
    /\ pc \in {"validate", "kill", "gone"} /\ mode = "graceful" => oldPid = since0
    /\ pc = "running" /\ pid # None /\ pid # oldPid => spawned > since0
    /\ pc = "report" => spawned > since0
    /\ RestartReportsNewProcess
    /\ registered = "leaving" => pc \in {"unregistered", "failed"}

LEMMA ScriptKeeps ==
    ASSUME ScriptInv, ScriptStep
    PROVE  ScriptInv'
<1> USE DEF launchd, ScriptInv, ServiceTypeOK, RestartReportsNewProcess, Goto, Fail,
            None, Listed
<1>1. CASE Start BY <1>1 DEF Start
<1>2. CASE ReadOldPid BY <1>2 DEF ReadOldPid
<1>3. CASE Validate BY <1>3 DEF Validate
<1>4. CASE KillTerm BY <1>4 DEF KillTerm
<1>5. CASE OldPidGone BY <1>5 DEF OldPidGone
<1>6. CASE CheckRegistered BY <1>6 DEF CheckRegistered
<1>7. CASE Bootout BY <1>7 DEF Bootout
<1>8. CASE Unregistered BY <1>8 DEF Unregistered
<1>9. CASE Bootstrap BY <1>9 DEF Bootstrap
<1>10. CASE RunningPid BY <1>10 DEF RunningPid
<1>11. CASE WaitTimesOut BY <1>11 DEF WaitTimesOut
<1>12. CASE Report BY <1>12 DEF Report
<1> QED BY <1>1, <1>2, <1>3, <1>4, <1>5, <1>6, <1>7, <1>8, <1>9, <1>10, <1>11, <1>12
     DEF ScriptStep

LEMMA ServiceKeepsScript ==
    ASSUME ScriptInv, [Next]_vars
    PROVE  ScriptInv'
<1> USE DEF launchd, script, ScriptInv, ServiceTypeOK, RestartReportsNewProcess, None
<1>1. CASE UNCHANGED <<launchd, script>> BY <1>1
<1>2. CASE Spawn BY <1>2 DEF Spawn
<1>3. CASE Reap BY <1>3 DEF Reap
<1>4. CASE ScriptStep BY <1>4, ScriptKeeps
<1> QED BY <1>1, <1>2, <1>3, <1>4 DEF Next, TeardownKills, vars

LEMMA ScriptStarts == Init => ScriptInv
PROOF BY DEF Init, ScriptInv, ServiceTypeOK, RestartReportsNewProcess, None

\* A restart reports only a process that is newer than what it replaces.
THEOREM ReportsNewProcess == Spec => []RestartReportsNewProcess
<1>1. ScriptInv => RestartReportsNewProcess BY DEF ScriptInv
<1> QED BY <1>1, ScriptStarts, ServiceKeepsScript, PTL DEF Spec

\* The plist is not loaded into a teardown that is still under way.
THEOREM TeardownAwaited == Spec => []TeardownIsAwaited
<1>1. ScriptInv => TeardownIsAwaited BY DEF ScriptInv, TeardownIsAwaited
<1> QED BY <1>1, ScriptStarts, ServiceKeepsScript, PTL DEF Spec

\* Type correctness of the service and of its processes.
THEOREM TypeCorrect == Spec => []TypeOK
<1>1. Init => ProcessInv BY ProcessStarts DEF Init
<1>2. ProcessInv /\ [Next]_vars => ProcessInv' BY ServiceKeepsProcess
<1>3. ScriptInv /\ [Next]_vars => ScriptInv' BY ServiceKeepsScript
<1>4. ProcessInv /\ ScriptInv => TypeOK
  BY DEF ProcessInv, TypedProcess, ScriptInv, ServiceTypeOK, TypeOK
<1> QED BY <1>1, <1>2, <1>3, <1>4, ScriptStarts, PTL DEF Spec
=============================================================================
