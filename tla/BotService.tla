----------------------------- MODULE BotService -----------------------------
(***************************************************************************)
(* The bot as a launchd service, and bot/scripts/restart-bot.sh, which     *)
(* restarts it gracefully or reloads its plist.  The processes of the      *)
(* service are BotProcess.  A step of the script is one call of launchctl, *)
(* whose list may fail to answer; its waits may time out at any moment.    *)
(***************************************************************************)
EXTENDS BotProcess

CONSTANT MaxPids          \* bound: processes launchd starts

ASSUME ServiceAssumption == MaxPids \in Nat

None == 0

VARIABLES
    registered,           \* what launchd has of the label: "no", "yes", "leaving"
    pid,                  \* the process launchd lists
    spawned,              \* the processes started so far; pids are not reused
    pc, mode,             \* the script
    oldPid,               \* _old_pid
    reported,             \* the pid it printed
    since0                \* history: spawned when the state to replace was read

launchd == <<registered, pid, spawned>>
script  == <<pc, mode, oldPid, reported, since0>>
vars    == <<process, launchd, script>>

Init ==
    /\ ProcessInit /\ holder \in BOOLEAN
    /\ registered = "yes" /\ pid = 1 /\ spawned = 1
    /\ pc = "idle" /\ mode \in {"graceful", "plist"}
    /\ oldPid = None /\ reported = None /\ since0 = 0

-----------------------------------------------------------------------------
(* launchd                                                                 *)

\* KeepAlive: a registered service without a process gets a new one.
Spawn ==
    /\ registered = "yes" /\ pid = None /\ spawned < MaxPids
    /\ spawned' = spawned + 1 /\ pid' = spawned + 1
    /\ phase' = "up" /\ cause' = "none"
    /\ boot' = "connecting" /\ attempt' = 1 /\ pollingRunning' = TRUE
    /\ startupTimer' = TRUE
    /\ armed' = FALSE /\ checking' = FALSE /\ quiet' = 0 /\ since' = 0
    /\ hung' = FALSE /\ silence' = 0 /\ calm' = FALSE
    /\ UNCHANGED <<holder, registered, script>>

Reap ==
    /\ pid # None /\ ~Alive
    /\ pid' = None
    /\ registered' = IF registered = "leaving" THEN "no" ELSE registered
    /\ UNCHANGED <<process, spawned, script>>

\* A bootout kills the process that takes longer than launchd's exit timeout.
TeardownKills ==
    /\ registered = "leaving"
    /\ Killed
    /\ UNCHANGED <<launchd, script>>

-----------------------------------------------------------------------------
(* The script                                                              *)

Goto(l) == pc' = l

Fail == pc' = "failed"

Listed == registered # "no"

Start ==
    /\ pc = "idle"
    /\ Goto(IF mode = "graceful" THEN "read" ELSE "validate")
    /\ UNCHANGED <<process, launchd, mode, oldPid, reported, since0>>

\* graceful_restart reads the pid before the config is validated.
ReadOldPid ==
    /\ pc = "read"
    /\ \/ /\ Listed /\ pid # None
          /\ oldPid' = pid /\ since0' = spawned
          /\ Goto("validate")
       \/ /\ Fail              \* not listed, no process, or no answer
          /\ UNCHANGED <<oldPid, since0>>
    /\ UNCHANGED <<process, launchd, mode, reported>>

Validate ==
    /\ pc = "validate"
    /\ \/ Goto(IF mode = "graceful" THEN "kill" ELSE "check")
       \/ Fail
    /\ UNCHANGED <<process, launchd, mode, oldPid, reported, since0>>

\* launchctl signals the service, whichever process that is by now, or fails.
KillTerm ==
    /\ pc = "kill"
    /\ \/ /\ Listed /\ pid # None
          /\ Goto("gone")
          /\ IF Alive THEN Shutdown ELSE UNCHANGED process
       \/ Fail /\ UNCHANGED process
    /\ UNCHANGED <<launchd, mode, oldPid, reported, since0>>

OldPidGone ==
    /\ pc = "gone"
    /\ ~Listed \/ pid # oldPid
    /\ Goto("running")
    /\ UNCHANGED <<process, launchd, mode, oldPid, reported, since0>>

\* is_registered: an answer that fails counts as "not registered".
CheckRegistered ==
    /\ pc = "check"
    /\ \/ Goto(IF Listed THEN "bootout" ELSE "bootstrap")
       \/ Goto("bootstrap")
    /\ UNCHANGED <<process, launchd, mode, oldPid, reported, since0>>

\* The exit code of bootout is ignored: it may also have done nothing.
Bootout ==
    /\ pc = "bootout"
    /\ Goto("unregistered")
    /\ \/ /\ Listed
          /\ registered' = IF pid = None THEN "no" ELSE "leaving"
          /\ IF pid # None /\ Alive THEN Shutdown ELSE UNCHANGED process
       \/ UNCHANGED <<registered, process>>
    /\ UNCHANGED <<pid, spawned, mode, oldPid, reported, since0>>

\* Mutant of Unregistered: the script goes on at once.
UnregisteredUnawaited ==
    /\ pc = "unregistered"
    /\ Goto("bootstrap")
    /\ UNCHANGED <<process, launchd, mode, oldPid, reported, since0>>

\* The wait for the teardown; a list that fails goes on waiting.
Unregistered ==
    /\ pc = "unregistered"
    /\ ~Listed
    /\ Goto("bootstrap")
    /\ UNCHANGED <<process, launchd, mode, oldPid, reported, since0>>

\* Mutant of Bootstrap: a failure of launchctl is ignored.
BootstrapForgiving ==
    /\ pc = "bootstrap"
    /\ registered' = IF Listed THEN registered ELSE "yes"
    /\ since0' = spawned
    /\ Goto("running")
    /\ UNCHANGED <<process, pid, spawned, mode, oldPid, reported>>

\* launchd refuses a label it already has, and may fail otherwise.
Bootstrap ==
    /\ pc = "bootstrap"
    /\ \/ /\ ~Listed
          /\ registered' = "yes" /\ since0' = spawned
          /\ Goto("running")
       \/ Fail /\ UNCHANGED <<registered, since0>>
    /\ UNCHANGED <<process, pid, spawned, mode, oldPid, reported>>

RunningPid ==
    /\ pc = "running"
    /\ Listed /\ pid # None /\ pid # oldPid
    /\ Goto("report")
    /\ UNCHANGED <<process, launchd, mode, oldPid, reported, since0>>

WaitTimesOut ==
    /\ pc \in {"gone", "unregistered", "running"}
    /\ Fail
    /\ UNCHANGED <<process, launchd, mode, oldPid, reported, since0>>

\* The pid is asked for once more; no answer prints an empty one.
Report ==
    /\ pc = "report"
    /\ reported' \in {pid, None}
    /\ Goto("ok")
    /\ UNCHANGED <<process, launchd, mode, oldPid, since0>>

ScriptStep ==
    \/ Start \/ ReadOldPid \/ Validate \/ KillTerm \/ OldPidGone
    \/ CheckRegistered \/ Bootout \/ Unregistered \/ Bootstrap
    \/ RunningPid \/ WaitTimesOut \/ Report

Next ==
    \/ (pid # None /\ ProcessStep) /\ UNCHANGED <<launchd, script>>
    \/ Spawn \/ Reap \/ TeardownKills
    \/ ScriptStep

Spec == Init /\ [][Next]_vars

FairSpec == Spec /\ ProcessFairness

-----------------------------------------------------------------------------
(* Properties                                                              *)

TypeOK ==
    /\ ProcessTypeOK
    /\ registered \in {"no", "yes", "leaving"}
    /\ spawned \in Nat /\ pid \in 0..spawned
    /\ pc \in {"idle", "read", "validate", "kill", "gone", "check", "bootout",
               "unregistered", "bootstrap", "running", "report", "ok", "failed"}
    /\ mode \in {"graceful", "plist"}
    /\ oldPid \in 0..spawned /\ reported \in 0..spawned /\ since0 \in 0..spawned

\* The script reports success only with a process that launchd started after
\* the old one's pid was read, or after the new plist was loaded: never the
\* process, or the definition, it was to replace.
RestartReportsNewProcess ==
    pc = "ok" => reported = None \/ reported > since0

\* The new plist is never bootstrapped while launchd still takes the old service
\* down: of the script's lists only one that answers, and no longer has the label,
\* ends the wait.
TeardownIsAwaited == pc \in {"bootstrap", "running"} => registered # "leaving"

=============================================================================
