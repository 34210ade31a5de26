----------------------------- MODULE BotProcess -----------------------------
(***************************************************************************)
(* One process of the Telegram bot, from its start to its exit: the        *)
(* start-up of bot/src/main.ts with its retries (bot/src/bot-startup.ts),  *)
(* the polling watchdog (bot/src/polling-watchdog.ts) and the graceful     *)
(* shutdown.  grammY's polling loop and Telegram are external: a start     *)
(* connects, announces itself to onStart and only then polls; a poll that  *)
(* meets another open one is refused with 409.                             *)
(*                                                                         *)
(* Time passes in intervals of the watchdog's timer.                       *)
(***************************************************************************)
EXTENDS Naturals

CONSTANTS
    MaxRetries,           \* attempts of startBotWithRetry (5)
    Threshold             \* intervals without updates before a heartbeat (10)

ASSUME ProcessAssumption == MaxRetries \in Nat \ {0} /\ Threshold \in Nat \ {0}

MaxQuietHeartbeats == 3

VARIABLES
    phase,                \* "up", "draining", "closing" or "exited"
    cause,                \* why it exited
    boot, attempt,        \* startBotWithRetry
    pollingRunning,       \* grammY's flag, cleared by stop()
    startupTimer,         \* the start-up timeout is pending
    armed,                \* the watchdog's timer is set
    checking, quiet,      \* a heartbeat is awaited; quietHeartbeats
    since,                \* intervals since lastUpdateTs
    hung,                 \* the calls of the polling loop return no more
    holder,               \* Telegram holds another open poll of the same bot
    silence,              \* history: intervals since the last update or the start
    calm                  \* history: the shutdown began in a settled bot

startup  == <<boot, attempt, pollingRunning, startupTimer>>
watchdog == <<armed, checking, quiet, since>>
telegram == <<hung, holder>>
process  == <<phase, cause, startup, watchdog, telegram, silence, calm>>

\* Histories saturate: nothing distinguishes longer times.
MaxSilence == MaxQuietHeartbeats * Threshold

Alive == phase # "exited"

\* A new process; what Telegram believes is not its to choose.
ProcessInit ==
    /\ phase = "up" /\ cause = "none"
    /\ boot = "connecting" /\ attempt = 1 /\ pollingRunning = TRUE
    /\ startupTimer = TRUE
    /\ armed = FALSE /\ checking = FALSE /\ quiet = 0 /\ since = 0
    /\ hung = FALSE
    /\ silence = 0 /\ calm = FALSE

Exit(why) == phase' = "exited" /\ cause' = why

Stays == UNCHANGED <<phase, cause>>

-----------------------------------------------------------------------------
(* Start-up                                                                *)

\* bot.start got through to onStart, which may run in a bot that is already
\* stopping.
Connects ==
    /\ Alive /\ boot = "connecting" /\ ~hung
    /\ boot' = "announcing"
    /\ startupTimer' = FALSE
    /\ armed' = TRUE
    /\ since' = IF armed THEN since ELSE 0
    /\ Stays
    /\ UNCHANGED <<attempt, pollingRunning, checking, quiet, telegram, silence, calm>>

\* Any error but a conflict ends the process, and so does a stop() that
\* aborts the calls of the start.
ConnectFails ==
    /\ Alive /\ boot = "connecting" /\ ~hung
    /\ Exit("failed")
    /\ UNCHANGED <<startup, watchdog, telegram, silence, calm>>

\* onStart returned; grammY polls unless it was stopped meanwhile.
BeginsToPoll ==
    /\ Alive /\ boot = "announcing" /\ ~hung
    /\ boot' = IF pollingRunning THEN "polling" ELSE "ended"
    /\ Stays
    /\ UNCHANGED <<attempt, pollingRunning, startupTimer, watchdog, telegram, silence, calm>>

\* 409: an attempt is used up, whenever in the life of the process it comes.
Conflict ==
    /\ Alive /\ boot = "polling" /\ ~hung /\ holder
    /\ IF attempt < MaxRetries
          THEN /\ boot' = "backoff" /\ pollingRunning' = FALSE
               /\ Stays
          ELSE /\ Exit("failed")
               /\ UNCHANGED <<boot, pollingRunning>>
    /\ UNCHANGED <<attempt, startupTimer, watchdog, telegram, silence, calm>>

PollFails ==
    /\ Alive /\ boot = "polling" /\ ~hung
    /\ Exit("failed")
    /\ UNCHANGED <<startup, watchdog, telegram, silence, calm>>

\* The backoff is over; nothing asks whether the bot was stopped meanwhile.
Retry ==
    /\ Alive /\ boot = "backoff"
    /\ boot' = "connecting" /\ pollingRunning' = TRUE
    /\ attempt' = attempt + 1
    /\ Stays
    /\ UNCHANGED <<startupTimer, watchdog, telegram, silence, calm>>

StartupTimeout ==
    /\ Alive /\ startupTimer
    /\ Exit("startup")
    /\ UNCHANGED <<startup, watchdog, telegram, silence, calm>>

-----------------------------------------------------------------------------
(* The watchdog                                                            *)

\* Mutant of Touch: the counter of quiet heartbeats survives an update.
TouchKeepsQuiet == since' = 0 /\ silence' = 0 /\ UNCHANGED quiet

Touch == since' = 0 /\ silence' = 0 /\ quiet' = 0

\* The middleware touches the watchdog before the update is looked at.
Update ==
    /\ Alive /\ boot = "polling" /\ ~hung
    /\ Touch
    /\ Stays
    /\ UNCHANGED <<startup, armed, checking, telegram, calm>>

\* Once the threshold is passed the timer's next check awaits a heartbeat.
CheckStarts ==
    /\ Alive /\ armed /\ ~checking /\ since >= Threshold
    /\ checking' = TRUE
    /\ Stays
    /\ UNCHANGED <<startup, armed, quiet, since, telegram, silence, calm>>

\* Mutant of HeartbeatAnswers: quiet heartbeats are not counted.
HeartbeatAnswersUncounted ==
    /\ Alive /\ checking
    /\ checking' = FALSE /\ since' = 0
    /\ Stays
    /\ UNCHANGED <<startup, armed, quiet, telegram, silence, calm>>

HeartbeatAnswers ==
    /\ Alive /\ checking
    /\ checking' = FALSE
    /\ quiet' = quiet + 1
    /\ IF quiet + 1 >= MaxQuietHeartbeats
          THEN Exit("quiet") /\ UNCHANGED since
          ELSE Stays /\ since' = 0
    /\ UNCHANGED <<startup, armed, telegram, silence, calm>>

HeartbeatFails ==
    /\ Alive /\ checking
    /\ checking' = FALSE
    /\ Exit("dead")
    /\ UNCHANGED <<startup, armed, quiet, since, telegram, silence, calm>>

Tick ==
    /\ Alive
    /\ since' = IF since < Threshold THEN since + 1 ELSE since
    /\ silence' = IF silence < MaxSilence THEN silence + 1 ELSE silence
    /\ Stays
    /\ UNCHANGED <<startup, armed, checking, quiet, telegram, calm>>

-----------------------------------------------------------------------------
(* Shutdown                                                                *)

\* Mutant of Shutdown: the watchdog goes on.
ShutdownKeepsWatchdog ==
    /\ phase' = IF phase = "up" THEN "draining" ELSE phase
    /\ calm' = IF phase = "up" THEN boot = "polling" /\ ~checking ELSE calm
    /\ pollingRunning' = IF phase = "up" THEN FALSE ELSE pollingRunning
    /\ boot' = IF phase = "up" /\ boot = "polling" THEN "ended" ELSE boot
    /\ UNCHANGED <<cause, attempt, startupTimer, watchdog, telegram, silence>>

\* What a SIGTERM or SIGINT does: the first begins the shutdown, which stops
\* the watchdog and the polling; the others are ignored.
Shutdown ==
    IF phase = "up"
       THEN /\ phase' = "draining"
            /\ calm' = (boot = "polling" /\ ~checking)
            /\ armed' = FALSE
            /\ pollingRunning' = FALSE
            /\ boot' = IF boot = "polling" THEN "ended" ELSE boot
            /\ UNCHANGED <<cause, attempt, startupTimer, checking, quiet, since,
                           telegram, silence>>
       ELSE UNCHANGED process

\* The turns ended or their time is up.
DrainEnds ==
    /\ phase = "draining"
    /\ phase' = "closing"
    /\ UNCHANGED <<cause, startup, watchdog, telegram, silence, calm>>

CloseEnds ==
    /\ phase = "closing"
    /\ Exit("done")
    /\ UNCHANGED <<startup, watchdog, telegram, silence, calm>>

-----------------------------------------------------------------------------
(* What the process cannot help                                            *)

Hangs ==
    /\ Alive /\ ~hung
    /\ hung' = TRUE
    /\ UNCHANGED <<phase, cause, startup, watchdog, holder, silence, calm>>

\* Another instance polls, an earlier one whose poll is still open or one
\* started by hand; Telegram lets go of it some time.
RivalPolls ==
    /\ holder' = ~holder
    /\ UNCHANGED <<phase, cause, startup, watchdog, hung, silence, calm>>

Killed ==
    /\ Alive
    /\ Exit("killed")
    /\ UNCHANGED <<startup, watchdog, telegram, silence, calm>>

ProcessStep ==
    \/ Connects \/ ConnectFails \/ BeginsToPoll \/ Conflict \/ PollFails
    \/ Retry \/ StartupTimeout
    \/ Update \/ CheckStarts \/ HeartbeatAnswers \/ HeartbeatFails \/ Tick
    \/ (Alive /\ Shutdown) \/ DrainEnds \/ CloseEnds
    \/ Hangs \/ RivalPolls \/ Killed

\* Timers fire, a heartbeat ends, one way or the other, since requests time
\* out, and the waits of the shutdown are bounded.  Nothing is assumed of
\* Telegram's polling.
ProcessFairness ==
    /\ WF_process(Retry)
    /\ WF_process(StartupTimeout)
    /\ WF_process(CheckStarts)
    /\ WF_process(HeartbeatAnswers \/ HeartbeatFails)
    /\ WF_process(Tick)
    /\ WF_process(DrainEnds)
    /\ WF_process(CloseEnds)

-----------------------------------------------------------------------------
(* Properties                                                              *)

ProcessTypeOK ==
    /\ phase \in {"up", "draining", "closing", "exited"}
    /\ cause \in {"none", "failed", "startup", "quiet", "dead", "done", "killed"}
    /\ boot \in {"connecting", "announcing", "polling", "backoff", "ended"}
    /\ attempt \in 1..MaxRetries
    /\ pollingRunning \in BOOLEAN /\ startupTimer \in BOOLEAN
    /\ armed \in BOOLEAN /\ checking \in BOOLEAN
    /\ quiet \in 0..MaxQuietHeartbeats
    /\ since \in 0..Threshold
    /\ hung \in BOOLEAN /\ holder \in BOOLEAN
    /\ silence \in 0..MaxSilence
    /\ calm \in BOOLEAN

\* The watchdog gives up a bot whose API still answers only after two
\* thresholds in which no update came, even if updates arrive while a
\* heartbeat is awaited, or the watchdog is stopped and started again.
PatientWatchdog ==
    cause = "quiet" => silence >= (MaxQuietHeartbeats - 1) * Threshold

\* From its first step to its shutdown a process has a timer that can end it:
\* no failure of the polling leaves a bot that is up and deaf for ever.
Guarded == phase = "up" => startupTimer \/ armed

\* The shutdown of a bot that polls while no heartbeat is awaited is never cut
\* short by the bot's own timers: the turns under way get their time.
CalmDrainRunsOut ==
    phase = "exited" /\ calm => cause \in {"done", "killed"}

\* A process whose polling hangs, in the start-up or later, exits, and so does
\* one that was told to shut down.
StuckProcessesExit == (Alive /\ (hung \/ phase # "up")) ~> ~Alive

=============================================================================
