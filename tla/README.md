# A verification project for the Telegram/Discord agent bot

The repository is a TypeScript bot that connects Telegram and Discord chats to
"Pi" coding agents.  Each chat gets a subprocess of its own (`pi --mode rpc`),
spoken to over stdin/stdout in JSON lines.  Around that core run a cron runner,
an echo watcher (messages that scripts deliver to a chat are shown to the chat's
agent), a quota sampler, a polling watchdog and a restart script.

This directory holds TLA+ models of it, the TLC configurations that check them
on small instances, and proofs that TLAPS checks for every instance.

## 1. Inventory

Everything runs in one JavaScript event loop per process, so an atomic step is
"from one `await` (or timer, or event) to the next".  What makes the system hard
is that handlers hold state across awaits: a turn, a spawn, a crash backoff or a
close may be suspended while another handler changes the maps they come back to.

| component | state | operations | talks to | hard because of | correct when |
|---|---|---|---|---|---|
| Message queue (`message-queue.ts`) | per chat: debounce buffer, collect buffer, timer, `busy`; per turn: its batch and callbacks | `enqueue`, `flush`, `drainCollectBuffer`, `transferOwnership`, `clear`, `cancelAllDebounceTimers`, `clearAll`, `evictIfIdle` | bot handlers call it; it calls `processFn` (relay) and the cleanup callbacks | `clear` while a turn is suspended, then a new entry and a second turn of the same chat; failure before or after the agent owns the media; caps | every callback runs exactly when it must, messages keep their order, none is stranded, entries are evicted |
| Session manager (`session-manager.ts`) | `active` map, `restartCounts`, `sessionsActive` gauge, per session: child, PQueue, idle timer, `processingStartedAt` | `getOrCreateSession`, `sendSessionMessage`, `closeSession`, `destroySession`, `evictIfNeeded`, crash recovery, idle timer, `gracefulShutdown`, `closeAll` | queue's `processFn`, session store, media store, Pi processes | every await of a spawn (eviction, backoff, start-up) overlaps closes, crashes and other spawns | at most one live child per chat is known to the map, no child leaks, crash loops are bounded, a cleaned session is not resumed |
| Session store (`session-store.ts`) | JSON file, in-memory map | get/set/delete with tmp + rename | session manager, cron | crash between write and rename | file is always a complete older or newer map |
| Stream relay (`stream-relay.ts`) | accumulated text, draft state, outbox | `relayStream` | queue, session stream, platform adapters | failures after the first chunk, silent replies, drafts that settle late | ownership is signalled at the first event, nothing is sent twice |
| Pi RPC protocol (`pi-rpc-protocol.ts`) | per stream: splitter buffer, turn state | spawn, write commands, split and parse events, `readPiStream` | child processes | chunk boundaries, retries, late events of an earlier turn | a turn ends with exactly one result |
| Media store (`media-store.ts`) | media files, in-flight set | allocate, release, discard, clean-up (full, stale), cap enforcement | bot handlers, session manager | clean-up races downloads and queued messages | files a waiting message names are not deleted by clean-ups that promise to spare them |
| Telegram and Discord bots (`telegram-bot.ts`, `discord-bot.ts`, adapters) | the configuration's bindings; temporary files of Discord attachments | message, media, voice, command and reaction handlers | queue, session manager, media store, caches | Telegram handlers run one by one and their updates come again after a crash; Discord handlers overlap at every download | a message goes to the conversation and agent its binding says, an attachment lives as long as it is needed |
| Main (`main.ts`) | `shuttingDown`, queues, bots | start, `shutdown` | all of the above | handlers still in flight while shutting down | files of busy sessions outlive the wait |
| Polling watchdog (`polling-watchdog.ts`) | last update, quiet heartbeats, awaited check | `start`, `stop`, `touch`, `check` | Telegram API, process exit | `touch` or `stop` during the awaited heartbeat | a live bot is left alone for two thresholds, a deaf one exits |
| Bot start-up (`bot-startup.ts`) | attempt counter | `startBotWithRetry` | Telegram API, start-up timer of main | a conflict at any time in the life of the process; retries overlap shutdown and timer | it polls, or the process ends |
| Cron runner (`cron-runner.ts`) | per run: task, output; metric files, log | load, run script or Pi, classify, deliver, notify, write metrics | `deliver.sh`, Pi | each step after the work may fail, and a request outlives its sender | a success was said in full, a failure is told to somebody |
| Echo spool (`echo-watcher.ts`, `deliver.sh`) | echo files | write, poll, handle, delete | the running turn of the chat | crash or error between handling and deletion; half-written files | what is told was posted, and told once; the spool empties |
| Reaction caches (`message-thread-cache.ts`, `message-content-index.ts`) | bounded maps, saved at shutdown | record, look up, evict, save, restore | Telegram handlers, adapters of turns | the bound, overwriting at the bound, loss in a crash | a reaction goes to its topic or its chat, the newest entries survive |
| Codex quota sampler (`codex-quota-sampler.ts`) | cache file, two text files, a scratch file per run | probe, capture, two-file write with rollback, record of the attempt | Pi probe process, `/status`, Prometheus | overlapping runs, death between two renames, late answers | only good probes are shown, failures keep the last good values |
| Restart script (`restart-bot.sh`) | launchd's view of the service | graceful restart, plist reload | launchd, bot process | the service changes between two calls; every wait may time out | the process it reports is not the one it replaced |
| Configuration (`config.ts`) | what was loaded at the start | merge, validate, look up | both bots | arrays replaced by local files, order of bindings, overrides | the most specific binding decides, and names a configured agent |

## 2. Modules

| module | models | composed with |
|---|---|---|
| `MessageLifecycle` | the promise of the message queue to one message | the abstract specification of `MessageQueue` |
| `MessageQueue` | `message-queue.ts`, and the steps of `shutdown()` in `main.ts` that touch it | `Lifecycle == INSTANCE MessageLifecycle WITH status <- ...` |
| `SessionManager` | `session-manager.ts`, the map of the session store, `/reconnect` and `/clean` | relies on the theorem `OneTurnPerEntry` of the queue (see below) |
| `MediaStore` | `media-store.ts`, the media handlers of `telegram-bot.ts`, and of turns and sessions what touches a media file | relies on `MessageLifecycle` for the queue (see below) |
| `TurnReply` | the promise of a turn to the chat | the abstract specification of `PiTurn` |
| `PiTurn` | `stream-relay.ts`, the protocol half of `pi-rpc-protocol.ts`, and `sendSessionMessage` from the prompt to the result | `Reply == INSTANCE TurnReply WITH stage <- ...`; composes relay, reader and subprocess; relies on `MessageQueue` for the order of turns |
| `BotProcess` | one process of the bot: `bot-startup.ts`, `polling-watchdog.ts`, start and shutdown of `main.ts` | extended by `BotService` |
| `BotService` | `restart-bot.sh` and launchd as the script uses it | composes the script with a succession of `BotProcess` processes |
| `CronDelivery` | `cron-runner.ts`, `deliver.sh`, `echo-watcher.ts` | composes cron runs, the delivery script, the echo spool and the bot |
| `QuotaSampler` | `codex-quota-sampler.ts` and the file writer of `codex-usage.ts` | any number of concurrent processes over shared files |
| `BotConfig` | `config.ts`, and the look-up of bindings in both bots | extended by the next two |
| `ChatRouting` | the handlers of `telegram-bot.ts`, both reaction caches, their saving and restoring in `main.ts` | extends `BotConfig` |
| `DiscordIntake` | the handlers of `discord-bot.ts` with their temporary files | extends `BotConfig` |
| `ChatPlatforms` | the bots of `main.ts` under one configuration | composes `ChatRouting` and `DiscordIntake` |

`MC<module>` are the instances for TLC.  `MessageQueue_proofs`,
`SessionManager_proofs`, `MediaStore_proofs`, `PiTurn_proofs`,
`BotService_proofs`, `CronDelivery_proofs`, `QuotaSampler_proofs` and
`ChatPlatforms_proofs` hold the theorems.

Definitions introduced as "Mutant of X" or "A bug" are operations with a
plausible bug; no specification uses them.  Each shows that a property can tell
the difference: with it in the place of the real operation, TLC finds that
property violated.

### MessageQueue

*State.*  `queues` is the `Map` of `ChatQueueState`; the three parallel arrays of
a buffer are pushed and spliced together, so a buffer is a set of arrival
numbers.  `turn` is the suspended `flush`/`drainCollectBuffer` of the entry that
is in the map and `stale` the suspended ones whose entry `clear` has deleted.
`evicting` counts flushes whose last await has settled but whose `evictIfIdle`
has not run yet.  `phase` is the progress of `shutdown()`.  `cleaned`, `dropped`,
`agentOwns` and `handed` are histories: what was called and for which message.

*Actions.*  `EnqueueCollect`, `EnqueuePending`, `EnqueueDrop` are the branches of
`enqueue`; `Flush` runs from the timer to the first await; `TransferOwnership`
is the callback the relay calls; `ProcessFails` is the catch block up to
`replyError`; `FinishTurn` is everything from the `finally` to the next await:
callbacks, `busy`, and either the next batch of the drain loop or the way to
`evictIfIdle`; `StaleFails` and `FinishStale` are the same for a detached turn;
`Clear`, `CancelAllDebounceTimers`, `ClearAll` and `Exit` are what they are called.

*Abstraction.*  Message texts, platforms, typing indicators and logs are left
out.  A callback is a counter.  An `onAgentOwnership` call may come at any time
of a turn, and never; `processFn` may fail at any time.

### SessionManager

*State.*  `active` is the map from chat to the subprocess of its session;
`children` has every subprocess ever started with the fields of its session
(`killed`, idle timer, the conversation Pi works on, the session id the bot
believes in).  `call` holds the suspended calls of `sendSessionMessage` with the
locals `getOrCreateSession` carries over its awaits; `ahead` is the order in each
session's `PQueue`.  `store`, `restarts` and `gauge` are the session store, the
crash counts and the metric of active sessions.

*Actions.*  A call goes through `Reuse`, or `Create` (the dying entry is dropped
and, at the limit, a victim is closed), `Resolve` (stored session, circuit
breaker), `BackoffEnds`, then `Install`, `ResumeNotFound` or `StartupFails`; in
the session's queue, `StartTurn` or `PromptFails`; then `GetResult` or
`StreamEnds`.  Around it run `Reconnect`, `Clean`, `IdleTimerFires`, `CloseAll`,
`ActivityTimeout` and `ChildExits`.

*Interface to the queue.*  A turn of a chat begins only if every suspended call
of that chat belongs to a turn that was cleared (`Begins`).  That is the theorem
`OneTurnPerEntry` of `MessageQueue`: an entry has at most one turn, and only
`clear` makes a second entry of a chat possible.

*Session ids.*  Pi mints an id when a conversation begins; the model numbers it
by the subprocess that began it.  If `get_state` does not answer, the bot stays
on an id of its own that Pi does not know, and resuming it fails with "No session
found".  The model lets both happen at every start.

*Histories.*  `disturbed` has the chats whose queue was cleared while a spawn of
theirs was suspended.  The properties that name it are promises the code keeps
for all other chats; for disturbed ones the code breaks them, see Findings.

### MediaStore

*State.*  `disk` and `dirs` are the files and the per-chat directories that
exist, `inflight` is `inflightMediaPaths`, `stage` says how far a file and its
message have come, from `new` to one of three ends: `kept` (the agent owns it and
its session's end deletes it), `reclaimed` (discarded) and `lost` (on disk when
the process ended).  `turn` has the suspended turns with their batch and the
point their spawn has reached; `active` and `stored` are the chats with a session
in memory and in the session store, `cleaning` those whose `/clean` awaits an
exit.

*Actions.*  `AllocateMediaPath`, `WriteFile`, `DownloadFails` and `Enqueue` are a
media handler between its awaits.  A turn starts with `Reuse`, `Spawn` or
`ConfigFails`, spawns with `Resolve`, then `Install`, `ResumeNotFound` or
`StartFails`, runs with `StartTurn` and `TransferOwnership`, and `EndTurn` runs
the queue's callback: `releaseMediaPath` for a batch the agent owns, else
`discardMediaPath`.  `IdleTimerFires`, `ChildExits`, `Reconnect`, `Clean`,
`CleanEnds` and `Restart` end sessions or the process.

*Abstraction.*  A file has a chat chosen in `Init`, which nothing reads before the
file is allocated; it has size one, and its number is the rank of its
modification time.  Of the queue only the promise of `MessageLifecycle` is kept:
all that waits in a chat goes to one turn, at most one turn of a chat is open,
and each message ends in exactly one clean-up.  `StartTurn` may fail whenever the
subprocess may be gone, and does not say why.  The idle timer is assumed to be
longer than one download and the debounce together.  grammY hands over an update
when the handlers of the one before are through (`HandlerIsFree`), so no download
begins during another one, nor while a `/clean` awaits the exit of a subprocess,
and no `/clean` during a download.

*Histories.*  `wiped` has the files that were under way when their directory was
wiped, `disturbed` is as in `SessionManager`.

### PiTurn

*State.*  Three parties meet in it.  A Pi subprocess has `prompts` it has not
begun and the turn it works on (`run`); what it writes goes into `pipe`.  The
queue task of `sendSessionMessage` (`task`, `on`) reads chunks off the pipe: `ready`
counts the records of the chunk in hand that are still to be parsed, `cut`
says that the record after them is half read, `held` that the turn's own
`NewlineOnlyJsonlSplitter` has that half.  It pushes parsed records to `lines`, which
`relayStream` takes one by one: `relay` is the place in its code, `text` is
`accumulated`, `draftTimer` the debounce timer, `chunks` what is left to send,
`entries` and `file` the loop of `sendOutboxFiles`.

*Actions.*  `ReuseSession`, `SpawnSession` and `TurnFailsToStart` begin a turn;
`ReadChunk` (a chunk arrives), `ReadRecord` (one of its records is parsed),
`StreamEnds` and `ActivityTimeout` are the task; `RelayLine`,
`RelayResult`, `RelayThrows`, `Settle`, `SendChunk`, `ReadOutbox`, `SendFile`,
`FileSent` and `RelayEnds` are the relay between its awaits; `Close` and
`ChildDies` end the session, one with its outbox, the other without.

*Abstraction.*  An answer is the sequence of its text deltas, and a record says in
`part` how many of them have come with it.  A chunk is any
number of whole records and perhaps the first half of the next; the second half
alone is a record that does not parse.  Two kinds of records stand for all
others: one that `parsePiEvent` drops, one that becomes a line without text.
Paragraph breaks, splitting at the maximal length and Markdown are left out.  A
draft is fire and forget, so only its timer is state.  An answer has at most two
chunks: one whose failure fails the turn and one whose failure is logged.  A
subprocess that is told to stop dies at once; the five seconds it may take are in
`SessionManager`.

*Pi* is not part of the repository.  The model lets it do what the code relies
on: one run per prompt, prompts in order (that is what "followUp" asks for), and
exactly one terminal record per run, after all its text ("`agent_end` fires exactly
once at the very end of a run").  It may be silent, reject a prompt or die at any
point.

*The promise* (`TurnReply`).  A turn opens; Pi says deltas and ends the run; each delta
is shown in turn, and may leave a draft to be sent; the reply is complete only when
the run has ended and exactly what was said is shown, and no draft follows; it fails
when no end of the run came, or when the chat took none of it.  `PiTurn`
implements it with `StageOf` (the place in the relay's code), `EndedOf` (the record
that ends the run is unread, or has ended the reading), `ShownOf` (`text`) and the
draft timer.  Pipes, chunks, lines, closes and deaths are steps in between that the
chat must not notice.

*Observations*, none of them against a statement of the code: a NO_REPLY answer
returns before the outbox is sent, so its files wait for the next turn; a close by
the idle timer or an eviction while an answer is still being sent wipes its
outbox (`wiped`); after a `/reconnect` two turns may send the same file
(`FilesArriveOnce` excludes detached turns).

### BotProcess and BotService

*State.*  `boot` and `attempt` are the place in `startBotWithRetry` and its
counter, `pollingRunning` is grammY's flag, which `stop()` clears.  `armed`,
`checking`, `quiet` and `since` are the watchdog: its timer, the awaited
heartbeat, `quietHeartbeats`, and the time since `lastUpdateTs` in intervals of
the timer.  `phase` and `cause` are the life of the process and what ended it.
`pid`, `spawned` and `registered` are launchd's (`leaving` while a bootout takes the
service down), `pc`, `mode`, `oldPid` and `reported` the script's.

*Actions.*  Start-up is `Connects`, `ConnectFails`, `BeginsToPoll`, `Conflict`,
`PollFails`, `Retry` and `StartupTimeout`; the watchdog is `Update`,
`CheckStarts`, `HeartbeatAnswers`, `HeartbeatFails` and `Tick`; the end is
`Shutdown`, `DrainEnds`, `CloseEnds`.  `Spawn`, `Reap` and `TeardownKills` are
launchd.  Each action of the script is one call of `launchctl` or one wait; a wait
may time out at any moment, a `launchctl` answer may fail, and so may the calls
themselves: a `kill` of a listed process, a `bootout` (whose error the script
ignores) and a `bootstrap`.

*Abstraction.*  Time is counted in intervals of the watchdog; other delays are
unordered.  A heartbeat spans any time.  Telegram is a flag that another poll is
open (`holder`), and calls of the polling loop may hang for ever (`hung`).  What the
shutdown waits for is `gracefulShutdown` and `closeAll`, modelled in `SessionManager`
and `MessageQueue`; here each is a bounded wait.

### CronDelivery

*State.*  Of each run `pc` is the place in `main()`, `parcel` the message
`deliver.sh` works on, its chunk and its step (HTML attempt, plain attempt, echo
file).  `said` and `noted` are what the chats show, `landing` requests that
outlived their sender.  `successProm` and `exitProm` are the two metric files.
`spool` is the echo directory: messages, and whether the file is whole JSON.
`handling` is the file between the handler and `unlink`.

*Actions.*  `LoadCronTask` to `WriteExit` are the run; `LogFails` is the unguarded
append to the log, which may throw anywhere; `Killed` ends the process.
`Accepted`, `AnswerLost`, `Refused`, `DeliverTimeout` and `WriteEcho` are
`deliver.sh` under `set -e` and `execSync`'s timeout.  `HandleFile`, `DeleteFile`,
`DeleteFails` and `DiscardMalformed` are the watcher, `BotCrashes` and `BotStarts`
the bot around it.

*Abstraction.*  The work of a run (script or Pi, with its own timeouts and
retries) is one choice: an output of some number of chunks, nothing to say, or a
failure.  Echo files within one second sort by a random suffix, so the spool is
a set.  Files and directories of another user, which the watcher skips, are none
that `deliver.sh` wrote and are left out.

### QuotaSampler

*State.*  Four shared files: the settings, the cache, two Prometheus texts.  Of each
run: its place (`pc`), the process it probes with (`child`), the scratch file that
process writes (`attemptFile`), the snapshot it took over (`captured`) and the
cache as it read it (`seen`).  A snapshot is the time it was taken at.

*Actions.*  One per system call on a shared file.  `Capture`, `ChildExits` and
`TimeoutFires` are the probe, which may answer late, ignore SIGTERM or live on
after its sampler was killed.  `ReadPrevious` to `RollbackFails` are
`atomicWriteFiles` with its rollback, `ReadState` to `WriteMetrics` the record of
the attempt.  `Crash` may come between any two steps.

*Histories.*  `overlapped` has runs that shared some time with another one, `torn`
runs that stopped between two renames; properties about the agreement of the files
speak of neither, since the code has no lock and no journal.  `SuccessIsWhole` too
speaks of a run that met no other: one that overlaps may meet the cache another
one's rollback has just emptied, skip its record of the attempt and still succeed.

### BotConfig, ChatRouting, DiscordIntake, ChatPlatforms

*State.*  `config` is what `loadConfig` returned.  On the Telegram side `inbox`,
`batch` and `done` are the updates Telegram holds, those fetched and those
given to a handler since; `sending` has the answers that are in the chat and whose
request an adapter still awaits; `threads` and `index` are the two caches, `disk` their files, `handed`
what the handlers passed on (session key, agent, and the place the message really
stands in).  On the Discord side `job` is the handler of each message, `files` the
temporary files and `queue` the entries of the message queue, for each conversation
in the order they were put in.

*Actions.*  Telegram handlers run one after the other (grammY awaits them):
`RejectUnauthorized`, `IgnoreMessage`, `HandleMessage`, `Transcribed`,
`TranscriptionFails`, `HandleReaction`.  `BotPosts` is a turn answering through its
adapter, which fills the caches when Telegram has confirmed the message
(`PostConfirmed`): a reaction may overtake that.  `Start`, `Shutdown`, `Save`, `Exit`
and `Crash` are the life of the process.  `Shutdown` confirms what was given to a
handler; grammY hands over the rest of its batch all the same, and these updates,
like all that were not confirmed, come again after the next start.  Discord handlers run concurrently: `MessageCreate`, `ImageDownloaded`,
`ImageFails`, `AudioTranscribed`, `AudioFails`, `Command`, `Consume`.

*Abstraction.*  A field of a configuration file is a value, absent, of the wrong
type, or blank (`ConfigAssumption` says which field may hold what, and nothing
more); everything routing does not read is one flag, `sound`.  A message
is its chat and its number.  A mention and the age of a message are choices.  The
download inside a Telegram file handler is one step here and several in
`MediaStore`.  The replacement of a cache file is atomic (temporary file and
rename).

## 3. Runs

All runs pass but the two of section 6.  All bounds are CONSTANTs of the modules;
there are no state constraints.  `CHECK_DEADLOCK FALSE` is set everywhere because
the bot may stop (`Exit`, `CloseAll`, `CloseEnds`) and because the bounded supply
of messages, runs and processes runs out.

| run | question | properties |
|---|---|---|
| `queue_turns` | do bursts past the cap, failures, clears in mid-turn and a shutdown leave every message with the right callbacks and something that will take it out? Does each go through the promised lifecycle, in order, and do entries go away? | `CleanedOnce`, `HasAWaker`, `EntryIsBounded`, `ImplementsLifecycle`, `HandedInOrder`, `EventuallyReleased`, `EntriesAreEvicted` |
| `session_chat` | one chat: do the map, the processes and the store stay consistent? | `TimersHaveTheirSession`, `LiveChildrenAreOwned`, `OneWriterPerConversation`, `StoreIsCurrent`, `CleanForgets` |
| `session_limits` | two chats over the limit: is the gauge exact and the excess bounded? | `GaugeCountsSessions`, `SessionsStayBounded` |
| `session_live` | does every call end? | `CallsEnd` |
| `session_gauge`, `session_clean` (violations) | see section 6 | one each |
| `media_files` | does a file live as long as its message needs it? | `TrackedUntilSettled`, `PendingFilesExist` |
| `turn_answers` | does a turn deliver its own whole answer and keep the promise of `TurnReply`, do files arrive once, does every turn end? | `AnswerIsWhole`, `ImplementsReply`, `FilesAreKept`, `FilesArriveOnce`, `TurnsEnd` |
| `service_life` | is a live bot left alone and a stuck one ended, is a calm drain not cut short, does a restart wait for the old service and report the right process? | `PatientWatchdog`, `CalmDrainRunsOut`, `RestartReportsNewProcess`, `TeardownIsAwaited`, `StuckProcessesExit` |
| `cron_runs` | are outputs posted in order and once, are successes real, failures told and echoes steered once? | `ChunksInOrder`, `SuccessMeansSaid`, `FailuresAreTold`, `EchoesComeOnce`, `SpoolDrains` |
| `quota_runs` | do overlapping, dying and half-failing samplers show only good snapshots? | `OnlyCleanProbesShow`, `CacheIsLastGood`, `SuccessIsWhole`, `RunsEnd` |
| `routing` | do messages, reactions and attachments reach the conversation and agent the bindings say? | `RoutesFollowTheBindings`, `ReactionsFindTheirTopic`, `IndexKeepsTheNewest`, `AttachmentsAreSettled` |

*Queue.*  Chats share nothing but the event loop, so one.  A cap of one with five
messages fills either buffer, overflows it, and leaves messages for the drain loop
and for a second entry after a clear.  That a chat does not disturb another, and
batches of more than one message, are covered by the theorems.

*Sessions.*  Within a chat the interesting overlap is a call that was cleared and
the one after it, so two calls; three subprocesses are an old one that is dying,
one that is starting and its replacement, and the resume of a conversation two
subprocesses old.  `MaxRestarts = 2` lets a chat crash, back off, crash again and
be blocked.  Evictions need two chats and a limit of one.  The code's own limits
(five restarts, a configured number of sessions) appear only in comparisons with
counters.

*Media.*  Two chats share the cap and evict one another's sessions; with a cap
of one, the second of two files brings eviction about while the first is at any
stage.  One turn at a time is what fits into the run with two chats; overlapping
turns of one chat are covered by the theorems.

*Turns.*  What a turn may find on its pipe is left there by the turn before it or
by the start of the subprocess, so two turns; two subprocesses let a session end
between or within them.  Two deltas can be cut apart, put in one chunk or put out
of order.  One file is enough to send it twice or lose it.  `turn_answers` (291,042
states) detaches no turn, as one detached turn and liveness do not fit into one run;
without the liveness property and with one delta the module passes with
`MaxCleared = 1` too (5.4 million states), where TLC found the inductive invariant
of the proof (`StreamInv`) to hold as well.

*Service.*  Two attempts make one retry; a threshold of two tells "updates came in
the first half" from "none came"; three processes are the one to replace, one that
launchd put in its place before the script looked again, and the next.

*Cron.*  Runs of one task share only the metric files and the spool, and `SuccessMeansSaid`
names the run a file belongs to; one run with three chunks (a first, a middle and a
last one) is what fits into the five minutes a run is given (1.4 million states).
Two crashes of the bot, so that an echo can be repeated twice.

*Quota.*  Two runs suffice for one to overlap or follow another; at most two
responses each (`MaxClock = 4` with two starts) let a late answer replace an
earlier one.  With two runs, a run that met no other has no others that overlapped
before it; that `SuccessIsWhole` holds beside such (three runs do not fit) is shown
by the theorem alone.

*Routing.*  Ten pairs of files: exact, chat-wide, listed, ill-typed, blank and
invalid bindings in different orders, merged over a base; and the same for Discord.
Some are rejected; others drop an ill-typed `topicId` or `requireMention` (`Lax`, the
last override of `Listed`) or take a blank agent and are routed with the rest.  Caches
of two entries and three messages overflow; two starts save, restore or lose them.
One update at a time waits at Telegram, so batches have one update; the theorems
hold for any.  Of the kinds of messages the run has files, voice messages and
commands; a text does what a file whose download succeeds does, and a `/start` or
`/status` is recorded like a command and answered like a file that fails.

## 4. Fairness

*Queue* (`Fairness`): timers fire, continuations that are queued run, and every
`processFn` and `replyError` settles.  The last is what `session_live` shows of
the session manager: a call always ends.  Nobody is obliged to send messages, to
clear or to stop, and agents are not obliged to take ownership or to fail.

*Sessions* (`Fairness`): the awaits of a spawn end by timers in the code
(`waitForSpawn`, the `get_state` capture, the backoff, the five-second exit
wait); a queued task runs when the tasks before it have ended; a turn either
ends or stays silent until the activity timeout; a subprocess that was signalled
exits, at the latest through the SIGKILL that follows five seconds later.  Pi is
not obliged to answer.

*Turns* (`Fairness`): a record that was written is read, a line that was pushed is
relayed, calls of the chat platform settle, and the activity timer fires when
nothing has come for its whole interval.  Pi owes nothing.  A run has a bounded
number of records in the model: a Pi that talks for ever keeps its turn open for
ever, in the model of `sendSessionMessage` as in the code.

*Process* (`ProcessFairness`): timers fire (back-off, start-up timeout, watchdog),
a heartbeat ends one way or the other because grammY's requests time out, and both
waits of the shutdown are bounded by timers.  Nothing is assumed of Telegram or of
the polling loop: it may hang for ever, which is what the watchdog is for.

*Sampler* (`Fairness`): a process that was not killed takes its steps and its two
timers fire.  The child may hang and may ignore SIGTERM.

*Cron* (`FairSpec`): the work and `deliver.sh` have timeouts, so a run takes its
steps; launchd restarts the bot; the watcher polls while the bot is up.
Deleting a file, handled or malformed, is assumed to succeed some time if it is
tried again and again (strong fairness of `Delete`; a failed discard is a stutter,
which the weak fairness of `Take` does not count): a file that can never be deleted
stays, and the code says so by ignoring the error.

## 5. Proofs

The theorems hold for every value of the constants under the assumptions named in
the modules (`QueueCapAssumption`, `MaxMessagesAssumption`, `MediaAssumption`,
`PiTurnAssumption`, `MaxClockAssumption`, `ProcessAssumption`, `ServiceAssumption`,
`ConfigAssumption`, `RoutingAssumption`, `DiscordAssumption`, and the `BoundsAssumption` of
`SessionManager` and of `CronDelivery`).  The `Max...` constants are bounds of
the models, but as the theorems hold for every value of them, they hold for any
number of messages, starts, runs and so on.

`MessageQueue_proofs` proves `CleanedOnce`, `HasAWaker`, `HandedInOrder`, the
refinement of `MessageLifecycle`, and five invariants that no run repeats:
`TypeOK`, `DroppedUnlessOwned`, `BusyIsTheTurn`, `OneHome`, `TurnKnowsOwner` and
the step property `HandedIntact`.  They are not inductive one by one.
`BusyIsTheTurn` and `HasAWaker` (together `Local`) are: they speak of one entry and
its turn.  `OneHome` needs `Local`, since a flush would otherwise overwrite a
running turn's batch.  `TurnKnowsOwner` needs `OneHome`: ownership of one batch must
not say anything about another.  `CleanedOnce` and `DroppedUnlessOwned` (together
`Counts`) need all of them, because "gone" is defined by the absence from every
buffer and turn.  Their conjunction `Inv` is inductive (`InvStep`).  The step lemmas
first show what an action does to *places* (a message joins a buffer, a batch is
handed over, a turn lets go), and the counts follow from that.  `EntryIsBounded` follows
from `Local` once each buffer and each batch alone is known to fit (`Capped`).

`SessionManager_proofs` proves every safety property of the session runs.  Most actions
do to the map and the subprocesses one of four things: a session is closed
(`Closes`), a subprocess started (`Starts`), its session put in the map (`Installs`),
or a subprocess signalled or gone (`Hurts`); each shape is shown once to keep
the invariants.  `Sound` says that unborn subprocesses are those above `born`,
that a starting subprocess belongs to one call and is in neither the map nor
`overwritten`, and carries the gauge, the ownership of live subprocesses and the
idle timers (`TimersHaveTheirSession`, of which `ActiveIsAlive` is a part) with it.
`Traffic` says that an undisturbed chat has one open call that was not cleared, and no
session while that call spawns; it rests on `Begins`.  `Memory` says that every id
stored, held or about to be resumed is `Fresh`: begun in its own chat, and after the
last `/clean` unless the chat was disturbed.  `StoreIsCurrent` is
a part of it and `CleanForgets` follows; `OneWriterPerConversation` needs all three, because two writers would
have to be a session and a spawn of one chat.

`MediaStore_proofs` proves the two properties of `media_files`, and
`FilesHaveOwners` and `FreshSessionsFindNoMedia`.  `TrackedUntilSettled` and
`PendingFilesExist` are inductive with the types: eviction and the stale wipe
spare what is in flight, and a pending file is in flight.  The other two are not:
a turn may end with the agent owning its files and no session left to delete them,
unless it is known that (`Carriers`) while files of a turn exist its session does
and (`Batches`) they are its chat's and nobody else's, and that (`Spawns`) a
spawning turn of an undisturbed chat finds no session and was not cleared.
`Spawns` holds because at most one turn of a chat is open (`OneOpenTurn`).

`PiTurn_proofs` proves the types, the safety properties of `turn_answers`, and that
no draft is left when the stream has ended. For drafts and files, `Delivery` adds to
them that a turn begins only when those before it have settled or were detached
(`InTurn`), that only placed files are awaited or received (`PlacedBefore`), that a
received file has left the outbox (`SentIsGone`), and that a file whose sending is
awaited was not received before (`AwaitedOnce`), the last two unless it could not be
deleted or turns were detached.

For the answer, `StreamInv` follows the deltas of a turn from Pi to the relay.  The count
`part` goes on without a gap from the text of the relay through its lines to
the records in the pipe, and ends with what Pi has said (`Chain`, `End`, in `Reads`
and `Relays`).  A record lost, repeated or put out of order anywhere would break the
chain; the one record a reader may lose is the late answer to `get_state`, whose first
half an earlier reader can have taken.  That nothing else is in the way of a new
reader is `SessionServes` (a session nobody reads from is quiet), and this
holds because only the current session lives (`Living`) and at most one turn reads from a
subprocess (`Apart`).  When the result is taken the pipe has nothing behind it,
so that what the relay then has is all of it: `AnswerIsWhole`.

`TurnsImplementReply` maps each step.  `ReuseSession`, `SpawnSession` and
`TurnFailsToStart` are `Begin`; `PiSays` is `Say`; `PiEnds` and a rejected prompt
are `EndRun` if the turn is read; a `RelayLine` with text is `Show`; `DraftTimerFires` is
`SendDraft`; `RelayResult` is `Complete`; `RelayThrows` and a failing `SendChunk` are
`Fail`; the last step of the relay is `Deliver`; all others stutter.  The hard ones
are `Show` and `Complete`, which need `StreamInv`: the next line is the next delta, and
the result comes when text and answer are equal.  That the counts of a chain never
fall (`ChainRises`) is shown with a least counterexample, as induction over sequences is
not available.

`CronDelivery_proofs` proves the four safety properties of `cron_runs`.  `Said` derives
from the place of a run what the chat shows of it: while it sends chunk n, the n - 1
before it and nothing under way; a request that outlived its sender is for
the next chunk, so none lands late or twice.  `Metrics` adds that what a
metric file says of a run is said of one that has ended and whose output no longer
changes.  `Told` is about notes that were accepted but not yet returned from.  `Echoes` relates the
spool to what was posted, and by `Singles` one file at most stands for a message.

`QuotaSampler_proofs`: `OnlyCleanProbesShow` is inductive with `CleanInv`, which
adds that what a run took over came from a clean probe and that the cache as a run
read it was clean then; a rollback restores a clean value even if it is an old
one.  `CacheIsLastGood` and `MalformedOnlyInRollback` need `AloneInv`: if no
two runs overlapped, at most one is active (`Alone`), and the difference of the two
files is known from the place of that one (`Together`, `Midway`).
`AttemptFilesAreDiscarded` rests on `Settled`: a run past its probe has no living
child, so nothing answers late.  `SuccessIsWhole` needs all of these, and `WholeInv`: times
of responses are later than the attempt that asked for them (`Timed`), the active run
is the one that started last (`StartedLast`), and (`Kept`) what the latest
run has promoted and recorded so far is what the files hold at its place; no
later run has begun, so nobody else writes them.

`BotService_proofs`: `ProcessInv` measures the silence behind the watchdog's
counters (`Measured`: with q quiet heartbeats counted, q - 1 thresholds and the time since the
last of them have passed without an update) and says which timer
guards which phase (`Timers`); `PatientWatchdog`, `Guarded` and `CalmDrainRunsOut`
follow.  The script's invariant relates `oldPid`, the pids in use and `since0`.
`TeardownIsAwaited` follows from where the script can be while launchd is `leaving`.

`ChatPlatforms_proofs`: the caches name the topic a message really stands in, on
disk as in memory; everything handed over was routed by the key it carries, hence
`ConversationsHaveOneAgent`, which no run repeats; the
index is the tail of what was recorded.  All of it speaks of messages that were sent,
so an answer that awaits its confirmation is one of them.  `RoutingIsInvariant` is the conjunction with
the types of the Telegram side.  `RoutesFollowTheBindings` holds for every pair of
files that `ConfigAssumption` admits: `Loaded` says what a configuration that was accepted
looks like (merging, typing and validation, `StartedIsLoaded`), and from it the
look-up is followed for Telegram (`TelegramIsRouted`) and Discord (`DiscordIsRouted`), each first
match (`Find`) being a least index.  `AttachmentsAreSettled` follows from
`IntakeInv`: a temporary file exists exactly while it is wanted, that is while the
handler that made it works on it or an entry of its conversation carries it; an
entry carries only files its own handler has finished (`Belongs`), and the text of a
message goes in with its first entry (`InOrder`).

*Only model-checked.*  Liveness: `EventuallyReleased`, `EntriesAreEvicted`,
`CallsEnd`, `TurnsEnd`, `RunsEnd`, `StuckProcessesExit`, `SpoolDrains`.  The prover
does neither liveness under fairness nor ENABLED.  Every invariant, every action
property and both refinements of the passing runs are theorems.

## 6. Findings

Two runs that TLC must find violated:

1. `session_gauge`: `/reconnect` or `/clean` during a spawn lets the chat's next
   message spawn as well; the later `active.set` replaces the earlier session,
   whose subprocess then runs on with no owner, and the gauge is never lowered
   for it.  The replaced session's idle timer stays armed as well, and as it names
   a chat and not a session it later closes the new one.
2. `session_clean`: the spawn that `/clean` fell into installs and stores the old
   conversation afterwards, so the next message resumes what was to be forgotten.

Other places where the code and what is said of it differ, or where its promise is
weaker than it looks.  The models contain the behaviour, and the properties are
stated so as to hold in spite of it; no run is spent on them.

*Queue, sessions, turns.*

- `cancelAllDebounceTimers` is called "to prevent new flushes from starting during
  the shutdown wait window" (`message-queue.ts:351`), but a handler that was
  awaiting a download enqueues afterwards and arms a new timer
  (`message-queue.ts:187`).
- The idle timer is armed when a download begins so that it "cannot fire
  mid-download and wipe the session media dir", and again when a prompt is sent,
  but not while the turn runs (`session-manager.ts:558`, `:652`, `:672`).  A turn
  that outlasts the idle timeout is closed by it, and a photo that waits in the
  collect buffer is gone before its message is consumed.
- Any line of the stream signals ownership, on the grounds that "First event from
  the stream means the agent received the prompt" (`stream-relay.ts:217`).  The
  first line may be a late answer to the `get_state` of the start-up; if Pi dies
  then, the queue keeps media that no conversation names.
- The session limit is checked before the awaited spawn and consumed after it, so
  concurrent spawns exceed it by up to the number of other calls in progress
  (`SessionsStayBounded` says what holds).
- A NO_REPLY answer returns before the outbox is sent; its files wait for the next
  turn.
- A session leaves the map before its subprocess is told to stop, and that may take
  up to five seconds more to exit (`session-manager.ts:719`).  A message of that time
  resumes the same conversation in a new subprocess beside the dying one.
  `OneWriterPerConversation` says only that the old one was told to stop.
- `cleanupSessionMediaDir` removes also the files that are in flight
  (`media-store.ts:90`): when the session of a chat is closed by its idle timer or an
  eviction, or crashes, a photo that waits for its turn is gone.  `PendingFilesExist`
  speaks of all other clean-ups (`wiped`).

*Process and service.*

- The watchdog's comment says it exits "after 3 x threshold of silence"; an update
  that arrives while a heartbeat is awaited is followed by a count that started
  before it, so two thresholds is what holds (`PatientWatchdog`).
- A bot that is stopped during the back-off of a conflict connects all the same
  (`Retry`), and a shutdown may be cut short by a heartbeat under way, by the last
  conflict, or by the start-up timer; hence "calm" in `CalmDrainRunsOut`.
- `graceful_restart` reads the old pid before it validates the configuration.  If
  the bot was replaced meanwhile, the new process is signalled and the wait ends at once;
  the report is still of a newer process.  The pid it prints is asked for once more
  and may be empty.
- "A transient query failure is NOT treated as 'registered' or 'not registered'"
  (`restart-bot.sh:104`), but `plist_restart` takes a false `is_registered` for the
  latter: it then bootstraps over a registered service, which launchd refuses.

*Cron.*

- `log()` is not guarded: if the log cannot be written, the run ends with no metric
  and no note, though the exit metric is said to be updated on every run; after a
  delivery, the failed log counts as a failed delivery, and the admin is told of one.
- Echo files written within one second are told to the agent in random order.
- A crash, or an error of `unlink`, between handler and deletion repeats an echo.
- A cron without `agentId` runs as "main", though the README lists the field as
  required.

*Quota.*

- "A failed attempt preserves the last good values" holds for runs that do not
  overlap: a rollback, or the record of an attempt, of an overlapping run writes back
  what it read before (`overlapped`).

*Platforms.*

- A `topicId` that is not a number is dropped without an error, which makes the binding
  one of the whole chat.
- An override with `agentId: ""` passes validation (tested by truth) and is taken by
  the look-up (tested by `??`), so messages go to an agent that does not exist; the
  `Blank` in `RoutesFollowTheBindings`.
- The text of a Discord message travels with its first image; if that download fails,
  the text is lost though the other images arrive.
- Answers sent with `ctx.reply` are in neither cache: a reaction to one of them in a
  topic goes to the chat.
- A full thread cache is emptied even if the message it is to hold is already in
  it.

## 7. Not modelled

- Metrics other than the session gauge, the cron and the quota files; logs; reports.
- Text conversion, splitting, voice transcription and MIME tables: pure functions or
  one external call.
- The command line, plist generation, workspaces and version: set-up tools that
  generate files.
- Pi extensions (web search, sub-agents), assembly of prompt contexts and the texts
  built for agents: stateless.  Of `codex-usage.ts` only the file writer is modelled;
  its recording of quotas in ordinary sessions is one more writer of the same
  files.
- The temporary file and the rename of the session store: the file is whole before
  and after, and a lost write is a session that is not resumed.
- Steering of a running turn (what an echo does after `steer`), and `touchActivity`'s
  re-arming of the idle timer.

What they can do to the modelled parts (a configuration that does not load, a
workspace that is invalid, a handler suspended in a download) is a choice in the
models.

## 8. Plan

Done: the core (`MessageQueue` implementing `MessageLifecycle`, `SessionManager`,
`MediaStore`), `PiTurn`, the life of the process and the restart script, cron
deliveries and echoes, the quota sampler, configuration and both platforms;
proofs about each of them.  Left, in this order:

1. The session store's write and rename, if resuming after a crash gets promises
   of its own.
2. Theorems that no run needs but a reader may want: that the counts of crashes of a
   chat are bounded by the circuit breaker, and lemmas for liveness (which step is
   enabled where) as far as they are plain invariants.
