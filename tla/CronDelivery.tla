---------------------------- MODULE CronDelivery ----------------------------
(***************************************************************************)
(* Runs of one cron task (bot/src/cron-runner.ts), each a process of its   *)
(* own: it does its work, has bot/scripts/deliver.sh post the output to    *)
(* the delivery chat, tells that chat or the admin's of a failure, and     *)
(* writes two health metrics.  For every message posted deliver.sh leaves  *)
(* an echo file, which the bot's echo watcher (bot/src/echo-watcher.ts)    *)
(* steers into a turn that is being processed, or drops.                   *)
(*                                                                         *)
(* Telegram is external: a request is accepted, refused, or fails with or  *)
(* without having been accepted.                                           *)
(***************************************************************************)
EXTENDS Naturals, Sequences

CONSTANTS
    Runs,                 \* the runs of the task, scheduled or by hand
    MaxChunks,            \* bound: messages an output is split into
    MaxCrashes            \* bound: crashes of the bot

ASSUME BoundsAssumption ==
    MaxChunks \in Nat \ {0} /\ MaxCrashes \in Nat /\ <<>> \notin Runs

Kinds == {"output", "failnote", "adminnote"}

Messages == [run : Runs, kind : Kinds, n : 1..MaxChunks]

VARIABLES
    adminChatId,          \* an admin chat is configured
    pc,                   \* of each run
    total,                \* of each run: the chunks of its output
    parcel,               \* of each run: the message deliver.sh is at, and its step
    said,                 \* of each run: the chunks in the delivery chat, as they came
    noted,                \* of each run: the notes that reached a chat
    landing,              \* requests whose sender was killed meanwhile
    successProm,          \* the runs written to success.prom, the last one counts
    exitProm,             \* the exit code in exit.prom and whose it is
    spool,                \* echo files: a message, and whether the file is whole
    up, crashes,          \* the bot
    handling,             \* the file whose handler has run and that is not deleted
    steered, repeated,    \* messages steered into a turn, and more than once
    spoilt,               \* history: files that outlived their handling
    loaded,               \* history: runs that loaded their task
    unheard               \* history: runs whose note to the admin failed

results == <<successProm, exitProm>>
chat    == <<said, noted, landing>>
bot     == <<up, crashes, handling, steered, repeated>>
vars    == <<adminChatId, pc, total, parcel, chat, results, spool, bot, spoilt, loaded, unheard>>

NoParcel == [kind |-> "output", n |-> 0, step |-> "none"]
NoFile   == <<>>
Nobody   == <<>>

Init ==
    /\ adminChatId \in BOOLEAN
    /\ pc = [r \in Runs |-> "idle"]
    /\ total = [r \in Runs |-> 0]
    /\ parcel = [r \in Runs |-> NoParcel]
    /\ said = [r \in Runs |-> <<>>]
    /\ noted = [r \in Runs |-> {}]
    /\ landing = {}
    /\ successProm = Nobody
    /\ exitProm = Nobody
    /\ spool = {}
    /\ up = TRUE /\ crashes = 0 /\ handling = NoFile
    /\ steered = {} /\ repeated = {} /\ spoilt = {} /\ loaded = {} /\ unheard = {}

Ended(r) == pc[r] \in {"done", "aborted", "killed"}

Active(r) == pc[r] # "idle" /\ ~Ended(r)

Goto(r, l) == pc' = [pc EXCEPT ![r] = l]

Deliver(r, kind) ==
    /\ Goto(r, "sending")
    /\ parcel' = [parcel EXCEPT ![r] = [kind |-> kind, n |-> 1, step |-> "html"]]

Message(r) == [run |-> r, kind |-> parcel[r].kind, n |-> parcel[r].n]

AtStep(r, steps) == pc[r] = "sending" /\ parcel[r].step \in steps

\* A request whose sender ends may still reach Telegram.
UnderWay(r) ==
    IF AtStep(r, {"html", "plain"}) THEN {landing, landing \union {Message(r)}} ELSE {landing}

-----------------------------------------------------------------------------
(* The run                                                                 *)

\* A run that cannot load its task has no chat to tell.
LoadCronTask(r) ==
    /\ pc[r] = "start"
    /\ \/ Goto(r, "loaded") /\ loaded' = loaded \union {r}
       \/ Goto(r, "exit1") /\ UNCHANGED loaded
    /\ UNCHANGED <<adminChatId, total, parcel, chat, results, spool, bot, spoilt, unheard>>

Begin(r) ==
    /\ pc[r] = "idle"
    /\ Goto(r, "start")
    /\ UNCHANGED <<adminChatId, total, parcel, chat, results, spool, bot, spoilt, loaded, unheard>>

\* The script or Pi ended with an output, with nothing to say, or badly.
Work(r) ==
    /\ pc[r] = "loaded"
    /\ \/ \E k \in 1..MaxChunks :
             /\ total' = [total EXCEPT ![r] = k]
             /\ Deliver(r, "output")
       \/ Goto(r, "success") /\ UNCHANGED <<total, parcel>>
       \/ Goto(r, "failed") /\ UNCHANGED <<total, parcel>>
    /\ UNCHANGED <<adminChatId, chat, results, spool, bot, spoilt, loaded, unheard>>

NotifyFailure(r) ==
    /\ pc[r] = "failed"
    /\ Deliver(r, "failnote")
    /\ UNCHANGED <<adminChatId, total, chat, results, spool, bot, spoilt, loaded, unheard>>

\* Mutant of HandleDeliveryFailure: only a lost output is worth a note.
HandleOutputFailure(r) ==
    /\ pc[r] = "undelivered"
    /\ IF adminChatId /\ parcel[r].kind = "output"
          THEN Deliver(r, "adminnote")
          ELSE Goto(r, "exit1") /\ UNCHANGED parcel
    /\ UNCHANGED <<adminChatId, total, chat, results, spool, bot, spoilt, loaded, unheard>>

HandleDeliveryFailure(r) ==
    /\ pc[r] = "undelivered"
    /\ IF adminChatId
          THEN Deliver(r, "adminnote")
          ELSE Goto(r, "exit1") /\ UNCHANGED parcel
    /\ UNCHANGED <<adminChatId, total, chat, results, spool, bot, spoilt, loaded, unheard>>

Delivered(r) ==
    /\ pc[r] = "delivered"
    /\ Goto(r, "success")
    /\ UNCHANGED <<adminChatId, total, parcel, chat, results, spool, bot, spoilt, loaded, unheard>>

\* Each metric is written on its own, and a failure to write it only warned of.
WriteSuccess(r) ==
    /\ pc[r] = "success"
    /\ successProm' \in {r, successProm}
    /\ Goto(r, "exit0")
    /\ UNCHANGED <<adminChatId, total, parcel, chat, exitProm, spool, bot, spoilt, loaded, unheard>>

WriteExit(r) ==
    /\ pc[r] \in {"exit0", "exit1"}
    /\ exitProm' \in {[run |-> r, code |-> IF pc[r] = "exit0" THEN 0 ELSE 1], exitProm}
    /\ Goto(r, "done")
    /\ UNCHANGED <<adminChatId, total, parcel, chat, successProm, spool, bot, spoilt, loaded, unheard>>

\* log() may throw: a log that cannot be written after a delivery counts as a
\* failed delivery, and anywhere else the run is over with nothing written.
LogFails(r) ==
    /\ \/ pc[r] \in {"start", "loaded", "failed", "undelivered"} /\ Goto(r, "aborted")
       \/ pc[r] = "delivered" /\ Goto(r, "undelivered")
       \/ pc[r] = "exit1" /\ r \in unheard /\ Goto(r, "aborted")
    /\ UNCHANGED <<adminChatId, total, parcel, chat, results, spool, bot, spoilt, loaded, unheard>>

Killed(r) ==
    /\ Active(r)
    /\ Goto(r, "killed")
    /\ landing' \in UnderWay(r)
    /\ UNCHANGED <<adminChatId, total, parcel, said, noted, results, spool, bot, spoilt,
                   loaded, unheard>>

-----------------------------------------------------------------------------
(* deliver.sh                                                              *)

Posted(m) ==
    IF m.kind = "output" THEN \E i \in DOMAIN said[m.run] : said[m.run][i] = m.n
                         ELSE m.kind \in noted[m.run]

Post(m) ==
    IF m.kind = "output"
       THEN said' = [said EXCEPT ![m.run] = Append(@, m.n)] /\ UNCHANGED noted
       ELSE noted' = [noted EXCEPT ![m.run] = @ \union {m.kind}] /\ UNCHANGED said

\* The script exits with an error: deliver throws.
Fails(r) ==
    /\ Goto(r, IF parcel[r].kind = "adminnote" THEN "exit1" ELSE "undelivered")
    /\ unheard' = IF parcel[r].kind = "adminnote" THEN unheard \union {r} ELSE unheard
    /\ UNCHANGED parcel

Accepted(r) ==
    /\ AtStep(r, {"html", "plain"})
    /\ Post(Message(r))
    /\ parcel' = [parcel EXCEPT ![r].step = "echo"]
    /\ UNCHANGED <<adminChatId, pc, total, landing, results, spool, bot, spoilt, loaded, unheard>>

\* Mutant of AnswerLost: an answer that cannot be read is taken for a refusal
\* of the HTML.
AnswerLostRetried(r) ==
    /\ AtStep(r, {"html", "plain"})
    /\ Post(Message(r))
    /\ IF parcel[r].step = "html"
          THEN parcel' = [parcel EXCEPT ![r].step = "plain"] /\ UNCHANGED <<pc, unheard>>
          ELSE Fails(r)
    /\ UNCHANGED <<adminChatId, total, landing, results, spool, bot, spoilt, loaded>>

\* set -e: a curl that fails, or an answer that is no JSON, ends the script,
\* though Telegram may have the message.
AnswerLost(r) ==
    /\ AtStep(r, {"html", "plain"})
    /\ \/ Post(Message(r))
       \/ UNCHANGED <<said, noted>>
    /\ Fails(r)
    /\ UNCHANGED <<adminChatId, total, landing, results, spool, bot, spoilt, loaded>>

\* Mutant of Refused: the failure of a later chunk goes unnoticed.
RefusedFirst(r) ==
    /\ AtStep(r, {"html", "plain"})
    /\ CASE parcel[r].step = "html" ->
              parcel' = [parcel EXCEPT ![r].step = "plain"] /\ UNCHANGED <<pc, unheard>>
         [] parcel[r].n > 1 -> Goto(r, "delivered") /\ UNCHANGED <<parcel, unheard>>
         [] OTHER -> Fails(r)
    /\ UNCHANGED <<adminChatId, total, chat, results, spool, bot, spoilt, loaded>>

\* Refused as HTML, or never converted, a chunk is sent as it is.
Refused(r) ==
    /\ AtStep(r, {"html", "plain"})
    /\ IF parcel[r].step = "html"
          THEN parcel' = [parcel EXCEPT ![r].step = "plain"] /\ UNCHANGED <<pc, unheard>>
          ELSE Fails(r)
    /\ UNCHANGED <<adminChatId, total, chat, results, spool, bot, spoilt, loaded>>

\* execSync kills the script after thirty seconds, not the request under way.
DeliverTimeout(r) ==
    /\ pc[r] = "sending"
    /\ Fails(r)
    /\ landing' \in UnderWay(r)
    /\ UNCHANGED <<adminChatId, total, said, noted, results, spool, bot, spoilt, loaded>>

Lands(m) ==
    /\ m \in landing
    /\ landing' = landing \ {m}
    /\ Post(m)
    /\ UNCHANGED <<adminChatId, pc, total, parcel, results, spool, bot, spoilt, loaded, unheard>>

LastChunk(r) == parcel[r].kind # "output" \/ parcel[r].n = total[r]

\* The echo is written as well as it can be, and the next chunk follows.
WriteEcho(r) ==
    /\ AtStep(r, {"echo"})
    /\ spool' \in {spool} \union {spool \union {<<Message(r), whole>>} : whole \in BOOLEAN}
    /\ IF LastChunk(r)
          THEN /\ Goto(r, IF parcel[r].kind = "output" THEN "delivered" ELSE "exit1")
               /\ UNCHANGED parcel
          ELSE /\ parcel' = [parcel EXCEPT ![r].n = @ + 1, ![r].step = "html"]
               /\ UNCHANGED pc
    /\ UNCHANGED <<adminChatId, total, chat, results, bot, spoilt, loaded, unheard>>

-----------------------------------------------------------------------------
(* The bot's echo watcher                                                  *)

Steer(m) ==
    /\ steered' = steered \union {m}
    /\ repeated' = IF m \in steered THEN repeated \union {m} ELSE repeated

\* A poll takes the files one by one, but those of another user, which are none
\* of deliver.sh's, and are left out here.  Whether the chat has a binding that
\* hears echoes, and a turn under way, is not for the watcher to know: the
\* message is steered or dropped.  A handler that throws leaves the file.
HandleFile(f) ==
    /\ up /\ handling = NoFile /\ f \in spool /\ f[2]
    /\ Steer(f[1]) \/ UNCHANGED <<steered, repeated>>
    /\ handling' = f
    /\ UNCHANGED <<adminChatId, pc, total, parcel, chat, results, spool, up, crashes,
                   spoilt, loaded, unheard>>

\* Mutant of DeleteFile: the file stays until the next start of the bot.
DeleteFileLater(f) ==
    /\ up /\ f # NoFile /\ handling = f
    /\ handling' = NoFile
    /\ UNCHANGED <<adminChatId, pc, total, parcel, chat, results, spool, up, crashes,
                   steered, repeated, spoilt, loaded, unheard>>

DeleteFile(f) ==
    /\ up /\ f # NoFile /\ handling = f
    /\ handling' = NoFile
    /\ spool' = spool \ {f}
    /\ UNCHANGED <<adminChatId, pc, total, parcel, chat, results, up, crashes,
                   steered, repeated, spoilt, loaded, unheard>>

\* An error of unlink is ignored.
DeleteFails(f) ==
    /\ up /\ f # NoFile /\ handling = f
    /\ handling' = NoFile
    /\ spoilt' = spoilt \union {f[1]}
    /\ UNCHANGED <<adminChatId, pc, total, parcel, chat, results, spool, up, crashes,
                   steered, repeated, loaded, unheard>>

\* Mutant of DiscardMalformed: the watcher waits for the file to become whole.
AwaitMalformed(f) ==
    /\ up /\ handling = NoFile /\ f \in spool /\ ~f[2]
    /\ UNCHANGED vars

\* Where the unlink fails the file waits for the next poll.
DiscardMalformed(f) ==
    /\ up /\ handling = NoFile /\ f \in spool /\ ~f[2]
    /\ spool' \in {spool, spool \ {f}}
    /\ UNCHANGED <<adminChatId, pc, total, parcel, chat, results, bot, spoilt, loaded, unheard>>

BotCrashes ==
    /\ up /\ crashes < MaxCrashes
    /\ up' = FALSE /\ crashes' = crashes + 1
    /\ handling' = NoFile
    /\ spoilt' = IF handling = NoFile THEN spoilt ELSE spoilt \union {handling[1]}
    /\ UNCHANGED <<adminChatId, pc, total, parcel, chat, results, spool, steered,
                   repeated, loaded, unheard>>

\* The start drains what was written meanwhile, as a poll does.
BotStarts ==
    /\ ~up
    /\ up' = TRUE
    /\ UNCHANGED <<adminChatId, pc, total, parcel, chat, results, spool, crashes, handling,
                   steered, repeated, spoilt, loaded, unheard>>

-----------------------------------------------------------------------------
Files == Messages \X BOOLEAN

Script(r) ==
    Accepted(r) \/ AnswerLost(r) \/ Refused(r) \/ DeliverTimeout(r) \/ WriteEcho(r)

Run(r) ==
    \/ LoadCronTask(r) \/ Work(r) \/ NotifyFailure(r) \/ HandleDeliveryFailure(r)
    \/ Delivered(r) \/ WriteSuccess(r) \/ WriteExit(r) \/ Script(r)

Take == \E f \in spool : HandleFile(f) \/ DiscardMalformed(f)

Delete == \E f \in spool : DeleteFile(f)

Watcher == Take \/ Delete \/ \E f \in spool : DeleteFails(f)

Next ==
    \/ \E r \in Runs : Begin(r) \/ Run(r) \/ LogFails(r) \/ Killed(r)
    \/ \E m \in landing : Lands(m)
    \/ Watcher \/ BotCrashes \/ BotStarts

Spec == Init /\ [][Next]_vars

\* Scripts, requests and the work itself have timeouts; the watcher polls while
\* the bot is up, launchd restarts the bot, and of deletions that fail again and
\* again, of handled or of malformed files, one succeeds some time (a discard that
\* fails is a stutter, which fairness of Take does not count).
FairSpec ==
    /\ Spec
    /\ \A r \in Runs : WF_vars(Run(r))
    /\ WF_vars(BotStarts) /\ WF_vars(Take) /\ SF_vars(Delete)

-----------------------------------------------------------------------------
(* Properties                                                              *)

Labels == {"idle", "start", "loaded", "failed", "sending", "delivered", "undelivered",
           "success", "exit0", "exit1", "done", "aborted", "killed"}

TypeOK ==
    /\ adminChatId \in BOOLEAN
    /\ pc \in [Runs -> Labels]
    /\ total \in [Runs -> 0..MaxChunks]
    /\ parcel \in [Runs -> [kind : Kinds, n : 0..MaxChunks,
                            step : {"none", "html", "plain", "echo"}]]
    /\ said \in [Runs -> Seq(1..MaxChunks)]
    /\ noted \in [Runs -> SUBSET Kinds]
    /\ landing \subseteq Messages
    /\ successProm \in Runs \union {Nobody}
    /\ exitProm \in [run : Runs, code : {0, 1}] \union {Nobody}
    /\ spool \subseteq Files
    /\ up \in BOOLEAN /\ crashes \in 0..MaxCrashes /\ handling \in spool \union {NoFile}
    /\ steered \subseteq Messages /\ repeated \subseteq Messages /\ spoilt \subseteq Messages
    /\ loaded \subseteq Runs /\ unheard \subseteq Runs

\* Chunks of an output reach the chat in their order, none twice, whatever
\* answers get lost, fallbacks are taken or requests outlive their sender.
ChunksInOrder ==
    \A r \in Runs : \A i \in DOMAIN said[r] : said[r][i] = i

Complete(r) == Len(said[r]) = total[r]

\* A run that the metrics show as a success has put its whole output into the
\* chat, or had nothing to say; one shown as failed never counts as a success.
SuccessMeansSaid ==
    /\ successProm # Nobody => Complete(successProm)
    /\ exitProm # Nobody =>
          IF exitProm.code = 0 THEN Complete(exitProm.run) ELSE successProm # exitProm.run

\* A run that fails after it knew its chat, and lives to write its exit code,
\* has told somebody of it: the delivery chat, or else the admin, unless there is
\* none or he cannot be reached either.  Runs that are killed, or that a log() that
\* throws cuts short, may tell nobody.  (main, handleDeliveryFailure)
FailuresAreTold ==
    \A r \in Runs : pc[r] = "exit1" /\ r \in loaded =>
        noted[r] # {} \/ ~adminChatId \/ r \in unheard

\* What a turn is told of was posted, and it is told once, unless the file
\* could not be deleted or the bot died over it.
EchoesComeOnce ==
    /\ \A m \in steered : Posted(m)
    /\ repeated \subseteq spoilt

\* Every echo file leaves the spool, malformed ones too.
SpoolDrains == spool # {} ~> spool = {}

=============================================================================
