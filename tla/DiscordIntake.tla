--------------------------- MODULE DiscordIntake ---------------------------
(***************************************************************************)
(* The Discord side of the bot (bot/src/discord-bot.ts).  Unlike the       *)
(* Telegram handlers these run concurrently: while one waits for a         *)
(* download or a transcript, others enqueue or clear the same              *)
(* conversation.  Each attachment is a temporary file that belongs to the  *)
(* handler, then, if it is an image, to the entry of the message queue     *)
(* whose cleanup deletes it.                                               *)
(***************************************************************************)
EXTENDS BotConfig

CONSTANTS
    DMessages,     \* messages of users, each handled once
    Threads,
    GuildOf,       \* of each channel; None for a direct message
    MaxFiles       \* bound on the attachments of a message

ASSUME DiscordAssumption ==
    /\ MaxFiles \in Nat /\ None \notin Threads
    /\ GuildOf \in [Channels -> Guilds \cup {None}]

VARIABLES
    job,           \* of each message: its handler
    files,         \* temporary files, as message and number of the attachment
    queue          \* the entries the message queue holds for each conversation

discord == <<job, files, queue>>

Keys == Channels \X (Threads \cup {None})

Idle == [pc |-> "idle", key |-> None, agent |-> None, at |-> 0, of |-> 0, caption |-> FALSE]

DiscordInit ==
    /\ job = [d \in DMessages |-> Idle]
    /\ files = {}
    /\ queue = [key \in Keys |-> <<>>]

DiscordSessionKey(channel, thread) == <<channel, thread>>

Enqueue(d, j, file) ==
    queue' = [queue EXCEPT ![j.key] =
                Append(@, [msg |-> d, agent |-> j.agent, file |-> file,
                           text |-> j.caption /\ j.at = 1])]

\* The handler takes up attachment n, or is through.
Takes(j, n) == IF n <= j.of THEN [j EXCEPT !.at = n] ELSE [j EXCEPT !.at = n, !.pc = "done"]

Opened(d, j) == IF j.pc \in {"image", "audio"} THEN {<<d, j.at>>} ELSE {}

Advances(d, file) ==
    LET j == Takes(job[d], job[d].at + 1)
    IN  /\ job' = [job EXCEPT ![d] = j]
        /\ files' = (files \ file) \cup Opened(d, j)

\* The part of the handler before its first await.  Images come before audio,
\* and text of its own is enqueued only without either.
MessageCreate(d, channel, thread) ==
    LET binding == ResolveDiscordBinding(channel, config.discord, GuildOf[channel])
        begun == [Idle EXCEPT !.key = DiscordSessionKey(channel, thread),
                              !.agent = binding.agent, !.at = 1]
    IN  /\ job[d].pc = "idle"
        /\ \/ /\ job' = [job EXCEPT ![d] = [Idle EXCEPT !.pc = "done"]]
              /\ UNCHANGED <<files, queue>>        \* a bot's message, or a stale one
           \/ /\ binding # Unbound
              /\ \E mentioned \in BOOLEAN : ShouldRespondInDiscord(binding, mentioned)
              /\ \/ \E kind \in {"image", "audio"}, n \in 1..MaxFiles, text \in BOOLEAN :
                        LET j == [begun EXCEPT !.pc = kind, !.of = n,
                                               !.caption = text /\ kind = "image"]
                        IN  /\ job' = [job EXCEPT ![d] = j]
                            /\ files' = files \cup Opened(d, j)
                            /\ UNCHANGED queue
                 \/ LET j == [begun EXCEPT !.pc = "done", !.caption = TRUE]
                    IN  /\ job' = [job EXCEPT ![d] = j]
                        /\ Enqueue(d, j, {})
                        /\ UNCHANGED files
        /\ UNCHANGED config

\* The first image carries the text of the message.
ImageDownloaded(d) ==
    /\ job[d].pc = "image"
    /\ Enqueue(d, job[d], {<<d, job[d].at>>})
    /\ Advances(d, {})
    /\ UNCHANGED config

\* A bug: the partial file of a failed download stays.
ImageFailsLeaving(d) ==
    /\ job[d].pc = "image"
    /\ Advances(d, {})
    /\ UNCHANGED <<config, queue>>

ImageFails(d) ==
    /\ job[d].pc = "image"
    /\ Advances(d, {<<d, job[d].at>>})
    /\ UNCHANGED <<config, queue>>

AudioTranscribed(d) ==
    /\ job[d].pc = "audio"
    /\ Enqueue(d, job[d], {})
    /\ Advances(d, {<<d, job[d].at>>})
    /\ UNCHANGED config

\* The download or the transcription fails, or the transcript is empty.
AudioFails(d) ==
    /\ job[d].pc = "audio"
    /\ Advances(d, {<<d, job[d].at>>})
    /\ UNCHANGED <<config, queue>>

Held(key) == {queue[key][i] : i \in DOMAIN queue[key]}

\* The entries of a conversation go, and their cleanups run.
Empties(key) ==
    /\ queue[key] # <<>>
    /\ queue' = [queue EXCEPT ![key] = <<>>]
    /\ files' = files \ UNION {e.file : e \in Held(key)}
    /\ UNCHANGED <<config, job>>

\* /reconnect and /clean: messageQueue.clear.
Command(channel, thread) ==
    /\ ResolveDiscordBinding(channel, config.discord, GuildOf[channel]) # Unbound
    /\ Empties(DiscordSessionKey(channel, thread))

\* The queue delivers what a conversation has waiting, or drops it.
Consume(key) == Empties(key)

DiscordNext ==
    \/ \E d \in DMessages :
        \/ \E channel \in Channels, thread \in Threads \cup {None} :
                MessageCreate(d, channel, thread)
        \/ ImageDownloaded(d) \/ ImageFails(d) \/ AudioTranscribed(d) \/ AudioFails(d)
    \/ \E channel \in Channels, thread \in Threads \cup {None} :
        \/ Command(channel, thread)
        \/ Consume(DiscordSessionKey(channel, thread))

-----------------------------------------------------------------------------
\* However downloads, failures and commands interleave, a temporary file is on
\* disk exactly while a handler works on it or an entry of the queue needs it:
\* none is left behind, none is deleted under a waiting message.  And the parts
\* of one message wait in its conversation and in their order, with its text at
\* most once.
\* (the MessageCreate handler of createDiscordBot, cleanupTempFile)
AttachmentsAreSettled ==
    /\ files = UNION ({Opened(d, job[d]) : d \in DMessages}
                        \cup {e.file : e \in UNION {Held(key) : key \in Keys}})
    /\ \A key \in Keys : \A i, k \in DOMAIN queue[key] :
        LET e == queue[key][i]
            later == queue[key][k]
        IN  /\ job[e.msg].key = key
            /\ i < k /\ e.msg = later.msg =>
                /\ ~later.text
                /\ \A f \in e.file, g \in later.file : f[2] < g[2]
=============================================================================
