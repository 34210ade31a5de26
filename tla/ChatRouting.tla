---------------------------- MODULE ChatRouting ----------------------------
(***************************************************************************)
(* The Telegram side of the bot: how the handlers of telegram-bot.ts take  *)
(* updates one after the other and hand them to the message queue of a     *)
(* conversation, and how reactions, whose updates do not say in which      *)
(* topic the message stands, find it again through the two caches          *)
(* (message-thread-cache.ts, message-content-index.ts) that the handlers   *)
(* and the adapters of running turns fill, that main.ts saves in a         *)
(* graceful shutdown and restores at the next start.                       *)
(*                                                                         *)
(* A message is its chat and its number in the chat; what it says is left  *)
(* out, and with it what an entry of the content index holds.              *)
(* An update stays with Telegram until a later fetch confirms it, so what  *)
(* was handled since the last fetch comes again after a crash.             *)
(***************************************************************************)
EXTENDS BotConfig, FiniteSets

CONSTANTS
    Kinds,         \* of messages: text, file, voice, question (/start, /status)
                   \* and command (/reconnect, /clean)
    MaxSize,       \* MAX_CACHE_SIZE of both caches
    Busy,          \* bound: the chats and topics where users write
    MaxPosts,      \* bound on the messages of all chats
    MaxInbox,      \* bound on the updates waiting at Telegram
    MaxStarts      \* bound on the starts of the process

ASSUME RoutingAssumption ==
    /\ MaxSize \in Nat \ {0}
    /\ MaxPosts \in Nat /\ MaxInbox \in Nat /\ MaxStarts \in Nat
    /\ Kinds \subseteq {"text", "file", "voice", "question", "command"}
    /\ None \notin Topics /\ Busy \subseteq Chats \X (Topics \cup {None})

VARIABLES
    posted,        \* of each chat: the topics of its messages, in their order
    inbox,         \* the updates Telegram holds, oldest first
    batch, done,   \* how many of them were fetched, and given to a handler since
    sending,       \* answers in the chat whose adapter still awaits the request
    up,            \* down, up, stopping or saved
    voice,         \* the voice message whose handler awaits its transcript
    threads,       \* the thread cache: topics of messages
    index,         \* the content index, in the order of the Map
    disk,          \* both files
    handed,        \* what the handlers passed on in this life of the process
    seen,          \* history: messages in the order they were first recorded
    newest,        \* history: the message whose topic was noted last
    starts

telegram == <<posted, inbox, batch, done, sending>>
caches   == <<threads, index, seen, newest>>
routing  == <<config, telegram, up, voice, caches, disk, handed, starts>>

Messages == Chats \X (1..MaxPosts)
Posted   == {m \in Messages : m[2] <= Len(posted[m[1]])}
TopicOf(m) == posted[m[1]][m[2]]

RoutingInit ==
    /\ posted = [c \in Chats |-> <<>>]
    /\ inbox = <<>> /\ batch = 0 /\ done = 0 /\ sending = {}
    /\ up = "down" /\ voice = None
    /\ threads = <<>> /\ index = <<>> /\ seen = <<>> /\ newest = None
    /\ disk = [threads |-> <<>>, index |-> <<>>]
    /\ handed = {} /\ starts = 0

DropFirst(s, n) == SubSeq(s, n + 1, Len(s))

-----------------------------------------------------------------------------
\* The caches

\* A bug: room is made after the entry was added.
SetThreadThenClears(m, topic) ==
    IF topic = None THEN UNCHANGED <<threads, newest>>
    ELSE LET added == [k \in DOMAIN threads \cup {m} |-> IF k = m THEN topic ELSE threads[k]]
         IN  /\ threads' = IF Cardinality(DOMAIN added) > MaxSize THEN <<>> ELSE added
             /\ newest' = m

\* A full cache is emptied first, even for a message it already holds.
SetThread(m, topic) ==
    IF topic = None THEN UNCHANGED <<threads, newest>>
    ELSE LET kept == IF Cardinality(DOMAIN threads) >= MaxSize THEN <<>> ELSE threads
         IN  /\ threads' = [k \in DOMAIN kept \cup {m} |-> IF k = m THEN topic ELSE kept[k]]
             /\ newest' = m

GetThread(m) == IF m \in DOMAIN threads THEN threads[m] ELSE None

\* A bug: room is made also for a message that is overwritten.
RecordMessageMakesRoom(m) ==
    LET kept == IF Len(index) >= MaxSize THEN DropFirst(index, Len(index) - MaxSize + 1) ELSE index
    IN  IF \E i \in DOMAIN index : index[i] = m
        THEN index' = kept /\ UNCHANGED seen
        ELSE index' = Append(kept, m) /\ seen' = Append(seen, m)

\* An entry is overwritten in its place; a new one drives out the oldest.
RecordMessage(m) ==
    IF \E i \in DOMAIN index : index[i] = m
    THEN UNCHANGED <<index, seen>>
    ELSE /\ index' = Append(IF Len(index) >= MaxSize
                            THEN DropFirst(index, Len(index) - MaxSize + 1) ELSE index, m)
         /\ seen' = Append(seen, m)

-----------------------------------------------------------------------------
\* Telegram and its users

Post(c, topic) ==
    /\ Cardinality(Posted) < MaxPosts
    /\ posted' = [posted EXCEPT ![c] = Append(@, topic)]

Arrives(u) == Len(inbox) < MaxInbox /\ inbox' = Append(inbox, u)

UserPosts(c, topic, kind) ==
    /\ Post(c, topic)
    /\ Arrives([what |-> kind, msg |-> <<c, Len(posted[c]) + 1>>])
    /\ UNCHANGED <<config, batch, done, sending, up, voice, caches, disk, handed, starts>>

UserReacts(m) ==
    /\ Arrives([what |-> "reaction", msg |-> m])
    /\ UNCHANGED <<config, posted, batch, done, sending, up, voice, caches, disk, handed, starts>>

\* getUpdates: confirms the batch that is through and brings what waits.
Fetch ==
    /\ up = "up" /\ voice = None /\ done = batch /\ inbox # <<>>
    /\ inbox' = DropFirst(inbox, done)
    /\ batch' = Len(inbox')
    /\ done' = 0
    /\ UNCHANGED <<config, posted, sending, up, voice, caches, disk, handed, starts>>

-----------------------------------------------------------------------------
\* The handlers: grammY awaits one before it starts the next.  It hands over the
\* rest of a batch also when the polling has been stopped.

Update == inbox[done + 1]

Handles(whats) ==
    /\ up # "down" /\ voice = None /\ done < batch
    /\ Update.what \in whats

SessionKey(c, topic) == <<c, topic>>

\* What is passed on, for a message that stands in a place, to a session.
Hand(what, m, topic) ==
    handed' = handed \cup {[what |-> what, key |-> SessionKey(m[1], topic),
                            place |-> <<m[1], TopicOf(m)>>,
                            agent |-> ResolveBinding(m[1], config.bindings, topic).agent]}

\* A reply sent without the adapter, which neither cache learns of, or lost.
Notice(c, topic) == Post(c, topic) \/ UNCHANGED posted

\* The first lines of every handler, before it looks at the binding.
See(u) ==
    /\ SetThread(u.msg, TopicOf(u.msg))
    /\ IF u.what \in {"question", "command"} THEN UNCHANGED <<index, seen>>
       ELSE RecordMessage(u.msg)

\* The binding, the mention of a group and the age of the message.
Eligible(u, addressed, stale) ==
    LET binding == ResolveBinding(u.msg[1], config.bindings, TopicOf(u.msg))
    IN  /\ binding # Unbound
        /\ u.what \in {"question", "command"} \/ ShouldRespondInGroup(binding, addressed)
        /\ ~stale

RejectUnauthorized ==
    /\ Handles(Kinds) /\ ~Authorized(Update.msg[1])
    /\ done' = done + 1
    /\ UNCHANGED <<config, posted, inbox, batch, sending, up, voice, caches, disk, handed, starts>>

IgnoreMessage ==
    /\ Handles(Kinds) /\ Authorized(Update.msg[1])
    /\ \E addressed, stale \in BOOLEAN : ~Eligible(Update, addressed, stale)
    /\ See(Update)
    /\ done' = done + 1
    /\ UNCHANGED <<config, posted, inbox, batch, sending, up, voice, disk, handed, starts>>

\* An eligible message: text is handed over at once, a file when its download
\* succeeds, a command acts on its conversation and is answered, and a voice
\* message waits for its transcript.
HandleMessage ==
    LET m == Update.msg
    IN  /\ Handles(Kinds) /\ Authorized(m[1])
        /\ \E addressed \in BOOLEAN : Eligible(Update, addressed, FALSE)
        /\ See(Update)
        /\ \/ /\ Update.what \in {"text", "file"}
              /\ Hand("prompt", m, TopicOf(m))
              /\ UNCHANGED <<posted, voice>>
           \/ /\ Update.what \in {"file", "question"}
              /\ Notice(m[1], TopicOf(m))
              /\ UNCHANGED <<handed, voice>>
           \/ /\ Update.what = "command"
              /\ Hand("command", m, TopicOf(m))
              /\ Notice(m[1], TopicOf(m))
              /\ UNCHANGED voice
           \/ /\ Update.what = "voice"
              /\ voice' = m
              /\ UNCHANGED <<posted, handed>>
        /\ done' = done + 1
        /\ UNCHANGED <<config, inbox, batch, sending, up, disk, starts>>

VoiceEnds ==
    /\ up # "down" /\ voice # None
    /\ voice' = None
    /\ Notice(voice[1], TopicOf(voice))
    /\ UNCHANGED <<config, inbox, batch, done, sending, up, threads, newest, disk, starts>>

Transcribed ==
    /\ VoiceEnds
    /\ RecordMessage(voice)
    /\ Hand("prompt", voice, TopicOf(voice))

TranscriptionFails == VoiceEnds /\ UNCHANGED <<index, seen, handed>>

\* The topic of the message comes from the cache; without it the reaction is
\* one of the chat.
HandleReaction ==
    LET m == Update.msg
        binding == ResolveBinding(m[1], config.bindings, GetThread(m))
    IN  /\ Handles({"reaction"})
        /\ \/ Authorized(m[1]) /\ binding # Unbound /\ Hand("reaction", m, GetThread(m))
           \/ UNCHANGED handed         \* rejected, unbound, stale or no emoji
        /\ done' = done + 1
        /\ UNCHANGED <<config, posted, inbox, batch, sending, up, voice, caches, disk, starts>>

\* A turn answers through the adapter it was handed with, which notes the message
\* once Telegram has confirmed it.
BotPosts ==
    \E h \in {g \in handed : g.what # "command"} :
        /\ up # "down"
        /\ Post(h.key[1], h.key[2])
        /\ sending' = sending \cup {<<h.key[1], Len(posted[h.key[1]]) + 1>>}
        /\ UNCHANGED <<config, inbox, batch, done, up, voice, caches, disk, handed, starts>>

PostConfirmed(m) ==
    /\ m \in sending
    /\ sending' = sending \ {m}
    /\ SetThread(m, TopicOf(m))
    /\ RecordMessage(m)
    /\ UNCHANGED <<config, posted, inbox, batch, done, up, voice, disk, handed, starts>>

-----------------------------------------------------------------------------
\* The life of the process

Restored(entries) == SubSeq(entries, 1, IF Len(entries) > MaxSize THEN MaxSize ELSE Len(entries))

Start ==
    /\ up = "down" /\ starts < MaxStarts
    /\ up' = "up" /\ starts' = starts + 1 /\ voice' = None
    /\ threads' = disk.threads
    /\ index' = Restored(disk.index)
    /\ seen' = index'
    /\ newest' = None
    /\ handed' = {}
    /\ UNCHANGED <<config, telegram, disk>>

\* telegramBot.stop() ends the polling and confirms what a handler has been given.
Shutdown ==
    /\ up = "up"
    /\ up' = "stopping"
    /\ inbox' = DropFirst(inbox, done)
    /\ batch' = batch - done /\ done' = 0
    /\ UNCHANGED <<config, posted, sending, voice, caches, disk, handed, starts>>

\* Each file is replaced as a whole, or kept when writing it fails.
Save ==
    /\ up = "stopping"
    /\ up' = "saved"
    /\ \E saved \in SUBSET {"threads", "index"} :
        disk' = [threads |-> IF "threads" \in saved THEN threads ELSE disk.threads,
                 index |-> IF "index" \in saved THEN index ELSE disk.index]
    /\ UNCHANGED <<config, telegram, voice, caches, handed, starts>>

\* Memory is lost; what was not confirmed will be fetched again.
Ends ==
    /\ up' = "down" /\ voice' = None
    /\ batch' = 0 /\ done' = 0 /\ sending' = {}
    /\ threads' = <<>> /\ index' = <<>> /\ seen' = <<>> /\ newest' = None /\ handed' = {}
    /\ UNCHANGED <<config, posted, inbox, disk, starts>>

Exit  == up = "saved" /\ Ends

Crash == up # "down" /\ Ends

RoutingNext ==
    \/ \E place \in Busy, kind \in Kinds : UserPosts(place[1], place[2], kind)
    \/ \E m \in Posted : UserReacts(m)
    \/ Fetch \/ RejectUnauthorized \/ IgnoreMessage \/ HandleMessage
    \/ Transcribed \/ TranscriptionFails \/ HandleReaction
    \/ BotPosts \/ \E m \in sending : PostConfirmed(m)
    \/ Start \/ Shutdown \/ Save \/ Exit \/ Crash

-----------------------------------------------------------------------------
Sent(m) == m \in Chats \X Nat /\ m[2] \in DOMAIN posted[m[1]]

Updates == [what : Kinds \cup {"reaction"}, msg : Chats \X Nat]
Conversations == Chats \X (Topics \cup {None})

TypeOK ==
    /\ posted \in [Chats -> Seq(Topics \cup {None})]
    /\ inbox \in Seq(Updates)
    /\ batch \in 0..Len(inbox) /\ done \in 0..batch
    /\ up \in {"down", "up", "stopping", "saved"}
    /\ voice = None \/ Sent(voice)
    /\ \A m \in sending : Sent(m)
    /\ \A i \in DOMAIN inbox : Sent(inbox[i].msg)
    /\ \A h \in handed : h.key \in Conversations

\* Every message and every command goes to the conversation it was posted in.
\* A reaction does too, or to its chat as a whole when the topic is no longer
\* known, never to another topic or chat; and the topic noted last is always
\* known while the process lives, also when the cache was full.
\* (setThread, getThread, restoreThreadCache, the handler of message_reaction)
ReactionsFindTheirTopic ==
    /\ \A h \in handed :
        \/ h.key = h.place
        \/ h.what = "reaction" /\ h.key = <<h.place[1], None>>
    /\ newest # None => newest \in DOMAIN threads

\* Whatever brings a prompt to a conversation, a message, a transcript or a
\* reaction routed through the cache, within one life of the process the prompts
\* of one session key all name the same agent, so a session is never handed from
\* one agent to another.  (A start with other files may name another.)
\* (resolveBinding, sessionKey, the calls of messageQueue.enqueue)
ConversationsHaveOneAgent ==
    \A g, h \in handed : g.key = h.key => g.agent = h.agent

\* The index holds exactly the messages recorded last, in the order they were
\* first recorded: overwriting drives nothing out, and a new message drives out
\* the oldest only, across interleaved handlers and restarts.
\* (recordMessage, restoreMessageIndex)
IndexKeepsTheNewest ==
    LET n == IF Len(seen) < MaxSize THEN Len(seen) ELSE MaxSize
    IN  index = SubSeq(seen, Len(seen) - n + 1, Len(seen))
=============================================================================
