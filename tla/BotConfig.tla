----------------------------- MODULE BotConfig -----------------------------
(***************************************************************************)
(* The configuration of the bot and what is looked up in it                *)
(* (bot/src/config.ts, resolveBinding and shouldRespondInGroup of          *)
(* bot/src/telegram-bot.ts, resolveDiscordBinding and                      *)
(* shouldRespondInDiscord of bot/src/discord-bot.ts).  The process reads   *)
(* config.yaml with config.local.yaml laid over it, refuses to start when  *)
(* it is not valid, and routes with the bindings it read then.             *)
(*                                                                         *)
(* A field holds None when it is absent, Wrong when it has another type    *)
(* than the loader expects, and Blank when it is the empty string.         *)
(***************************************************************************)
EXTENDS Naturals, Sequences

CONSTANTS
    Files,         \* pairs of a base and a local file, parsed
    Names,         \* of agents
    Chats, Topics, Channels, Guilds,
    None, Wrong, Blank

\* What a parsed file may hold.  A list that is absent is empty in the base
\* file and None in the local one.
Mention == BOOLEAN \cup {None, Wrong}
Bindings ==
    Seq([chat : Chats \cup {Wrong}, agent : Names \cup {None, Wrong, Blank},
         kind : {"dm", "group"} \cup {Wrong}, topic : Topics \cup {None, Wrong}, mention : Mention,
         topics : Seq([topic : Topics \cup {Wrong}, agent : Names \cup {None, Wrong, Blank},
                       mention : Mention])])
DiscordBindings ==
    Seq([channel : Channels \cup {None, Wrong}, guild : Guilds \cup {Wrong},
         agent : Names \cup {None, Wrong, Blank}, kind : {"dm", "channel"} \cup {Wrong},
         mention : Mention,
         channels : Seq([channel : Channels \cup {Wrong}, agent : Names \cup {None, Wrong, Blank},
                         mention : Mention])])
BaseFile ==
    [agents : SUBSET Names, sound : BOOLEAN, token : BOOLEAN, bindings : Bindings,
     discord : BOOLEAN, discordToken : BOOLEAN, discordBindings : DiscordBindings,
     requireMention : Mention]
LocalFile ==
    [agents : SUBSET Names, sound : BOOLEAN, token : BOOLEAN \cup {None},
     bindings : Bindings \cup {None}, discord : BOOLEAN \cup {None},
     discordToken : BOOLEAN \cup {None}, discordBindings : DiscordBindings \cup {None},
     requireMention : Mention]

ASSUME ConfigAssumption ==
    /\ None \notin Names \cup Topics \cup Channels \cup Guilds
    /\ \A files \in Files : files[1] \in BaseFile /\ files[2] \in LocalFile

VARIABLE config    \* what loadConfig returned when the process started

\* Local leaves win, objects are merged, arrays are replaced as a whole.
MergeDeep(base, local) ==
    [f \in DOMAIN base |->
        IF f = "agents" THEN base.agents \cup local.agents
        ELSE IF f = "sound" THEN base.sound /\ local.sound
        ELSE IF local[f] # None THEN local[f]
        ELSE base[f]]

Typed(value) == IF value = Wrong THEN None ELSE value
OrElse(value, default) == IF value # None THEN value ELSE default

\* An override may name a configured agent; the empty string is not looked up.
KnownOverride(agent, agents) == Typed(agent) \in agents \cup {None, Blank}

ValidBinding(b, agents) ==
    /\ b.chat # Wrong
    /\ b.kind \in {"dm", "group"}
    /\ b.topics # <<>> => b.kind = "group" /\ b.topic = None
    /\ b.agent \in agents
    /\ \A i \in DOMAIN b.topics : /\ b.topics[i].topic # Wrong
                                  /\ KnownOverride(b.topics[i].agent, agents)

\* A topicId that is not a number is dropped, which leaves a chat-wide binding.
LoadedBinding(b) ==
    [b EXCEPT !.topic = Typed(@), !.mention = Typed(@),
              !.topics = [i \in DOMAIN b.topics |->
                            [b.topics[i] EXCEPT !.agent = Typed(@), !.mention = Typed(@)]]]

ValidDiscordBinding(b, agents) ==
    /\ b.guild # Wrong
    /\ b.kind \in {"dm", "channel"}
    /\ b.channel # Wrong
    /\ b.kind = "dm" => b.channel # None
    /\ b.channels # <<>> => b.channel = None
    /\ b.agent \in agents
    /\ \A i \in DOMAIN b.channels : /\ b.channels[i].channel # Wrong
                                    /\ KnownOverride(b.channels[i].agent, agents)

LoadedDiscordBinding(b) ==
    [b EXCEPT !.mention = Typed(@),
              !.channels = [i \in DOMAIN b.channels |->
                              [b.channels[i] EXCEPT !.agent = Typed(@), !.mention = Typed(@)]]]

\* What loadConfig does not throw for; "sound" stands for the fields that
\* routing does not read (agent entries, limits, secrets, delivery defaults).
Accepted(raw) ==
    /\ raw.sound
    /\ raw.bindings # <<>> => raw.token
    /\ \A i \in DOMAIN raw.bindings : ValidBinding(raw.bindings[i], raw.agents)
    /\ raw.discord =>
        /\ raw.discordToken
        /\ raw.discordBindings # <<>>
        /\ \A i \in DOMAIN raw.discordBindings :
                ValidDiscordBinding(raw.discordBindings[i], raw.agents)
    /\ raw.bindings # <<>> \/ raw.discord
    /\ raw.requireMention # Wrong

LoadConfig(raw) ==
    [agents |-> raw.agents,
     bindings |-> [i \in DOMAIN raw.bindings |-> LoadedBinding(raw.bindings[i])],
     discord |-> IF raw.discord THEN [i \in DOMAIN raw.discordBindings |->
                                        LoadedDiscordBinding(raw.discordBindings[i])]
                 ELSE <<>>,
     requireMention |-> OrElse(raw.requireMention, TRUE)]

ConfigInit ==
    \E files \in Files :
        LET raw == MergeDeep(files[1], files[2])
        IN  Accepted(raw) /\ config = LoadConfig(raw)

Unbound == [agent |-> None]

First(indices) == CHOOSE i \in indices : \A j \in indices : i <= j

\* Array.find: the first element that passes the test.
Find(list, Passes(_)) ==
    LET passed == {i \in DOMAIN list : Passes(list[i])}
    IN  IF passed = {} THEN Unbound ELSE list[First(passed)]

Authorized(chat) == \E i \in DOMAIN config.bindings : config.bindings[i].chat = chat

\* A bug: the first binding that covers the conversation is taken.
ResolveBindingInOrder(chat, bindings, topic) ==
    LET covering == Find(bindings, LAMBDA b : b.chat = chat /\ b.topic \in {None, topic})
    IN  IF covering = Unbound THEN Unbound ELSE [covering EXCEPT !.topic = topic]

ResolveBinding(chat, bindings, topic) ==
    LET exact == Find(bindings, LAMBDA b : b.chat = chat /\ b.topic # None /\ b.topic = topic)
        wide  == Find(bindings, LAMBDA b : b.chat = chat /\ b.topic = None)
        listed == Find(wide.topics, LAMBDA o : o.topic = topic)
    IN  IF exact # Unbound THEN exact
        ELSE IF wide = Unbound \/ topic = None THEN wide
        ELSE IF listed = Unbound THEN [wide EXCEPT !.topic = topic]
        ELSE [wide EXCEPT !.topic = topic, !.agent = OrElse(listed.agent, @),
                          !.mention = OrElse(listed.mention, @), !.topics = <<>>]

ShouldRespondInGroup(binding, addressed) ==
    \/ binding.kind # "group"
    \/ ~OrElse(binding.mention, config.requireMention)
    \/ addressed

ResolveDiscordBinding(channel, bindings, guild) ==
    LET exact == Find(bindings, LAMBDA b : b.channel = channel)
        wide  == Find(bindings, LAMBDA b : b.channel = None /\ guild # None /\ b.guild = guild)
        listed == Find(wide.channels, LAMBDA o : o.channel = channel)
    IN  IF exact # Unbound THEN exact
        ELSE IF wide = Unbound THEN Unbound
        ELSE IF listed = Unbound THEN [wide EXCEPT !.channels = <<>>]
        ELSE [wide EXCEPT !.channel = channel, !.agent = OrElse(listed.agent, @),
                          !.mention = OrElse(listed.mention, @), !.channels = <<>>]

ShouldRespondInDiscord(binding, mentioned) ==
    \/ binding.kind = "dm"
    \/ ~OrElse(binding.mention, config.requireMention)
    \/ mentioned

-----------------------------------------------------------------------------
\* A conversation has a route exactly when some binding covers it.  A binding
\* of the topic itself comes before those of the chat, the first of its sort
\* counts, and the first listing of the topic changes only what it sets.
TelegramRoutes ==
    \A chat \in Chats, topic \in Topics \cup {None} :
        LET bs == config.bindings
            route == ResolveBinding(chat, bs, topic)
            covering == {i \in DOMAIN bs : bs[i].chat = chat /\ bs[i].topic \in {None, topic}}
            own == {i \in covering : bs[i].topic # None}
            b == bs[First(IF own # {} THEN own ELSE covering)]
            listings == {k \in DOMAIN b.topics : b.topics[k].topic = topic}
            listed == b.topics[First(listings)]
        IN  IF covering = {} THEN route = Unbound
            ELSE /\ route.chat = chat /\ route.topic = topic /\ route.kind = b.kind
                 /\ route.agent = IF listings # {} /\ listed.agent # None
                                  THEN listed.agent ELSE b.agent
                 /\ route.mention = IF listings # {} /\ listed.mention # None
                                    THEN listed.mention ELSE b.mention
                 /\ route.agent \in config.agents \cup {Blank}

\* A binding of the channel, wherever it stands, comes before the bindings of
\* the guild; a listed channel changes only what it sets.
DiscordRoutes ==
    \A channel \in Channels, guild \in Guilds \cup {None} :
        LET bs == config.discord
            route == ResolveDiscordBinding(channel, bs, guild)
            own == {i \in DOMAIN bs : bs[i].channel = channel}
            wide == {i \in DOMAIN bs : bs[i].channel = None /\ bs[i].guild = guild}
            b == bs[First(IF own # {} THEN own ELSE wide)]
            listings == {k \in DOMAIN b.channels : b.channels[k].channel = channel}
            listed == b.channels[First(listings)]
        IN  IF own \cup wide = {} THEN route = Unbound
            ELSE /\ route.kind = b.kind
                 /\ route.agent = IF listings # {} /\ listed.agent # None
                                  THEN listed.agent ELSE b.agent
                 /\ route.mention = IF listings # {} /\ listed.mention # None
                                    THEN listed.mention ELSE b.mention
                 /\ route.agent \in config.agents \cup {Blank}

\* Whatever the order of the bindings and whichever file they come from, a
\* message goes to the agent of the most specific binding that covers its
\* conversation, and that agent is configured, unless an override names the
\* empty string, which the loader does not look up.
\* (resolveBinding, resolveDiscordBinding, loadConfig)
RoutesFollowTheBindings == TelegramRoutes /\ DiscordRoutes
=============================================================================
