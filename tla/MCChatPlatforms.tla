-------------------------- MODULE MCChatPlatforms --------------------------
(***************************************************************************)
(* Configurations for TLC.  The base file has an agent and a binding of a  *)
(* direct chat; each local file replaces the bindings of one platform.     *)
(***************************************************************************)
EXTENDS ChatPlatforms, TLC

CONSTANTS main, side, c1, c2, t1, t2, dm, ch, srv

Binding(chat, agent, kind, topic, mention, topics) ==
    [chat |-> chat, agent |-> agent, kind |-> kind, topic |-> topic,
     mention |-> mention, topics |-> topics]
Override(topic, agent, mention) == [topic |-> topic, agent |-> agent, mention |-> mention]

Base == [agents |-> {main}, sound |-> TRUE, token |-> TRUE,
         bindings |-> <<Binding(c1, main, "dm", None, None, <<>>)>>,
         discord |-> FALSE, discordToken |-> TRUE, discordBindings |-> <<>>,
         requireMention |-> None]
Empty == [agents |-> {side}, sound |-> TRUE, token |-> None, bindings |-> None,
          discord |-> None, discordToken |-> None, discordBindings |-> None,
          requireMention |-> None]

Chat   == Binding(c1, main, "group", None, FALSE, <<>>)
Listed == Binding(c1, main, "group", None, None,
                  <<Override(t1, side, FALSE), Override(t1, main, None), Override(t2, Blank, Wrong)>>)
Topic  == Binding(c1, side, "group", t1, FALSE, <<>>)
Other  == Binding(c2, side, "group", None, FALSE, <<>>)
Lax    == Binding(c2, side, "group", Wrong, FALSE, <<>>)
Torn   == Binding(c1, side, "group", Wrong, FALSE, <<Override(t1, side, None)>>)
Ill    == Binding(c1, side, "dm", None, None, <<Override(t1, side, None)>>)

TelegramFiles ==
    {<<Base, [Empty EXCEPT !.bindings = bs]>> : bs \in
        {<<Chat, Topic>>, <<Listed, Chat>>, <<Lax>>, <<Torn>>, <<Ill, Chat>>}}
    \cup {<<Base, [Empty EXCEPT !.agents = {}, !.bindings = <<Other>>]>>}

Channel(channel, guild, agent, kind, mention, channels) ==
    [channel |-> channel, guild |-> guild, agent |-> agent, kind |-> kind,
     mention |-> mention, channels |-> channels]
Within(channel, agent, mention) == [channel |-> channel, agent |-> agent, mention |-> mention]

Guild  == Channel(None, srv, main, "channel", None, <<Within(ch, side, FALSE)>>)
Exact  == Channel(ch, srv, main, "channel", TRUE, <<>>)
Direct == Channel(dm, srv, side, "dm", None, <<>>)

DiscordFiles ==
    {<<Base, [Empty EXCEPT !.bindings = <<>>, !.discord = TRUE, !.discordBindings = bs]>> :
        bs \in {<<Guild, Exact, Direct>>, <<Guild, Direct>>, <<Exact, Guild>>, <<>>}}

MCFiles == TelegramFiles \cup DiscordFiles
MCBusy == {<<c1, None>>, <<c1, t1>>, <<c2, t2>>}
MCGuildOf == (ch :> srv) @@ (dm :> None)
=============================================================================
