--------------------------- MODULE ChatPlatforms ---------------------------
(***************************************************************************)
(* main.ts: one configuration, and the bot of each platform it names.      *)
(* The platforms share nothing but the configuration and the session       *)
(* manager, which is a component of its own (SessionManager).              *)
(***************************************************************************)
EXTENDS ChatRouting, DiscordIntake

vars == <<routing, discord>>

Init == ConfigInit /\ RoutingInit /\ DiscordInit

Telegram == config.bindings # <<>> /\ RoutingNext /\ UNCHANGED discord

Discord ==
    /\ config.discord # <<>>
    /\ DiscordNext
    /\ UNCHANGED <<telegram, up, voice, caches, disk, handed, starts>>

Next == Telegram \/ Discord

Spec == Init /\ [][Next]_vars
=============================================================================
