SPECIFICATION Spec
CONSTANTS
    None = None
    Wrong = Wrong
    Blank = Blank
    main = main
    side = side
    c1 = c1
    c2 = c2
    t1 = t1
    t2 = t2
    dm = dm
    ch = ch
    srv = srv
    Files <- MCFiles
    GuildOf <- MCGuildOf
    Busy <- MCBusy
    Names = {main, side}
    Chats = {c1, c2}
    Topics = {t1, t2}
    Channels = {ch, dm}
    Guilds = {srv}
    DMessages = {d1, d2}
    Threads = {th}
    MaxFiles = 2
    Kinds = {"file", "voice", "command"}
    MaxSize = 2
    MaxPosts = 3
    MaxInbox = 1
    MaxStarts = 2
CHECK_DEADLOCK FALSE
INVARIANTS
    RoutesFollowTheBindings
    ReactionsFindTheirTopic
    IndexKeepsTheNewest
    AttachmentsAreSettled
