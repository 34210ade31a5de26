CONSTANTS
    c1 = c1
    Chats = {c1}
    QueueCap = 1
    MaxMessages = 5

SPECIFICATION FairSpec
INVARIANTS
    CleanedOnce
    HasAWaker
    EntryIsBounded
PROPERTIES
    ImplementsLifecycle
    HandedInOrder
    EventuallyReleased
    EntriesAreEvicted

CHECK_DEADLOCK FALSE
