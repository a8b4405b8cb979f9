SPECIFICATION FairSpec
CONSTANTS
    None = None
    EVENT_CAPACITY = 2
    CMD_CAPACITY = 1
    SOCKET_CAPACITY = 2
    Worlds <- EveryWorld
CHECK_DEADLOCK FALSE
INVARIANTS
    LossesBounded
    ButtonReleased
    MicHeard
PROPERTIES
    ImplementsFeed
    TogglesTaken
