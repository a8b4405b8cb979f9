SPECIFICATION FairSpec
CONSTANTS
    None = None
    EVENT_CAPACITY = 6
    CMD_CAPACITY = 1
    Worlds <- EveryWorld
CHECK_DEADLOCK FALSE
INVARIANTS
    BeliefCurrent
    ForgottenWithoutSession
PROPERTIES
    ImplementsFeed
    SessionComesBack
    CoordinatorGoesOn
    RequestServed
