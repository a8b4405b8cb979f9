SPECIFICATION Spec
CONSTANTS
    None = None
    EVENT_CAPACITY = 6
    CMD_CAPACITY = 1
    Worlds <- OneDecline
CHECK_DEADLOCK FALSE
INVARIANTS
    NothingDropped
