SPECIFICATION LinkSpec
CONSTANTS
    Nonces = {n1, n2, n3, n4}
    None = None
    VRCHAT_COMMAND_TIMEOUT = 1
    DISCORD_COMMAND_TIMEOUT = 2
    VRCHAT_TX_CAPACITY = 3
    DISCORD_TX_CAPACITY = 2
    Configs <- EitherMode
    Worlds <- Unreliable
CHECK_DEADLOCK FALSE
INVARIANTS
    BeliefsRight
    MicBelongsToUser
