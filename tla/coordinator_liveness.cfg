SPECIFICATION FairSpec
CONSTANTS
    Nonces = {n1, n2, n3}
    None = None
    Configs <- VrchatFirst
    VRCHAT_COMMAND_TIMEOUT = 1
    DISCORD_COMMAND_TIMEOUT = 2
    VRCHAT_TX_CAPACITY = 1
    DISCORD_TX_CAPACITY = 1
CHECK_DEADLOCK FALSE
PROPERTIES
    PendingCommandsResolve
