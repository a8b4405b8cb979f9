SPECIFICATION Spec
CONSTANTS
    Nonces = {n1, n2, n3}
    None = None
    Configs <- EveryConfig
    VRCHAT_COMMAND_TIMEOUT = 1
    DISCORD_COMMAND_TIMEOUT = 2
    VRCHAT_TX_CAPACITY = 1
    DISCORD_TX_CAPACITY = 1
SYMMETRY NonceSymmetry
CHECK_DEADLOCK FALSE
INVARIANTS
    TypeOK
    SyncedOnceBothKnown
    PendingContradictsBelief
    CommandsOnlyAfterSync
    DiscordKnownOnlyWhenConnected
    SnapshotCurrent
PROPERTIES
    ToggleOnlyWhenLinked
    BothPendingOnlyByResume
    InitialSyncRespectsAuthority
    PendingDiscordReplacedOnlyByResync
