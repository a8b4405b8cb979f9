SPECIFICATION FairSpec
CONSTANTS
    Languages = {en, ja, de}
    DefaultLanguage = en
    Others = {factory, own}
    DefaultOthers = factory
    MaxEdits = 3
    Worlds <- EveryWorld
INVARIANTS
    NeverHalfWritten
    SettingsKept
    CorruptKept
PROPERTIES
    StartsAnyway
