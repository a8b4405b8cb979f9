SPECIFICATION FairSpec
CONSTANTS
    None = None
    HeaderLen = 2
    MAX_FRAME_LEN = 1
    READ_CHUNK = 3
    MaxFrames = 3
INVARIANTS
    TypeOK
    Aligned
PROPERTIES
    ImplementsStream
    FramesArrive
