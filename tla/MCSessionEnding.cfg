\* An ending with no reason: the ring is not empty and the decode thread dies.
SPECIFICATION Spec
CONSTANTS
    SourceKinds = {"listen"}
    Depth = 2
    ReadErrorLimit = 2
    ChunkPackets = 2
    MaxItems = 5
    MaxEra = 4
    DecoderMayDie = TRUE
INVARIANT EndingExplained
CHECK_DEADLOCK FALSE
