\* A replay: the task ends while the decode thread is still behind.
SPECIFICATION Spec
CONSTANTS
    SourceKinds = {"file"}
    Depth = 2
    ReadErrorLimit = 2
    ChunkPackets = 2
    MaxItems = 3
    MaxEra = 1
    DecoderMayDie = FALSE
INVARIANT CountersAreFinal
CHECK_DEADLOCK FALSE
