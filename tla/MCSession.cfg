SPECIFICATION FairSpec
CONSTANTS
    SourceKinds = {"tcp", "listen", "file"}
    Depth = 2
    ReadErrorLimit = 2
    ChunkPackets = 2
    MaxItems = 5
    MaxEra = 3
    DecoderMayDie = TRUE
INVARIANTS
    TypeOK
    DeliveryInOrder
    CountsOfOneStream
    PacketsAccountedFor
    EndingIsHonest
PROPERTIES
    Refined
    ShutdownCompletes
    BurstIsDelivered
    PassIsDecoded
CHECK_DEADLOCK FALSE
