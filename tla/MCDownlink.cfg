\* Every packet arrives as it was sent, or is counted.
SPECIFICATION DownlinkSpec
CONSTANTS
    A = a
    B = b
    S = stream
    Vcids <- MCVcids
    Stream = stream
    HeaderBytes = 2
    MaxPacketLength = 6
    Modulus = 3
    Bytes <- MCBytes
    Passes <- MCPasses
    DataField = 4
    MaxBurst = 2
    Lossy <- MCLossy
    PacketIds = 3
    Misread = 3
    MaxRead = 5
    LockLosses = FALSE
INVARIANTS
    PacketsTypeOK
    PartialBounded
    BytesConserved
    PacketsAsSent
